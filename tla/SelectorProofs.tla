--------------------------- MODULE SelectorProofs ---------------------------
(***************************************************************************)
(* For any page, any value and any rule: the steps of a JSoup or XPath     *)
(* rule lead where their path does, a JSON path leads where JSONPath does, *)
(* and a selector finds what it means, element by element.                 *)
(*                                                                         *)
(* What a selector means and where a path leads are recursive functions of *)
(* the page and the rule, so they are shown to be defined first.  Each     *)
(* inductive invariant says of the search, where it stands, what is left   *)
(* to be found from there.                                                 *)
(***************************************************************************)
EXTENDS SourceService, SourceProofs, WellFoundedInduction

-----------------------------------------------------------------------------
(* Numbers, recursion and sequences. *)

\* A set of natural numbers has a least element.
LEMMA LeastNumber ==
  ASSUME NEW N, N \subseteq Nat, N # {}
  PROVE  \E x \in N : \A y \in N : x <= y
<1> DEFINE R == {ab \in Nat \X Nat : ab[1] < ab[2]}
<1>1. R = OpToRel(<, Nat)
  BY DEF OpToRel
<1>2. IsWellFoundedOn(R, Nat)
  BY <1>1, NatLessThanWellFounded
<1>3. PICK x \in N : \A y \in N : <<y, x>> \notin R
  <2> HIDE DEF R
  <2> QED
    BY <1>2, WFMin
<1> QED
  <2>1. \A y \in N : ~(y < x)
    BY <1>3
  <2> QED
    BY <2>1

\* A set that holds 0 and the successor of each of its elements holds all natural numbers.
LEMMA EveryNumber ==
  ASSUME NEW N, 0 \in N, \A n \in Nat : n \in N => n + 1 \in N
  PROVE  Nat \subseteq N
<1> SUFFICES ASSUME Nat \ N # {} PROVE FALSE
  OBVIOUS
<1>1. PICK x \in Nat \ N : \A y \in Nat \ N : x <= y
  BY LeastNumber
<1>2. x # 0 /\ x - 1 \in Nat
  BY <1>1
<1>3. x - 1 \in N
  BY <1>1, <1>2
<1> QED
  BY <1>1, <1>2, <1>3

\* f is what G makes of it, for whatever is shorter than n.
Solves(P, size, G, f, n) == \A p \in P : size[p] < n => f[p] = G[p, f]

\* G looks at f for nothing but what is shorter.
LooksBelow(P, size, V, G) ==
    \A p \in P : \A f, g \in [P -> V] :
        (\A q \in P : size[q] < size[p] => f[q] = g[q]) => G[p, f] = G[p, g]

\* What it makes of a function is a value.
StaysIn(P, V, G) == \A p \in P : \A f \in [P -> V] : G[p, f] \in V

\* There is a function that is what G makes of it.
Solvable(P, V, G) == \E f \in [P -> V] : \A p \in P : f[p] = G[p, f]

\* Two solutions are the same as far as both are solutions.
LEMMA SolvedOnce ==
  ASSUME NEW P, NEW size \in [P -> Nat], NEW V, NEW G, LooksBelow(P, size, V, G),
         NEW f \in [P -> V], NEW g \in [P -> V], NEW n \in Nat,
         Solves(P, size, G, f, n), Solves(P, size, G, g, n)
  PROVE  \A p \in P : size[p] < n => f[p] = g[p]
<1> DEFINE D == {p \in P : size[p] < n /\ f[p] # g[p]}
           N == {size[p] : p \in D}
<1> SUFFICES ASSUME D # {} PROVE FALSE
  OBVIOUS
<1>1. N \subseteq Nat /\ N # {}
  OBVIOUS
<1>2. PICK m \in N : \A k \in N : m <= k
  <2> HIDE DEF N
  <2> QED
    BY <1>1, LeastNumber
<1>3. PICK p \in D : size[p] = m
  OBVIOUS
<1>4. ASSUME NEW q \in P, size[q] < size[p] PROVE f[q] = g[q]
  <2> SUFFICES ASSUME f[q] # g[q] PROVE FALSE
    OBVIOUS
  <2>1. size[q] \in Nat /\ size[p] \in Nat
    OBVIOUS
  <2>2. q \in D
    BY <1>4, <2>1
  <2>3. m <= size[q]
    BY <1>2, <2>2
  <2> QED
    BY <1>3, <1>4, <2>1, <2>3
<1>5. G[p, f] = G[p, g]
  BY <1>4 DEF LooksBelow
<1>6. f[p] = G[p, f] /\ g[p] = G[p, g]
  BY DEF Solves
<1> QED
  BY <1>5, <1>6

\* There is one, if G looks only at what is shorter.
LEMMA Recursion ==
  ASSUME NEW P, NEW size \in [P -> Nat], NEW V, NEW v \in V,
         NEW G, StaysIn(P, V, G), LooksBelow(P, size, V, G)
  PROVE  Solvable(P, V, G)
<1> DEFINE N == {n \in Nat : \E f \in [P -> V] : Solves(P, size, G, f, n)}
<1>0. \A p \in P : size[p] \in Nat
  OBVIOUS
<1>1. 0 \in N
  <2> DEFINE f == [p \in P |-> v]
  <2>1. f \in [P -> V]
    OBVIOUS
  <2> HIDE DEF f
  <2>2. Solves(P, size, G, f, 0)
    <3>1. \A p \in P : ~(size[p] < 0)
      BY <1>0
    <3> QED
      BY <3>1 DEF Solves
  <2> QED
    BY <2>1, <2>2
<1>2. ASSUME NEW n \in Nat, n \in N PROVE n + 1 \in N
  <2>1. PICK f \in [P -> V] : Solves(P, size, G, f, n)
    BY <1>2
  <2> DEFINE g == [p \in P |-> IF size[p] < n THEN f[p] ELSE G[p, f]]
  <2>2. g \in [P -> V]
    BY DEF StaysIn
  <2>3. \A p \in P : size[p] < n => g[p] = f[p]
    OBVIOUS
  <2>4. \A p \in P : ~(size[p] < n) => g[p] = G[p, f]
    OBVIOUS
  <2> HIDE DEF g
  <2>5. ASSUME NEW p \in P, size[p] < n + 1 PROVE g[p] = G[p, g]
    <3>1. size[p] \in Nat
      OBVIOUS
    <3>2. \A q \in P : size[q] < size[p] => f[q] = g[q]
      <4> SUFFICES ASSUME NEW q \in P, size[q] < size[p] PROVE f[q] = g[q]
        OBVIOUS
      <4>1. size[q] < n
        BY <1>0, <2>5
      <4> QED
        BY <2>3, <4>1
    <3>3. G[p, f] = G[p, g]
      BY <2>2, <3>2 DEF LooksBelow
    <3>4. CASE size[p] < n
      <4>1. f[p] = G[p, f]
        BY <2>1, <3>4 DEF Solves
      <4> QED
        BY <2>3, <3>3, <3>4, <4>1
    <3>5. CASE ~(size[p] < n)
      BY <2>4, <3>3, <3>5
    <3> QED
      BY <3>4, <3>5
  <2>6. Solves(P, size, G, g, n + 1)
    BY <2>5 DEF Solves
  <2>7. n + 1 \in Nat
    OBVIOUS
  <2> QED
    BY <2>2, <2>6, <2>7
<1>3. Nat \subseteq N
  <2> HIDE DEF N
  <2> QED
    BY <1>1, <1>2, EveryNumber
<1> DEFINE far(p) == CHOOSE f \in [P -> V] : Solves(P, size, G, f, size[p] + 1)
           F == [p \in P |-> far(p)[p]]
<1>4. ASSUME NEW p \in P PROVE far(p) \in [P -> V] /\ Solves(P, size, G, far(p), size[p] + 1)
  <2>1. size[p] + 1 \in N
    <3> HIDE DEF N
    <3> QED
      BY <1>0, <1>3
  <2>2. \E f \in [P -> V] : Solves(P, size, G, f, size[p] + 1)
    BY <2>1
  <2> QED
    BY <2>2
<1>5. F \in [P -> V]
  <2>1. \A p \in P : far(p)[p] \in V
    <3> TAKE p \in P
    <3>1. far(p) \in [P -> V]
      BY <1>4
    <3> HIDE DEF far
    <3> QED
      BY <3>1
  <2> HIDE DEF far
  <2> QED
    BY <2>1
<1>6. ASSUME NEW p \in P PROVE F[p] = G[p, F]
  <2> DEFINE f == far(p)
  <2>1. f \in [P -> V] /\ Solves(P, size, G, f, size[p] + 1) /\ size[p] \in Nat
    BY <1>4
  <2>2. ASSUME NEW q \in P, size[q] < size[p] PROVE f[q] = F[q]
    <3> DEFINE g == far(q)
               n == size[q] + 1
    <3>1. g \in [P -> V] /\ Solves(P, size, G, g, n)
      BY <1>4
    <3>5. n \in Nat /\ size[q] < n /\ n < size[p] + 1
      BY <1>0, <2>2
    <3>2. F[q] = g[q]
      OBVIOUS
    <3>3. Solves(P, size, G, f, n)
      <4> HIDE DEF f, g
      <4> HIDE DEF n
      <4>2. \A r \in P : size[r] < n => size[r] < size[p] + 1
        BY <1>0, <3>5
      <4> QED
        BY <2>1, <4>2 DEF Solves
    <3> HIDE DEF f, g, n, F
    <3>4. f[q] = g[q]
      BY <2>1, <3>1, <3>3, <3>5, SolvedOnce
    <3> QED
      BY <3>2, <3>4
  <2>3. F[p] = f[p]
    OBVIOUS
  <2> HIDE DEF f, F
  <2>4. G[p, f] = G[p, F]
    BY <1>5, <2>1, <2>2 DEF LooksBelow
  <2>5. f[p] = G[p, f]
    <3>1. size[p] < size[p] + 1
      BY <1>0
    <3> QED
      BY <2>1, <3>1 DEF Solves
  <2> QED
    BY <2>3, <2>4, <2>5
<1> HIDE DEF F
<1> QED
  BY <1>5, <1>6 DEF Solvable

\* Sequences of sequences, one after the other.
LEMMA FlattenTyped ==
  ASSUME NEW X, NEW s \in Seq(Seq(X))
  PROVE  FlattenSeq(s) \in Seq(X)
<1> DEFINE n == Len(s)
           body(f, i) == IF i = 1 THEN s[i] ELSE f[i - 1] \o s[i]
           T == {k \in Nat : k <= n => \E f \in [1 .. n -> Seq(X)] : \A i \in 1 .. k : f[i] = body(f, i)}
<1>0. n \in Nat /\ \A i \in 1 .. n : s[i] \in Seq(X)
  OBVIOUS
<1>1. 0 \in T
  <2> DEFINE e == [i \in 1 .. n |-> <<>>]
  <2>1. e \in [1 .. n -> Seq(X)]
    OBVIOUS
  <2> HIDE DEF e, body
  <2> QED
    BY <2>1
<1>2. ASSUME NEW k \in Nat, k \in T PROVE k + 1 \in T
  <2> SUFFICES ASSUME k + 1 <= n
               PROVE  \E f \in [1 .. n -> Seq(X)] : \A i \in 1 .. k + 1 : f[i] = body(f, i)
    <3>1. k + 1 \in Nat
      OBVIOUS
    <3> HIDE DEF body, n
    <3> QED
      BY <3>1
  <2>1. PICK f \in [1 .. n -> Seq(X)] : \A i \in 1 .. k : f[i] = body(f, i)
    BY <1>0, <1>2
  <2> DEFINE g == [f EXCEPT ![k + 1] = body(f, k + 1)]
  <2>2. body(f, k + 1) \in Seq(X)
    <3>1. k + 1 \in 1 .. n /\ s[k + 1] \in Seq(X)
      BY <1>0
    <3>2. CASE k = 0
      BY <3>1, <3>2
    <3>3. CASE k # 0
      <4>1. (k + 1) - 1 = k /\ k \in 1 .. n /\ k + 1 # 1
        BY <3>1, <3>3
      <4>2. f[k] \in Seq(X)
        BY <4>1
      <4>3. f[k] \o s[k + 1] \in Seq(X)
        BY <3>1, <4>2, ConcatProperties
      <4> QED
        BY <4>1, <4>3
    <3> QED
      BY <3>2, <3>3
  <2>3. g \in [1 .. n -> Seq(X)]
    <3> HIDE DEF body
    <3> QED
      BY <2>2
  <2>4. \A i \in 1 .. n : g[i] = IF i = k + 1 THEN body(f, k + 1) ELSE f[i]
    <3> HIDE DEF body
    <3> QED
      OBVIOUS
  <2> HIDE DEF g
  <2>5. ASSUME NEW i \in 1 .. k + 1 PROVE g[i] = body(g, i)
    <3>1. i \in 1 .. n /\ (i # 1 => i - 1 \in 1 .. n /\ i - 1 # k + 1)
      BY <1>0
    <3>2. i # 1 => g[i - 1] = f[i - 1]
      <4> HIDE DEF body
      <4> QED
        BY <2>4, <3>1
    <3>3. body(g, i) = body(f, i)
      BY <3>2
    <3> HIDE DEF body
    <3>4. CASE i = k + 1
      BY <2>4, <3>1, <3>3, <3>4
    <3>5. CASE i # k + 1
      <4>1. i \in 1 .. k
        BY <3>5
      <4> QED
        BY <2>1, <2>4, <3>1, <3>3, <3>5, <4>1
    <3> QED
      BY <3>4, <3>5
  <2> HIDE DEF body
  <2> QED
    BY <2>3, <2>5
<1>3. n \in T
  <2> HIDE DEF T, n
  <2> QED
    BY <1>0, <1>1, <1>2, EveryNumber
<1>4. PICK f \in [1 .. n -> Seq(X)] : \A i \in 1 .. n : f[i] = body(f, i)
  BY <1>0, <1>3
<1> DEFINE g == CHOOSE h : h = [i \in 1 .. n |-> IF i = 1 THEN s[i] ELSE h[i - 1] \o s[i]]
<1>5. g = [i \in 1 .. n |-> IF i = 1 THEN s[i] ELSE g[i - 1] \o s[i]]
  <2>1. f = [i \in 1 .. n |-> IF i = 1 THEN s[i] ELSE f[i - 1] \o s[i]]
    BY <1>4
  <2> QED
    BY <2>1
<1>6. n # 0 => FlattenSeq(s) = g[n]
  BY DEF FlattenSeq
<1>7. n = 0 => FlattenSeq(s) = <<>>
  BY DEF FlattenSeq
<1> DEFINE U == {k \in Nat : k \in 1 .. n => g[k] \in Seq(X)}
<1>8. ASSUME NEW k \in Nat, k \in U PROVE k + 1 \in U
  <2> SUFFICES ASSUME k + 1 \in 1 .. n PROVE g[k + 1] \in Seq(X)
    OBVIOUS
  <2> HIDE DEF g
  <2>1. g[k + 1] = IF k + 1 = 1 THEN s[k + 1] ELSE g[(k + 1) - 1] \o s[k + 1]
    BY <1>5
  <2>2. s[k + 1] \in Seq(X)
    BY <1>0
  <2>3. CASE k = 0
    BY <2>1, <2>2, <2>3
  <2>4. CASE k # 0
    <3>1. (k + 1) - 1 = k /\ k \in 1 .. n /\ k + 1 # 1
      BY <1>0, <2>4
    <3>2. g[k] \in Seq(X)
      BY <1>8, <3>1
    <3>3. g[k] \o s[k + 1] \in Seq(X)
      BY <2>2, <3>2, ConcatProperties
    <3> QED
      BY <2>1, <3>1, <3>3
  <2> QED
    BY <2>3, <2>4
<1>9. 0 \in U
  OBVIOUS
<1>10. Nat \subseteq U
  <2> HIDE DEF U
  <2> QED
    BY <1>8, <1>9, EveryNumber
<1> QED
  <2> HIDE DEF g
  <2>1. CASE n = 0
    BY <1>7, <2>1
  <2>2. CASE n # 0
    <3>1. n \in 1 .. n
      BY <1>0, <2>2
    <3> QED
      BY <1>0, <1>6, <1>10, <2>2, <3>1
  <2> QED
    BY <2>1, <2>2

-----------------------------------------------------------------------------
(* Items of a list. *)

\* The indexes in turn grow.
LEMMA InTurnAscends ==
  ASSUME NEW S, S \subseteq Nat, IsFiniteSet(S)
  PROVE  \A k, m \in DOMAIN InTurn(S) : k < m => InTurn(S)[k] < InTurn(S)[m]
<1> DEFINE N == Cardinality(S)
           Below(i) == {j \in S : j < i}
           rank(i) == Cardinality(Below(i))
           q == InTurn(S)
<1>1. N \in Nat
  BY FS_CardinalityType
<1>2. /\ \A i \in S : rank(i) \in 0 .. N - 1
      /\ \A n \in 0 .. N - 1 : \E i \in S : rank(i) = n
  BY Ranks
<1>3. q = [k \in 1 .. N |-> CHOOSE i \in S : rank(i) = k - 1]
  BY DEF InTurn
<1>4. ASSUME NEW k \in 1 .. N PROVE q[k] \in S /\ rank(q[k]) = k - 1
  <2>1. k - 1 \in 0 .. N - 1
    BY <1>1
  <2> HIDE DEF rank, N, q
  <2>2. \E i \in S : rank(i) = k - 1
    BY <1>2, <2>1
  <2> QED
    BY <1>3, <2>2
<1>5. ASSUME NEW i \in S, NEW j \in S, i <= j PROVE rank(i) <= rank(j)
  <2>1. \A x \in S : x \in Nat
    OBVIOUS
  <2>2. Below(i) \subseteq Below(j)
    <3> SUFFICES ASSUME NEW x \in S, x < i PROVE x < j
      OBVIOUS
    <3>1. x \in Nat /\ i \in Nat /\ j \in Nat
      BY <2>1
    <3> QED
      BY <1>5, <3>1
  <2>3. Below(j) \subseteq S
    OBVIOUS
  <2> HIDE DEF Below
  <2>4. IsFiniteSet(Below(j))
    BY <2>3, FS_Subset
  <2> QED
    BY <2>2, <2>4, FS_Subset
<1>6. DOMAIN q = 1 .. N
  BY <1>3
<1> SUFFICES ASSUME NEW k \in 1 .. N, NEW m \in 1 .. N, k < m PROVE q[k] < q[m]
  BY <1>6
<1>7. /\ q[k] \in S /\ rank(q[k]) = k - 1
      /\ q[m] \in S /\ rank(q[m]) = m - 1
  BY <1>4
<1>8. q[k] \in Nat /\ q[m] \in Nat
  BY <1>7
<1>9. q[m] <= q[k] => rank(q[m]) <= rank(q[k])
  BY <1>5, <1>7
<1> HIDE DEF rank, q
<1> QED
  BY <1>1, <1>7, <1>8, <1>9

\* A list that grows and holds a set of indexes is that set in turn.
LEMMA InTurnOnly ==
  ASSUME NEW S, S \subseteq Nat, IsFiniteSet(S), NEW n \in Nat, NEW g, g = [k \in 1 .. n |-> g[k]],
         \A k \in 1 .. n : g[k] \in S,
         \A k, m \in 1 .. n : k < m => g[k] < g[m],
         \A i \in S : \E k \in 1 .. n : g[k] = i
  PROVE  n = Cardinality(S) /\ InTurn(S) = g
<1> DEFINE q == InTurn(S)
           N == Cardinality(S)
<1>1. N \in Nat /\ DOMAIN q = 1 .. N /\ q \in Seq(S)
  BY InTurnIs
<1>2. \A i \in S : \E k \in 1 .. N : q[k] = i
  BY <1>1, InTurnIs
<1>3. \A k, m \in 1 .. N : k < m => q[k] < q[m]
  BY <1>1, InTurnAscends
<1> HIDE DEF q, N
<1>4. q = [k \in 1 .. N |-> q[k]]
  BY <1>1
<1>5. \A k \in 1 .. N : q[k] \in S /\ q[k] \in Nat
  BY <1>1
<1>6. \A k \in 1 .. n : g[k] \in Nat
  OBVIOUS
<1> DEFINE P(k) == k <= n /\ k <= N /\ q[k] = g[k]
           B == {k \in Nat : k >= 1 /\ (k <= n \/ k <= N) /\ ~P(k)}
<1>7. B = {}
  <2> SUFFICES ASSUME B # {} PROVE FALSE
    OBVIOUS
  <2>1. B \subseteq Nat
    OBVIOUS
  <2>2. PICK k \in B : \A m \in B : k <= m
    <3> HIDE DEF B
    <3> QED
      BY <2>1, LeastNumber
  <2>3. k \in Nat /\ k >= 1 /\ (k <= n \/ k <= N) /\ ~P(k)
    OBVIOUS
  <2>4. \A m \in Nat : 1 <= m /\ m < k => P(m)
    <3> SUFFICES ASSUME NEW m \in Nat, 1 <= m, m < k, ~P(m) PROVE FALSE
      OBVIOUS
    <3>1. m <= n \/ m <= N
      BY <1>1, <2>3
    <3> HIDE DEF P
    <3>2. m \in B
      BY <3>1
    <3> HIDE DEF B
    <3> QED
      BY <2>2, <2>3, <3>2
  <2> HIDE DEF B
  \* What is at k in one of the lists is at some m in the other.
  <2>6. CASE k <= n
    <3>1. k \in 1 .. n /\ g[k] \in S
      BY <2>3, <2>6
    <3>2. PICK m \in 1 .. N : q[m] = g[k]
      BY <1>2, <3>1
    <3>3. ~(m < k)
      <4> SUFFICES ASSUME m < k PROVE FALSE
        OBVIOUS
      <4>1. m \in Nat /\ 1 <= m
        BY <1>1
      <4>2. P(m)
        BY <2>4, <4>1
      <4>3. m \in 1 .. n
        BY <4>1, <4>2
      <4>4. g[m] < g[k]
        BY <3>1, <4>3
      <4> QED
        BY <3>1, <3>2, <4>2, <4>4, <1>6
    <3>4. k \in 1 .. N
      BY <1>1, <2>3, <3>3
    <3>5. q[k] # g[k]
      BY <2>3, <3>1, <3>4
    <3>6. q[k] < g[k]
      <4>1. m # k
        BY <3>2, <3>5
      <4>2. k < m
        BY <1>1, <2>3, <3>3, <4>1
      <4> QED
        BY <1>3, <3>2, <3>4, <4>2
    <3>7. PICK l \in 1 .. n : g[l] = q[k]
      BY <1>5, <3>4
    <3>8. ~(k <= l)
      <4>1. k < l => g[k] < g[l]
        BY <3>1
      <4>2. g[k] \in Nat /\ g[l] \in Nat
        BY <1>6, <3>1
      <4> QED
        BY <2>3, <3>6, <3>7, <4>1, <4>2
    <3>9. l \in Nat /\ 1 <= l /\ l < k
      BY <2>3, <3>8
    <3>10. P(l)
      BY <2>4, <3>9
    <3>11. l \in 1 .. N
      BY <1>1, <3>9, <3>10
    <3>12. q[l] < q[k]
      BY <1>3, <3>4, <3>9, <3>11
    <3> QED
      BY <1>5, <3>4, <3>7, <3>10, <3>12
  <2>7. CASE ~(k <= n)
    <3>1. k \in 1 .. N /\ q[k] \in S
      BY <1>1, <1>5, <2>3, <2>7
    <3>2. PICK m \in 1 .. n : g[m] = q[k]
      BY <3>1
    <3>3. m \in Nat /\ 1 <= m /\ m < k
      BY <2>3, <2>7
    <3>4. P(m)
      BY <2>4, <3>3
    <3>5. m \in 1 .. N
      BY <1>1, <3>3, <3>4
    <3>6. q[m] < q[k]
      BY <1>3, <3>1, <3>3, <3>5
    <3> QED
      BY <1>5, <3>1, <3>2, <3>4, <3>6
  <2> QED
    BY <2>6, <2>7
<1>8. \A k \in Nat : k >= 1 /\ (k <= n \/ k <= N) => P(k)
  BY <1>7
<1>9. n = N
  <2> HIDE DEF P
  <2>1. n >= 1 /\ n <= n => P(n)
    BY <1>8
  <2>2. N >= 1 /\ N <= N => P(N)
    BY <1>1, <1>8
  <2> QED
    BY <1>1, <2>1, <2>2 DEF P
<1>10. \A k \in 1 .. n : q[k] = g[k]
  BY <1>8
<1>11. q = g
  BY <1>4, <1>9, <1>10
<1> QED
  BY <1>9, <1>11 DEF q, N

\* The items at some places of a list.
LEMMA ItemsAtIs ==
  ASSUME NEW X, NEW list \in Seq(X), NEW places, places \subseteq DOMAIN list
  PROVE  /\ ItemsAt(list, places) \in Seq(X) /\ Cardinality(places) \in Nat
         /\ IsFiniteSet(places) /\ InTurn(places) \in [1 .. Cardinality(places) -> places]
         /\ Len(ItemsAt(list, places)) = Cardinality(places)
         /\ DOMAIN ItemsAt(list, places) = 1 .. Cardinality(places)
         /\ \A k \in 1 .. Cardinality(places) : ItemsAt(list, places)[k] = list[InTurn(places)[k]]
         /\ \A i \in places : \E k \in 1 .. Cardinality(places) : InTurn(places)[k] = i
<1> DEFINE N == Cardinality(places)
           q == InTurn(places)
<1>1. DOMAIN list = 1 .. Len(list) /\ Len(list) \in Nat
  OBVIOUS
<1>2. IsFiniteSet(1 .. Len(list))
  BY <1>1, FS_Interval
<1>3. IsFiniteSet(places) /\ places \subseteq Nat
  <2>1. places \subseteq 1 .. Len(list)
    BY <1>1
  <2> QED
    BY <1>1, <1>2, <2>1, FS_Subset
<1>4. N \in Nat /\ DOMAIN q = 1 .. N /\ q \in Seq(places)
  BY <1>3, InTurnIs
<1>5. \A i \in places : \E k \in 1 .. N : q[k] = i
  BY <1>3, <1>4, InTurnIs
<1>6. ItemsAt(list, places) = [k \in 1 .. N |-> list[q[k]]]
  BY DEF ItemsAt
<1> HIDE DEF N, q
<1>7. q \in [1 .. N -> places]
  BY <1>4
<1>8. ItemsAt(list, places) \in [1 .. N -> X]
  <2>1. \A i \in places : list[i] \in X
    BY <1>1
  <2> QED
    BY <1>6, <1>7, <2>1
<1>9. ItemsAt(list, places) \in Seq(X) /\ Len(ItemsAt(list, places)) = N
  BY <1>4, <1>8, NumberedSeq
<1> QED
  BY <1>3, <1>4, <1>5, <1>6, <1>7, <1>9 DEF N, q

\* They are these items and no others.
LEMMA ItemsAtMembers ==
  ASSUME NEW X, NEW list \in Seq(X), NEW places, places \subseteq DOMAIN list
  PROVE  ToSet(ItemsAt(list, places)) = {list[i] : i \in places}
<1> DEFINE N == Cardinality(places)
           q == InTurn(places)
           items == ItemsAt(list, places)
<1>1. /\ q \in [1 .. N -> places] /\ DOMAIN items = 1 .. N
      /\ \A k \in 1 .. N : items[k] = list[q[k]]
      /\ \A i \in places : \E k \in 1 .. N : q[k] = i
  BY ItemsAtIs
<1> HIDE DEF N, q, items
<1>2. ASSUME NEW x \in ToSet(items) PROVE \E i \in places : x = list[i]
  <2>1. PICK k \in 1 .. N : x = items[k]
    BY <1>1 DEF ToSet
  <2>2. q[k] \in places /\ x = list[q[k]]
    BY <1>1, <2>1
  <2> QED
    BY <2>2
<1>3. ASSUME NEW i \in places PROVE list[i] \in ToSet(items)
  <2>1. PICK k \in 1 .. N : q[k] = i
    BY <1>1
  <2>2. k \in DOMAIN items /\ items[k] = list[i]
    BY <1>1, <2>1
  <2> QED
    BY <2>2 DEF ToSet
<1> QED
  BY <1>2, <1>3 DEF items

\* In the order of the list.
LEMMA ItemsAtOrder ==
  ASSUME NEW X, NEW list \in Seq(X), NEW places, places \subseteq DOMAIN list
  PROVE  /\ \A k \in DOMAIN ItemsAt(list, places) :
             InTurn(places)[k] \in places /\ ItemsAt(list, places)[k] = list[InTurn(places)[k]]
         /\ \A k, m \in DOMAIN ItemsAt(list, places) :
             k < m => InTurn(places)[k] < InTurn(places)[m]
<1>1. /\ InTurn(places) \in [1 .. Cardinality(places) -> places]
      /\ DOMAIN ItemsAt(list, places) = 1 .. Cardinality(places)
      /\ \A k \in 1 .. Cardinality(places) : ItemsAt(list, places)[k] = list[InTurn(places)[k]]
      /\ IsFiniteSet(places)
  BY ItemsAtIs
<1>2. places \subseteq Nat
  <2>1. DOMAIN list \subseteq Nat
    OBVIOUS
  <2> QED
    BY <2>1
<1>3. DOMAIN InTurn(places) = 1 .. Cardinality(places)
  BY <1>1
<1>4. \A k, m \in DOMAIN InTurn(places) : k < m => InTurn(places)[k] < InTurn(places)[m]
  BY <1>1, <1>2, InTurnAscends
<1>5. \A k \in 1 .. Cardinality(places) : InTurn(places)[k] \in places
  BY <1>1
<1> QED
  BY <1>1, <1>3, <1>4, <1>5

\* Lists one after the other are the last one after those before it.
Grown(f, s, n) == f[0] = <<>> /\ \A i \in 1 .. n : f[i] = f[i - 1] \o s[i]
\* A concatenation is built up one list at a time.
LEMMA FlattenGrows ==
  ASSUME NEW X, NEW s \in Seq(Seq(X))
  PROVE  \E f \in [0 .. Len(s) -> Seq(X)] : Grown(f, s, Len(s)) /\ FlattenSeq(s) = f[Len(s)]
<1> DEFINE n == Len(s)
           G == [p \in (0 .. n) \X [0 .. n -> Seq(X)] |->
                    IF p[1] = 0 THEN <<>> ELSE p[2][p[1] - 1] \o s[p[1]]]
           size == [k \in 0 .. n |-> k]
<1>0. n \in Nat /\ \A i \in 1 .. n : s[i] \in Seq(X)
  OBVIOUS
<1>1. \A k \in 0 .. n : \A f \in [0 .. n -> Seq(X)] :
         G[k, f] = IF k = 0 THEN <<>> ELSE f[k - 1] \o s[k]
  OBVIOUS
<1> HIDE DEF G
<1>2. StaysIn(0 .. n, Seq(X), G)
  <2> SUFFICES ASSUME NEW k \in 0 .. n, NEW f \in [0 .. n -> Seq(X)] PROVE G[k, f] \in Seq(X)
    BY Zenon DEF StaysIn
  <2>1. CASE k = 0
    <3>1. G[k, f] = <<>>
      BY <1>1, <2>1
    <3>2. <<>> \in Seq(X)
      OBVIOUS
    <3> QED
      BY <3>1, <3>2
  <2>2. CASE k # 0
    <3>1. k - 1 \in 0 .. n /\ k \in 1 .. n
      BY <1>0, <2>2
    <3>2. f[k - 1] \in Seq(X) /\ s[k] \in Seq(X)
      BY <1>0, <3>1
    <3>3. f[k - 1] \o s[k] \in Seq(X)
      BY <3>2, ConcatProperties
    <3> QED
      BY <1>1, <2>2, <3>3
  <2> QED
    BY <2>1, <2>2
<1>3. LooksBelow(0 .. n, size, Seq(X), G)
  <2> SUFFICES ASSUME NEW k \in 0 .. n, NEW f \in [0 .. n -> Seq(X)], NEW g \in [0 .. n -> Seq(X)],
                      \A m \in 0 .. n : size[m] < size[k] => f[m] = g[m]
               PROVE  G[k, f] = G[k, g]
    BY Zenon DEF LooksBelow
  <2>1. CASE k = 0
    BY <1>1, <2>1
  <2>2. CASE k # 0
    <3>1. k - 1 \in 0 .. n /\ size[k - 1] < size[k]
      BY <1>0, <2>2
    <3>2. f[k - 1] = g[k - 1]
      BY <3>1
    <3>3. G[k, f] = f[k - 1] \o s[k] /\ G[k, g] = g[k - 1] \o s[k]
      BY <1>1, <2>2
    <3> QED
      BY <3>2, <3>3
  <2> QED
    BY <2>1, <2>2
<1>4. size \in [0 .. n -> Nat] /\ <<>> \in Seq(X)
  BY <1>0
<1> HIDE DEF size
<1>5. PICK f \in [0 .. n -> Seq(X)] : \A k \in 0 .. n : f[k] = G[k, f]
  <2>1. Solvable(0 .. n, Seq(X), G)
    BY <1>2, <1>3, <1>4, Recursion
  <2> QED
    BY <2>1, Zenon DEF Solvable
<1>6. Grown(f, s, n)
  <2>1. f[0] = <<>>
    <3>1. 0 \in 0 .. n
      BY <1>0
    <3>2. f[0] = G[0, f]
      BY <1>5, <3>1
    <3> QED
      BY <1>1, <3>1, <3>2
  <2>2. ASSUME NEW i \in 1 .. n PROVE f[i] = f[i - 1] \o s[i]
    <3>1. i \in 0 .. n /\ i # 0
      BY <1>0
    <3> QED
      BY <1>1, <1>5, <3>1
  <2> QED
    BY <2>1, <2>2 DEF Grown
<1> DEFINE h == CHOOSE h : h = [i \in 1 .. n |-> IF i = 1 THEN s[i] ELSE h[i - 1] \o s[i]]
<1>7. h = [i \in 1 .. n |-> IF i = 1 THEN s[i] ELSE h[i - 1] \o s[i]]
  <2> DEFINE e == [i \in 1 .. n |-> f[i]]
  <2>1. ASSUME NEW i \in 1 .. n PROVE f[i] = IF i = 1 THEN s[i] ELSE e[i - 1] \o s[i]
    <3>1. f[i] = f[i - 1] \o s[i]
      BY <1>6 DEF Grown
    <3>2. CASE i = 1
      <4>1. f[i - 1] = <<>>
        BY <1>6, <3>2 DEF Grown
      <4> QED
        BY <1>0, <3>1, <3>2, <4>1
    <3>3. CASE i # 1
      <4>1. i - 1 \in 1 .. n
        BY <1>0, <3>3
      <4>2. e[i - 1] = f[i - 1]
        BY <4>1
      <4> QED
        BY <3>1, <3>3, <4>2
    <3> QED
      BY <3>2, <3>3
  <2>2. e = [i \in 1 .. n |-> IF i = 1 THEN s[i] ELSE e[i - 1] \o s[i]]
    BY <2>1
  <2> HIDE DEF e
  <2> QED
    BY <2>2
<1>8. n # 0 => FlattenSeq(s) = h[n]
  BY DEF FlattenSeq
<1>9. n = 0 => FlattenSeq(s) = <<>>
  BY DEF FlattenSeq
<1> HIDE DEF h
<1> DEFINE U == {k \in Nat : k \in 1 .. n => h[k] = f[k]}
<1>10. ASSUME NEW k \in Nat, k \in U PROVE k + 1 \in U
  <2> SUFFICES ASSUME k + 1 \in 1 .. n PROVE h[k + 1] = f[k + 1]
    OBVIOUS
  <2> DEFINE m == k + 1
  <2>0. m \in 1 .. n /\ m - 1 = k
    OBVIOUS
  <2> HIDE DEF m
  <2>1. h[m] = IF m = 1 THEN s[m] ELSE h[m - 1] \o s[m]
    BY <1>7, <2>0
  <2>2. f[m] = f[m - 1] \o s[m]
    BY <1>6, <2>0 DEF Grown
  <2>3. CASE k = 0
    <3>1. f[0] = <<>> /\ s[m] \in Seq(X) /\ m = 1
      BY <1>0, <1>6, <2>0, <2>3 DEF Grown
    <3>2. f[m] = <<>> \o s[m]
      BY <2>0, <2>2, <2>3, <3>1
    <3> QED
      BY <2>1, <3>1, <3>2 DEF m
  <2>4. CASE k # 0
    <3>1. k \in 1 .. n /\ m # 1
      BY <1>0, <2>0, <2>4
    <3>2. h[k] = f[k]
      BY <1>10, <3>1
    <3> QED
      BY <2>0, <2>1, <2>2, <3>1, <3>2 DEF m
  <2> QED
    BY <2>3, <2>4
<1>11. n \in U
  <2>1. 0 \in U
    BY <1>0
  <2> HIDE DEF U
  <2> QED
    BY <1>0, <1>10, <2>1, EveryNumber
<1>12. FlattenSeq(s) = f[n]
  BY <1>0, <1>6, <1>8, <1>9, <1>11 DEF Grown
<1> QED
  BY <1>5, <1>6, <1>12

\* The members of two lists in a row.
LEMMA JoinedMembers ==
  ASSUME NEW X, NEW a \in Seq(X), NEW b \in Seq(X)
  PROVE  ToSet(a \o b) = ToSet(a) \union ToSet(b)
<1>1. /\ DOMAIN (a \o b) = 1 .. Len(a) + Len(b) /\ DOMAIN a = 1 .. Len(a) /\ DOMAIN b = 1 .. Len(b)
      /\ Len(a) \in Nat /\ Len(b) \in Nat
      /\ \A i \in 1 .. Len(a) + Len(b) : (a \o b)[i] = IF i <= Len(a) THEN a[i] ELSE b[i - Len(a)]
  OBVIOUS
<1>2. ASSUME NEW x \in ToSet(a \o b) PROVE x \in ToSet(a) \union ToSet(b)
  <2>1. PICK i \in 1 .. Len(a) + Len(b) : x = (a \o b)[i]
    BY <1>1 DEF ToSet
  <2>2. CASE i <= Len(a)
    <3>1. i \in DOMAIN a /\ x = a[i]
      BY <1>1, <2>1, <2>2
    <3> QED
      BY <3>1 DEF ToSet
  <2>3. CASE ~(i <= Len(a))
    <3>1. i - Len(a) \in DOMAIN b /\ x = b[i - Len(a)]
      BY <1>1, <2>1, <2>3
    <3> QED
      BY <3>1 DEF ToSet
  <2> QED
    BY <2>2, <2>3
<1>3. ASSUME NEW x \in ToSet(a) PROVE x \in ToSet(a \o b)
  <2>1. PICK i \in 1 .. Len(a) : x = a[i]
    BY <1>1 DEF ToSet
  <2>2. i \in DOMAIN (a \o b) /\ x = (a \o b)[i]
    BY <1>1, <2>1
  <2> QED
    BY <2>2 DEF ToSet
<1>4. ASSUME NEW x \in ToSet(b) PROVE x \in ToSet(a \o b)
  <2>1. PICK i \in 1 .. Len(b) : x = b[i]
    BY <1>1 DEF ToSet
  <2>2. i + Len(a) \in 1 .. Len(a) + Len(b) /\ ~(i + Len(a) <= Len(a)) /\ (i + Len(a)) - Len(a) = i
    BY <1>1
  <2>3. i + Len(a) \in DOMAIN (a \o b) /\ x = (a \o b)[i + Len(a)]
    BY <1>1, <2>1, <2>2
  <2> QED
    BY <2>3 DEF ToSet
<1> QED
  BY <1>2, <1>3, <1>4

\* The members of many lists in a row.
LEMMA FlattenMembers ==
  ASSUME NEW X, NEW s \in Seq(Seq(X))
  PROVE  ToSet(FlattenSeq(s)) = UNION {ToSet(s[i]) : i \in DOMAIN s}
<1> DEFINE n == Len(s)
           UpTo(k) == UNION {ToSet(s[i]) : i \in 1 .. k}
<1>1. PICK f \in [0 .. n -> Seq(X)] : Grown(f, s, n) /\ FlattenSeq(s) = f[n]
  BY FlattenGrows
<1>2. n \in Nat /\ DOMAIN s = 1 .. n /\ \A i \in 1 .. n : s[i] \in Seq(X)
  OBVIOUS
<1> HIDE DEF n
<1> DEFINE U == {k \in Nat : k <= n => ToSet(f[k]) = UpTo(k)}
<1>3. 0 \in U
  <2>1. f[0] = <<>>
    BY <1>1 DEF Grown
  <2>2. ToSet(<<>>) = {}
    BY DEF ToSet
  <2>3. UpTo(0) = {}
    OBVIOUS
  <2> QED
    BY <2>1, <2>2, <2>3
<1>4. ASSUME NEW k \in Nat, k \in U PROVE k + 1 \in U
  <2> SUFFICES ASSUME k + 1 <= n PROVE ToSet(f[k + 1]) = UpTo(k + 1)
    OBVIOUS
  <2> DEFINE m == k + 1
  <2>1. m \in 1 .. n /\ m - 1 = k /\ k \in 0 .. n
    BY <1>2
  <2>2. f[m] = f[k] \o s[m] /\ f[k] \in Seq(X) /\ s[m] \in Seq(X)
    <3> HIDE DEF m
    <3> QED
      BY <1>1, <1>2, <2>1 DEF Grown
  <2>3. ToSet(f[m]) = ToSet(f[k]) \union ToSet(s[m])
    BY <2>2, JoinedMembers
  <2>4. ToSet(f[k]) = UpTo(k)
    BY <1>2, <1>4, <2>1
  <2>5. UpTo(m) = UpTo(k) \union ToSet(s[m])
    <3>1. 1 .. m = 1 .. k \union {m}
      BY <2>1
    <3> HIDE DEF m
    <3> QED
      BY <3>1
  <2> QED
    BY <2>3, <2>4, <2>5
<1>5. n \in U
  <2> HIDE DEF U
  <2> QED
    BY <1>2, <1>3, <1>4, EveryNumber
<1> QED
  BY <1>1, <1>2, <1>5

\* A list of one list, or of none.
LEMMA FlattenFew ==
  /\ FlattenSeq(<<>>) = <<>>
  /\ \A X : \A a \in Seq(X) : FlattenSeq(<<a>>) = a
<1>1. ASSUME NEW X, NEW a \in Seq(X) PROVE FlattenSeq(<<a>>) = a
  <2> DEFINE s == <<a>>
  <2>1. s \in Seq(Seq(X)) /\ Len(s) = 1 /\ s[1] = a
    OBVIOUS
  <2> HIDE DEF s
  <2>2. PICK f \in [0 .. Len(s) -> Seq(X)] : Grown(f, s, Len(s)) /\ FlattenSeq(s) = f[Len(s)]
    BY <2>1, FlattenGrows
  <2>3. f[0] = <<>> /\ f[1] = f[1 - 1] \o s[1]
    BY <2>1, <2>2 DEF Grown
  <2>4. 1 - 1 = 0
    OBVIOUS
  <2>5. f[1] = <<>> \o a
    BY <2>1, <2>3, <2>4
  <2>6. f[1] = a
    BY <2>5
  <2> QED
    BY <2>1, <2>2, <2>6 DEF s
<1>2. FlattenSeq(<<>>) = <<>>
  BY DEF FlattenSeq
<1> QED
  BY <1>1, <1>2

\* One list more at the end.
LEMMA FlattenMore ==
  ASSUME NEW X, NEW s \in Seq(Seq(X)), NEW a \in Seq(X)
  PROVE  FlattenSeq(Append(s, a)) = FlattenSeq(s) \o a
<1> DEFINE n == Len(s)
           t == Append(s, a)
<1>1. n \in Nat /\ t \in Seq(Seq(X)) /\ Len(t) = n + 1 /\ t[n + 1] = a /\ \A i \in 1 .. n : t[i] = s[i]
  OBVIOUS
<1>2. PICK f \in [0 .. n -> Seq(X)] : Grown(f, s, n) /\ FlattenSeq(s) = f[n]
  BY FlattenGrows
<1> HIDE DEF n, t
<1>3. PICK g \in [0 .. Len(t) -> Seq(X)] : Grown(g, t, Len(t)) /\ FlattenSeq(t) = g[Len(t)]
  BY <1>1, FlattenGrows
<1> DEFINE U == {k \in Nat : k <= n => g[k] = f[k]}
<1>4. 0 \in U
  BY <1>2, <1>3 DEF Grown
<1>5. ASSUME NEW k \in Nat, k \in U PROVE k + 1 \in U
  <2> SUFFICES ASSUME k + 1 <= n PROVE g[k + 1] = f[k + 1]
    OBVIOUS
  <2> DEFINE m == k + 1
  <2>1. m \in 1 .. n /\ m \in 1 .. Len(t) /\ m - 1 = k /\ k <= n
    BY <1>1
  <2> HIDE DEF m
  <2>2. f[m] = f[m - 1] \o s[m] /\ g[m] = g[m - 1] \o t[m]
    BY <1>2, <1>3, <2>1 DEF Grown
  <2>3. g[k] = f[k]
    BY <1>5, <2>1
  <2>4. t[m] = s[m]
    BY <1>1, <2>1
  <2> QED
    BY <2>1, <2>2, <2>3, <2>4 DEF m
<1>6. n \in U
  <2> HIDE DEF U
  <2> QED
    BY <1>1, <1>4, <1>5, EveryNumber
<1>7. g[n + 1] = g[n] \o a
  <2> DEFINE m == n + 1
  <2>1. m \in 1 .. Len(t) /\ m - 1 = n /\ t[m] = a
    BY <1>1
  <2> HIDE DEF m
  <2>2. g[m] = g[m - 1] \o t[m]
    BY <1>3, <2>1 DEF Grown
  <2> QED
    BY <2>1, <2>2 DEF m
<1>8. g[n] = f[n]
  <2>1. n <= n
    BY <1>1
  <2> QED
    BY <1>6, <2>1
<1> QED
  BY <1>1, <1>2, <1>3, <1>7, <1>8 DEF t

\* Each once.
LEMMA DistinctIs ==
  ASSUME NEW X, NEW nodes \in Seq(X)
  PROVE  /\ Distinct(nodes) \in Seq(X) /\ ToSet(Distinct(nodes)) = ToSet(nodes)
         /\ IsInjective(Distinct(nodes))
<1> DEFINE first == {i \in DOMAIN nodes : \A j \in 1 .. i - 1 : nodes[j] # nodes[i]}
           q == InTurn(first)
           d == ItemsAt(nodes, first)
<1>1. first \subseteq DOMAIN nodes /\ DOMAIN nodes \subseteq Nat
  OBVIOUS
<1>2. Distinct(nodes) = d
  BY DEF Distinct
<1>3. ASSUME NEW i \in first, NEW j \in first, nodes[i] = nodes[j] PROVE i = j
  <2>1. i \in Nat /\ j \in Nat /\ i >= 1 /\ j >= 1
    OBVIOUS
  <2>2. ~(i < j)
    <3> SUFFICES ASSUME i < j PROVE FALSE
      OBVIOUS
    <3>1. i \in 1 .. j - 1
      BY <2>1
    <3> QED
      BY <1>3, <3>1
  <2>3. ~(j < i)
    <3> SUFFICES ASSUME j < i PROVE FALSE
      OBVIOUS
    <3>1. j \in 1 .. i - 1
      BY <2>1
    <3> QED
      BY <1>3, <3>1
  <2> QED
    BY <2>1, <2>2, <2>3
<1>4. ASSUME NEW x \in ToSet(nodes) PROVE \E i \in first : x = nodes[i]
  <2> DEFINE at == {i \in DOMAIN nodes : nodes[i] = x}
  <2>1. at # {} /\ at \subseteq Nat
    BY DEF ToSet
  <2>2. PICK i \in at : \A j \in at : i <= j
    <3> HIDE DEF at
    <3> QED
      BY <2>1, LeastNumber
  <2>3. ASSUME NEW j \in 1 .. i - 1 PROVE nodes[j] # nodes[i]
    <3>1. i \in Nat /\ i <= Len(nodes)
      OBVIOUS
    <3>2. j \in DOMAIN nodes /\ j < i
      BY <3>1
    <3>3. j \notin at
      BY <2>2, <3>1, <3>2
    <3> QED
      BY <3>2, <3>3
  <2> QED
    BY <2>3
<1> HIDE DEF first
<1>5. d \in Seq(X) /\ ToSet(d) = {nodes[i] : i \in first}
  BY <1>1, ItemsAtIs, ItemsAtMembers
<1>6. ToSet(d) = ToSet(nodes)
  <2>1. \A i \in first : nodes[i] \in ToSet(nodes)
    BY <1>1 DEF ToSet
  <2> QED
    BY <1>4, <1>5, <2>1
<1>7. \A k \in DOMAIN d : q[k] \in first /\ d[k] = nodes[q[k]] /\ q[k] \in Nat
  <2>1. \A k \in DOMAIN d : q[k] \in first /\ d[k] = nodes[q[k]]
    BY <1>1, ItemsAtOrder
  <2> QED
    BY <1>1, <2>1
<1>8. \A k, m \in DOMAIN d : k < m => q[k] < q[m]
  BY <1>1, ItemsAtOrder
<1>9. ASSUME NEW k \in DOMAIN d, NEW m \in DOMAIN d, d[k] = d[m] PROVE k = m
  <2>1. q[k] = q[m]
    BY <1>3, <1>7, <1>9
  <2>2. k \in Nat /\ m \in Nat
    BY <1>5
  <2>3. (k < m => q[k] < q[m]) /\ (m < k => q[m] < q[k]) /\ q[k] \in Nat
    BY <1>7, <1>8
  <2> HIDE DEF d, q
  <2> QED
    BY <2>1, <2>2, <2>3
<1>10. IsInjective(d)
  BY <1>9 DEF IsInjective
<1> QED
  BY <1>2, <1>5, <1>6, <1>10

-----------------------------------------------------------------------------
(* Pages. *)

\* Numbers in turn are the numbers, each once.
LEMMA InTurnMembers ==
  ASSUME NEW S, S \subseteq Nat, IsFiniteSet(S)
  PROVE  ToSet(InTurn(S)) = S /\ InTurn(S) \in Seq(S)
<1> DEFINE q == InTurn(S)
<1>1. q \in Seq(S) /\ \A i \in S : \E k \in DOMAIN q : q[k] = i
  BY InTurnIs
<1> HIDE DEF q
<1>2. \A k \in DOMAIN q : q[k] \in S
  BY <1>1
<1>3. ToSet(q) = S
  BY <1>1, <1>2 DEF ToSet
<1> QED
  BY <1>1, <1>3 DEF q

\* A list over a set is one over any larger set.
LEMMA WiderSeq == ASSUME NEW X, NEW Y, X \subseteq Y, NEW s \in Seq(X) PROVE s \in Seq(Y)
<1>1. \A i \in 1 .. Len(s) : s[i] \in Y
  OBVIOUS
<1> QED
  BY <1>1, SeqDef

\* The elements of a page.
LEMMA PageIs ==
  ASSUME NEW tree, IsPage(tree)
  PROVE  /\ Len(tree.parent) \in Nat \ {0} /\ Elements(tree) = 1 .. Len(tree.parent)
         /\ Elements(tree) \subseteq Nat /\ IsFiniteSet(Elements(tree))
         /\ 1 \in Elements(tree) /\ tree.parent[1] = 0
         /\ \A n \in Elements(tree) : tree.parent[n] \in 0 .. Len(tree.parent) /\ tree.parent[n] < n
         /\ \A n \in Elements(tree) : n # 1 => tree.parent[n] \in Elements(tree)
<1> DEFINE p == tree.parent
<1>1. p \in Seq(Nat) /\ p # <<>> /\ p[1] = 0 /\ \A n \in Elements(tree) \ {1} : p[n] \in 1 .. n - 1
  BY DEF IsPage
<1>2. Elements(tree) = DOMAIN p
  BY DEF Elements
<1> HIDE DEF p
<1>3. Len(p) \in Nat \ {0} /\ DOMAIN p = 1 .. Len(p)
  BY <1>1, EmptySeq
<1>4. IsFiniteSet(1 .. Len(p))
  BY <1>3, FS_Interval
<1>5. ASSUME NEW n \in Elements(tree)
      PROVE  p[n] \in 0 .. Len(p) /\ p[n] < n /\ (n # 1 => p[n] \in Elements(tree))
  <2>1. n \in 1 .. Len(p) /\ n \in Nat
    BY <1>2, <1>3
  <2>2. CASE n = 1
    BY <1>1, <1>3, <2>2
  <2>3. CASE n # 1
    <3>1. p[n] \in 1 .. n - 1
      BY <1>1, <2>3
    <3> QED
      BY <1>2, <1>3, <2>1, <3>1
  <2> QED
    BY <2>2, <2>3
<1> QED
  BY <1>1, <1>2, <1>3, <1>4, <1>5 DEF p

\* Those above an element.
LEMMA AncestorsAre ==
  ASSUME NEW tree, IsPage(tree)
  PROVE  \A n \in Elements(tree) :
           Ancestors(tree, n) = IF tree.parent[n] = 0 THEN {}
                                ELSE {tree.parent[n]} \union Ancestors(tree, tree.parent[n])
<1> DEFINE p == tree.parent
           N == Len(p)
           E == Elements(tree)
           V == SUBSET E
           G == [af \in (0 .. N) \X [0 .. N -> V] |->
                    IF af[1] = 0 THEN {} ELSE {af[1]} \union af[2][p[af[1]]]]
           size == [m \in 0 .. N |-> m]
<1>1. /\ N \in Nat \ {0} /\ E = 1 .. N
      /\ \A n \in E : p[n] \in 0 .. N /\ p[n] < n
  BY PageIs
<1>2. \A m \in 0 .. N : \A f \in [0 .. N -> V] : G[m, f] = IF m = 0 THEN {} ELSE {m} \union f[p[m]]
  OBVIOUS
<1> HIDE DEF p, N, G, E
<1>3. StaysIn(0 .. N, V, G)
  <2> SUFFICES ASSUME NEW m \in 0 .. N, NEW f \in [0 .. N -> V] PROVE G[m, f] \in V
    BY Zenon DEF StaysIn
  <2>1. CASE m = 0
    BY <1>2, <2>1
  <2>2. CASE m # 0
    <3>1. m \in E /\ p[m] \in 0 .. N
      BY <1>1, <2>2
    <3>2. f[p[m]] \subseteq E
      BY <3>1
    <3> QED
      BY <1>2, <2>2, <3>1, <3>2
  <2> QED
    BY <2>1, <2>2
<1>4. LooksBelow(0 .. N, size, V, G)
  <2> SUFFICES ASSUME NEW m \in 0 .. N, NEW f \in [0 .. N -> V], NEW g \in [0 .. N -> V],
                      \A k \in 0 .. N : size[k] < size[m] => f[k] = g[k]
               PROVE  G[m, f] = G[m, g]
    BY Zenon DEF LooksBelow
  <2>1. CASE m = 0
    BY <1>2, <2>1
  <2>2. CASE m # 0
    <3>1. m \in E /\ p[m] \in 0 .. N /\ size[p[m]] < size[m]
      BY <1>1, <2>2
    <3>2. f[p[m]] = g[p[m]]
      BY <3>1
    <3>3. G[m, f] = {m} \union f[p[m]] /\ G[m, g] = {m} \union g[p[m]]
      <4> HIDE DEF V
      <4> QED
        BY <1>2, <2>2
    <3> QED
      BY <3>2, <3>3
  <2> QED
    BY <2>1, <2>2
<1>5. size \in [0 .. N -> Nat] /\ {} \in V
  BY <1>1
<1> HIDE DEF size
<1>6. PICK f \in [0 .. N -> V] : \A m \in 0 .. N : f[m] = G[m, f]
  <2>1. Solvable(0 .. N, V, G)
    <3> HIDE DEF V
    <3> QED
      BY <1>3, <1>4, <1>5, Recursion
  <2> QED
    BY <2>1, Zenon DEF Solvable
<1> DEFINE up == CHOOSE h : h = [m \in 0 .. N |-> IF m = 0 THEN {} ELSE {m} \union h[p[m]]]
<1>7. up = [m \in 0 .. N |-> IF m = 0 THEN {} ELSE {m} \union up[p[m]]]
  <2>1. ASSUME NEW m \in 0 .. N PROVE f[m] = IF m = 0 THEN {} ELSE {m} \union f[p[m]]
    BY <1>2, <1>6
  <2>2. f = [m \in 0 .. N |-> f[m]]
    OBVIOUS
  <2>3. f = [m \in 0 .. N |-> IF m = 0 THEN {} ELSE {m} \union f[p[m]]]
    BY <2>1, <2>2
  <2> QED
    BY <2>3
<1>8. \A n : Ancestors(tree, n) = up[p[n]]
  BY DEF Ancestors, p, N
<1> HIDE DEF up
<1>9. ASSUME NEW n \in E PROVE Ancestors(tree, n) = IF p[n] = 0 THEN {} ELSE {p[n]} \union Ancestors(tree, p[n])
  <2>1. p[n] \in 0 .. N
    BY <1>1
  <2>2. up[p[n]] = IF p[n] = 0 THEN {} ELSE {p[n]} \union up[p[p[n]]]
    BY <1>7, <2>1
  <2> QED
    BY <1>8, <2>2
<1> QED
  BY <1>9 DEF p, E

\* They come before it.
LEMMA AncestorsBefore ==
  ASSUME NEW tree, IsPage(tree)
  PROVE  \A n \in Elements(tree) : Ancestors(tree, n) \subseteq Elements(tree) /\ \A m \in Ancestors(tree, n) : m < n
<1> DEFINE E == Elements(tree)
           U == {k \in Nat : \A n \in E : n <= k => /\ Ancestors(tree, n) \subseteq E
                                                    /\ \A m \in Ancestors(tree, n) : m < n}
<1>1. E \subseteq Nat /\ \A n \in E : n > 0 /\ tree.parent[n] < n /\ (tree.parent[n] = 0 \/ tree.parent[n] \in E)
  <2>1. tree.parent[1] = 0 /\ \A n \in E : n # 1 => tree.parent[n] \in E
    BY PageIs
  <2> QED
    BY <2>1, PageIs
<1>2. 0 \in U
  BY <1>1
<1>3. ASSUME NEW k \in Nat, k \in U PROVE k + 1 \in U
  <2> SUFFICES ASSUME NEW n \in E, n <= k + 1
               PROVE  Ancestors(tree, n) \subseteq E /\ \A m \in Ancestors(tree, n) : m < n
    OBVIOUS
  <2> DEFINE p == tree.parent[n]
  <2>1. Ancestors(tree, n) = IF p = 0 THEN {} ELSE {p} \union Ancestors(tree, p)
    BY AncestorsAre
  <2>2. n \in Nat /\ (p = 0 \/ p \in E) /\ p < n
    BY <1>1
  <2>3. CASE p = 0
    BY <2>1, <2>3
  <2>4. CASE p # 0
    <3>1. p \in E /\ p \in Nat /\ p <= k
      <4>1. p \in E
        BY <2>2, <2>4
      <4>2. p \in Nat
        BY <1>1, <4>1
      <4> HIDE DEF p
      <4> QED
        BY <2>2, <4>1, <4>2
    <3>2. Ancestors(tree, p) \subseteq E /\ \A m \in Ancestors(tree, p) : m < p
      BY <1>3, <3>1
    <3>3. \A m \in Ancestors(tree, p) : m < n
      <4> TAKE m \in Ancestors(tree, p)
      <4>1. m \in Nat /\ m < p
        BY <1>1, <3>2
      <4> HIDE DEF p
      <4> QED
        BY <2>2, <3>1, <4>1
    <3> HIDE DEF p
    <3> QED
      BY <2>1, <2>2, <2>4, <3>1, <3>2, <3>3
  <2> QED
    BY <2>3, <2>4
<1>4. Nat \subseteq U
  <2> HIDE DEF U
  <2> QED
    BY <1>2, <1>3, EveryNumber
<1>5. \A n \in E : n \in U /\ n <= n
  BY <1>1, <1>4
<1> QED
  BY <1>5

\* Of two above an element, one is above the other; and who is above one of them is above it.
LEMMA AncestorsInLine ==
  ASSUME NEW tree, IsPage(tree)
  PROVE  \A n \in Elements(tree) : \A m \in Ancestors(tree, n) :
           /\ Ancestors(tree, m) \subseteq Ancestors(tree, n)
           /\ \A k \in Ancestors(tree, n) : k < m => k \in Ancestors(tree, m)
<1> DEFINE E == Elements(tree)
           A(n) == Ancestors(tree, n)
           Good(n) == \A m \in A(n) : A(m) \subseteq A(n) /\ \A k \in A(n) : k < m => k \in A(m)
           U == {k \in Nat : \A n \in E : n <= k => Good(n)}
<1>1. E \subseteq Nat /\ \A n \in E : n > 0 /\ tree.parent[n] < n /\ (tree.parent[n] = 0 \/ tree.parent[n] \in E)
  <2>1. tree.parent[1] = 0 /\ \A n \in E : n # 1 => tree.parent[n] \in E
    BY PageIs
  <2> QED
    BY <2>1, PageIs
<1>2. \A n \in E : A(n) \subseteq E /\ \A m \in A(n) : m < n
  BY AncestorsBefore
<1>3. ASSUME NEW k \in Nat, k \in U PROVE k + 1 \in U
  <2> SUFFICES ASSUME NEW n \in E, n <= k + 1 PROVE Good(n)
    OBVIOUS
  <2> DEFINE p == tree.parent[n]
  <2>1. A(n) = IF p = 0 THEN {} ELSE {p} \union A(p)
    BY AncestorsAre
  <2>2. n \in Nat /\ (p = 0 \/ p \in E) /\ p < n
    BY <1>1
  <2>3. CASE p = 0
    BY <2>1, <2>3
  <2>4. CASE p # 0
    <3>1. p \in E /\ p \in Nat /\ p <= k
      <4>1. p \in E
        BY <2>2, <2>4
      <4>2. p \in Nat
        BY <1>1, <4>1
      <4> HIDE DEF p
      <4> QED
        BY <2>2, <4>1, <4>2
    <3>2. Good(p)
      <4> HIDE DEF Good
      <4> QED
        BY <1>3, <3>1
    <3> HIDE DEF p
    <3>3. A(n) = {p} \union A(p)
      BY <2>1, <2>4
    <3>4. A(p) \subseteq E /\ \A m \in A(p) : m < p
      BY <1>2, <3>1
    <3> SUFFICES ASSUME NEW m \in A(n) PROVE A(m) \subseteq A(n) /\ \A i \in A(n) : i < m => i \in A(m)
      OBVIOUS
    <3>5. CASE m = p
      <4> HIDE DEF A
      <4>1. A(m) \subseteq A(n)
        BY <3>3, <3>5
      <4>2. ASSUME NEW i \in A(n), i < m PROVE i \in A(m)
        <5>1. i # p
          BY <3>1, <3>5, <4>2
        <5> QED
          BY <3>3, <3>5, <5>1
      <4> QED
        BY <4>1, <4>2
    <3>6. CASE m # p
      <4> HIDE DEF A
      <4>1. m \in A(p)
        BY <3>3, <3>6
      <4>2. A(m) \subseteq A(p) /\ \A i \in A(p) : i < m => i \in A(m)
        BY <3>2, <4>1 DEF A
      <4>3. ASSUME NEW i \in A(n), i < m PROVE i \in A(m)
        <5>1. m < p /\ m \in Nat /\ p \in Nat
          BY <1>1, <3>1, <3>4, <4>1
        <5>2. i # p
          BY <4>3, <5>1
        <5>3. i \in A(p)
          BY <3>3, <5>2
        <5> QED
          BY <4>2, <4>3, <5>3
      <4> QED
        BY <3>3, <4>2, <4>3
    <3> QED
      BY <3>5, <3>6
  <2> QED
    BY <2>3, <2>4
<1>4. 0 \in U
  BY <1>1
<1>5. Nat \subseteq U
  <2> HIDE DEF U
  <2> QED
    BY <1>3, <1>4, EveryNumber
<1>6. \A n \in E : Good(n)
  <2> TAKE n \in E
  <2>1. n \in U /\ n <= n
    BY <1>1, <1>5
  <2> HIDE DEF Good
  <2> QED
    BY <2>1
<1> QED
  BY <1>6

\* Those within an element, below it and beside it.
LEMMA ChildrenAre ==
  ASSUME NEW tree, IsPage(tree), NEW n
  PROVE  /\ ElementChildren(tree, n) \in Seq(Elements(tree))
         /\ ToSet(ElementChildren(tree, n)) = {m \in Elements(tree) : tree.parent[m] = n}
<1> DEFINE S == {m \in Elements(tree) : tree.parent[m] = n}
<1>1. Elements(tree) \subseteq Nat /\ IsFiniteSet(Elements(tree))
  BY PageIs
<1>2. S \subseteq Elements(tree)
  OBVIOUS
<1>3. ElementChildren(tree, n) = InTurn(S)
  BY DEF ElementChildren
<1> HIDE DEF S
<1>4. S \subseteq Nat /\ IsFiniteSet(S)
  BY <1>1, <1>2, FS_Subset
<1>5. ToSet(InTurn(S)) = S /\ InTurn(S) \in Seq(S)
  BY <1>4, InTurnMembers
<1>6. InTurn(S) \in Seq(Elements(tree))
  BY <1>2, <1>5, WiderSeq
<1> QED
  BY <1>3, <1>5, <1>6 DEF S

\* Element.getAllElements without the element itself: all that have it among their ancestors.
LEMMA DescendantsAre ==
  ASSUME NEW tree, IsPage(tree), NEW n
  PROVE  /\ Descendants(tree, n) \in Seq(Elements(tree))
         /\ ToSet(Descendants(tree, n)) = {m \in Elements(tree) : n \in Ancestors(tree, m)}
<1> DEFINE S == {m \in Elements(tree) : n \in Ancestors(tree, m)}
<1>1. Elements(tree) \subseteq Nat /\ IsFiniteSet(Elements(tree))
  BY PageIs
<1>2. S \subseteq Elements(tree)
  OBVIOUS
<1>3. Descendants(tree, n) = InTurn(S)
  BY DEF Descendants
<1> HIDE DEF S
<1>4. S \subseteq Nat /\ IsFiniteSet(S)
  BY <1>1, <1>2, FS_Subset
<1>5. ToSet(InTurn(S)) = S /\ InTurn(S) \in Seq(S)
  BY <1>4, InTurnMembers
<1>6. InTurn(S) \in Seq(Elements(tree))
  BY <1>2, <1>5, WiderSeq
<1> QED
  BY <1>3, <1>5, <1>6 DEF S

\* A list of one.
LEMMA OneOnly == ASSUME NEW X, NEW x \in X PROVE <<x>> \in Seq(X) /\ ToSet(<<x>>) = {x}
<1>1. DOMAIN <<x>> = {1} /\ <<x>>[1] = x
  OBVIOUS
<1>2. ToSet(<<x>>) = {x}
  BY <1>1 DEF ToSet
<1> QED
  BY <1>2

\* Siblings share the parent.
LEMMA SiblingsAre ==
  ASSUME NEW tree, IsPage(tree), NEW n \in Elements(tree)
  PROVE  /\ Siblings(tree, n) \in Seq(Elements(tree))
         /\ ToSet(Siblings(tree, n)) = {m \in Elements(tree) : tree.parent[m] = tree.parent[n]}
<1> DEFINE E == Elements(tree)
<1>1. /\ 1 \in E /\ tree.parent[1] = 0 /\ E \subseteq Nat
      /\ \A m \in E : m # 1 => tree.parent[m] \in E
      /\ 0 \notin E
  <2>1. E = 1 .. Len(tree.parent)
    BY PageIs
  <2> QED
    BY <2>1, PageIs
<1> HIDE DEF E
<1>2. CASE tree.parent[n] = 0
  <2>1. Siblings(tree, n) = <<n>>
    BY <1>2 DEF Siblings
  <2>2. n = 1
    BY <1>1, <1>2 DEF E
  <2>3. {m \in E : tree.parent[m] = tree.parent[n]} = {1}
    BY <1>1, <1>2
  <2> QED
    BY <1>1, <2>1, <2>2, <2>3, OneOnly DEF E
<1>3. CASE tree.parent[n] # 0
  <2>1. Siblings(tree, n) = ElementChildren(tree, tree.parent[n])
    BY <1>3 DEF Siblings
  <2> QED
    BY <2>1, ChildrenAre
<1> QED
  BY <1>2, <1>3

\* Those that have a label.
LEMMA LabelledAre ==
  ASSUME NEW tree, NEW X, NEW nodes \in Seq(X), NEW label
  PROVE  /\ LabelledOf(tree, nodes, label) \in Seq(X)
         /\ \A m : m \in ToSet(LabelledOf(tree, nodes, label)) <=>
                 m \in ToSet(nodes) /\ Labelled(tree, m, label)
<1> DEFINE P == {i \in DOMAIN nodes : Labelled(tree, nodes[i], label)}
<1>1. LabelledOf(tree, nodes, label) = ItemsAt(nodes, P) /\ P \subseteq DOMAIN nodes
  BY DEF LabelledOf
<1>2. \A m : m \in {nodes[i] : i \in P} <=> m \in ToSet(nodes) /\ Labelled(tree, m, label)
  BY DEF ToSet
<1> HIDE DEF P
<1>3. ItemsAt(nodes, P) \in Seq(X) /\ ToSet(ItemsAt(nodes, P)) = {nodes[i] : i \in P}
  BY <1>1, ItemsAtIs, ItemsAtMembers
<1> QED
  BY <1>1, <1>2, <1>3

\* The first item of a list stays the first.
LEMMA FirstStays ==
  ASSUME NEW tree, NEW X, NEW nodes \in Seq(X), NEW label, nodes # <<>>, Labelled(tree, nodes[1], label)
  PROVE  LabelledOf(tree, nodes, label) # <<>> /\ LabelledOf(tree, nodes, label)[1] = nodes[1]
<1> DEFINE P == {i \in DOMAIN nodes : Labelled(tree, nodes[i], label)}
           items == ItemsAt(nodes, P)
           q == InTurn(P)
<1>1. LabelledOf(tree, nodes, label) = items /\ P \subseteq DOMAIN nodes /\ DOMAIN nodes \subseteq Nat \ {0}
  BY DEF LabelledOf
<1>2. 1 \in P
  BY EmptySeq
<1> HIDE DEF P
<1>3. /\ Cardinality(P) \in Nat /\ DOMAIN items = 1 .. Cardinality(P) /\ Len(items) = Cardinality(P)
      /\ \A i \in P : \E k \in 1 .. Cardinality(P) : q[k] = i
  BY <1>1, ItemsAtIs
<1>4. /\ \A k \in DOMAIN items : q[k] \in P /\ items[k] = nodes[q[k]]
      /\ \A k, m \in DOMAIN items : k < m => q[k] < q[m]
  BY <1>1, ItemsAtOrder
<1>5. PICK k \in 1 .. Cardinality(P) : q[k] = 1
  BY <1>2, <1>3
<1> HIDE DEF items, q
<1>6. 1 \in DOMAIN items /\ k \in DOMAIN items
  BY <1>3, <1>5
<1>7. q[1] \in Nat \ {0}
  BY <1>1, <1>4, <1>6
<1>8. k = 1
  <2>1. 1 < k => q[1] < q[k]
    BY <1>4, <1>6
  <2>2. k \in Nat /\ 1 <= k
    BY <1>3
  <2> QED
    BY <1>5, <1>7, <2>1, <2>2
<1>9. items[1] = nodes[1]
  BY <1>4, <1>5, <1>6, <1>8
<1>10. items # <<>>
  BY <1>6
<1> QED
  BY <1>1, <1>9, <1>10

\* getElementsByTag and its like look below the element, and at itself first.
LEMMA FindByIs ==
  ASSUME NEW tree, IsPage(tree), NEW n \in Elements(tree), NEW label
  PROVE  /\ FindBy(tree, n, label) \in Seq(Elements(tree))
         /\ ToSet(FindBy(tree, n, label)) =
              {m \in Elements(tree) : (m = n \/ n \in Ancestors(tree, m)) /\ Labelled(tree, m, label)}
         /\ Labelled(tree, n, label) =>
              FindBy(tree, n, label) # <<>> /\ FindBy(tree, n, label)[1] = n
<1> DEFINE E == Elements(tree)
           all == <<n>> \o Descendants(tree, n)
<1>1. /\ Descendants(tree, n) \in Seq(E) /\ <<n>> \in Seq(E)
      /\ ToSet(Descendants(tree, n)) = {m \in E : n \in Ancestors(tree, m)} /\ ToSet(<<n>>) = {n}
  BY DescendantsAre, OneOnly
<1>2. all \in Seq(E)
  BY <1>1, ConcatProperties
<1> DEFINE below == Descendants(tree, n)
           one == <<n>>
<1>3. ToSet(all) = {n} \union {m \in E : n \in Ancestors(tree, m)}
  <2>1. below \in Seq(E) /\ one \in Seq(E)
    BY <1>1
  <2>2. all = one \o below
    OBVIOUS
  <2> HIDE DEF E, below, one
  <2>3. ToSet(one \o below) = ToSet(one) \union ToSet(below)
    BY <2>1, JoinedMembers
  <2> QED
    BY <1>1, <2>2, <2>3 DEF one, below
<1>4. all # <<>> /\ all[1] = n
  BY <1>1
<1>5. FindBy(tree, n, label) = LabelledOf(tree, all, label)
  BY DEF FindBy
<1> HIDE DEF all, E
<1>6. /\ LabelledOf(tree, all, label) \in Seq(E)
      /\ ToSet(LabelledOf(tree, all, label)) = {m \in ToSet(all) : Labelled(tree, m, label)}
  <2>1. LabelledOf(tree, all, label) \in Seq(E)
    BY <1>2, LabelledAre
  <2>2. ToSet(LabelledOf(tree, all, label)) = {m \in ToSet(all) : Labelled(tree, m, label)}
    BY <1>2, LabelledAre
  <2> QED
    BY <2>1, <2>2
<1>7. Labelled(tree, n, label) => LabelledOf(tree, all, label) # <<>> /\ LabelledOf(tree, all, label)[1] = n
  BY <1>2, <1>4, FirstStays
<1>8. {m \in ToSet(all) : Labelled(tree, m, label)} =
        {m \in E : (m = n \/ n \in Ancestors(tree, m)) /\ Labelled(tree, m, label)}
  <2>1. n \in E
    BY DEF E
  <2> QED
    BY <1>3, <2>1
<1> QED
  BY <1>5, <1>6, <1>7, <1>8 DEF E

\* getElementById gives one element at most, the element itself if it has the id.
LEMMA FindByIdIs ==
  ASSUME NEW tree, IsPage(tree), NEW n \in Elements(tree), NEW label
  PROVE  /\ FindById(tree, n, label) \in Seq(Elements(tree))
         /\ FindById(tree, n, label) = <<>> \/ \E m \in Elements(tree) :
               Labelled(tree, m, label) /\ FindById(tree, n, label) = <<m>>
         /\ Labelled(tree, n, label) => FindById(tree, n, label) = <<n>>
<1> DEFINE E == Elements(tree)
           all == FindBy(tree, n, label)
<1>1. /\ all \in Seq(E) /\ ToSet(all) \subseteq {m \in E : Labelled(tree, m, label)}
      /\ Labelled(tree, n, label) => all # <<>> /\ all[1] = n
  BY FindByIs
<1>2. FindById(tree, n, label) = IF all = <<>> THEN <<>> ELSE <<all[1]>>
  BY DEF FindById
<1> HIDE DEF all, E
<1>3. all # <<>> => all[1] \in E /\ Labelled(tree, all[1], label)
  <2> SUFFICES ASSUME all # <<>> PROVE all[1] \in E /\ Labelled(tree, all[1], label)
    OBVIOUS
  <2>1. 1 \in DOMAIN all
    BY <1>1, EmptySeq
  <2>2. all[1] \in ToSet(all)
    BY <2>1 DEF ToSet
  <2> QED
    BY <1>1, <2>2
<1>4. all # <<>> => <<all[1]>> \in Seq(E)
  BY <1>3, OneOnly
<1> QED
  BY <1>1, <1>2, <1>3, <1>4 DEF E

\* What is kept of different items are different items.
LEMMA ItemsInjective ==
  ASSUME NEW X, NEW list \in Seq(X), NEW places, places \subseteq DOMAIN list, IsInjective(list)
  PROVE  IsInjective(ItemsAt(list, places))
<1> DEFINE items == ItemsAt(list, places)
           q == InTurn(places)
<1>1. /\ \A k \in DOMAIN items : q[k] \in places /\ items[k] = list[q[k]]
      /\ \A k, m \in DOMAIN items : k < m => q[k] < q[m]
      /\ DOMAIN items \subseteq Nat /\ places \subseteq Nat
  <2>1. /\ \A k \in DOMAIN items : q[k] \in places /\ items[k] = list[q[k]]
        /\ \A k, m \in DOMAIN items : k < m => q[k] < q[m]
    BY ItemsAtOrder
  <2>2. DOMAIN items = 1 .. Cardinality(places) /\ Cardinality(places) \in Nat
    BY ItemsAtIs
  <2>3. DOMAIN list \subseteq Nat
    OBVIOUS
  <2> HIDE DEF items
  <2> QED
    BY <2>1, <2>2, <2>3
<1>2. \A i, j \in DOMAIN list : list[i] = list[j] => i = j
  BY DEF IsInjective
<1> HIDE DEF items, q
<1>3. ASSUME NEW k \in DOMAIN items, NEW m \in DOMAIN items, items[k] = items[m] PROVE k = m
  <2>1. q[k] = q[m] /\ q[k] \in Nat /\ q[m] \in Nat /\ k \in Nat /\ m \in Nat
    BY <1>1, <1>2, <1>3
  <2>2. ~(k < m) /\ ~(m < k)
    BY <1>1, <2>1
  <2> QED
    BY <2>1, <2>2
<1> QED
  BY <1>3 DEF IsInjective, items

\* What has a label is taken out of a list without a repetition.
LEMMA LabelledInjective ==
  ASSUME NEW tree, NEW X, NEW nodes \in Seq(X), NEW label, IsInjective(nodes)
  PROVE  IsInjective(LabelledOf(tree, nodes, label))
<1> DEFINE P == {i \in DOMAIN nodes : Labelled(tree, nodes[i], label)}
<1>1. LabelledOf(tree, nodes, label) = ItemsAt(nodes, P) /\ P \subseteq DOMAIN nodes
  BY DEF LabelledOf
<1> HIDE DEF P
<1> QED
  BY <1>1, ItemsInjective

\* What a step of an XPath offers are elements.
WalkAxes == {"self", "child", "descendant", "descendant-or-self", "parent",
             "following-sibling", "preceding-sibling"}

\* An axis leads to elements.
LEMMA AxisIs ==
  ASSUME NEW tree, IsPage(tree), NEW n \in Elements(tree), NEW step, step.axis \in WalkAxes
  PROVE  Axis(tree, n, step) \in Seq(Elements(tree))
<1> DEFINE E == Elements(tree)
           below == Descendants(tree, n)
           beside == IF n = 1 THEN <<>> ELSE Siblings(tree, n)
           after == ItemsAt(beside, {i \in DOMAIN beside : beside[i] > n})
           ahead == ItemsAt(beside, {i \in DOMAIN beside : beside[i] < n})
           up == IF n = 1 THEN <<>> ELSE <<ParentElement(tree, n)>>
           inner == ElementChildren(tree, n)
           all == CASE step.axis = "self" -> <<n>>
                    [] step.axis = "child" -> inner
                    [] step.axis = "descendant" -> below
                    [] step.axis = "descendant-or-self" -> <<n>> \o below
                    [] step.axis = "parent" -> up
                    [] step.axis = "following-sibling" -> after
                    [] step.axis = "preceding-sibling" -> ahead
<1>1. Axis(tree, n, step) = LabelledOf(tree, all, step.test)
  BY DEF Axis
<1>2. below \in Seq(E) /\ inner \in Seq(E)
  BY DescendantsAre, ChildrenAre
<1>3. beside \in Seq(E)
  <2>1. Siblings(tree, n) \in Seq(E)
    BY SiblingsAre
  <2>2. <<>> \in Seq(E)
    OBVIOUS
  <2> QED
    BY <2>1, <2>2
<1>4. n \in E /\ (n # 1 => ParentElement(tree, n) \in E)
  BY PageIs DEF ParentElement
<1> HIDE DEF E, below, beside, inner
<1>5. after \in Seq(E)
  <2> DEFINE P == {i \in DOMAIN beside : beside[i] > n}
  <2>1. P \subseteq DOMAIN beside
    OBVIOUS
  <2> HIDE DEF P
  <2>2. ItemsAt(beside, P) \in Seq(E)
    BY <1>3, <2>1, ItemsAtIs
  <2> QED
    BY <2>2 DEF P
<1>6. ahead \in Seq(E)
  <2> DEFINE P == {i \in DOMAIN beside : beside[i] < n}
  <2>1. P \subseteq DOMAIN beside
    OBVIOUS
  <2> HIDE DEF P
  <2>2. ItemsAt(beside, P) \in Seq(E)
    BY <1>3, <2>1, ItemsAtIs
  <2> QED
    BY <2>2 DEF P
<1>7. up \in Seq(E) /\ <<n>> \in Seq(E)
  <2>1. <<>> \in Seq(E)
    OBVIOUS
  <2>2. <<n>> \in Seq(E)
    BY <1>4, OneOnly
  <2>3. n # 1 => <<ParentElement(tree, n)>> \in Seq(E)
    BY <1>4, OneOnly
  <2> QED
    BY <2>1, <2>2, <2>3
<1> DEFINE self == <<n>>
           joined == <<n>> \o below
<1>8. joined \in Seq(E) /\ self \in Seq(E)
  BY <1>2, <1>7, ConcatProperties
<1> HIDE DEF after, ahead, up
<1>9. all \in Seq(E)
  <2>1. all = CASE step.axis = "self" -> self
                [] step.axis = "child" -> inner
                [] step.axis = "descendant" -> below
                [] step.axis = "descendant-or-self" -> joined
                [] step.axis = "parent" -> up
                [] step.axis = "following-sibling" -> after
                [] step.axis = "preceding-sibling" -> ahead
    OBVIOUS
  <2> HIDE DEF self, joined, all
  <2> QED
    BY <1>2, <1>5, <1>6, <1>7, <1>8, <2>1 DEF WalkAxes
<1> HIDE DEF all
<1>10. LabelledOf(tree, all, step.test) \in Seq(E)
  BY <1>9, LabelledAre
<1> QED
  BY <1>1, <1>10 DEF E

\* A step offers elements.
LEMMA OfferedIs ==
  ASSUME NEW tree, IsPage(tree), NEW n \in Elements(tree), NEW step, step.axis \in WalkAxes
  PROVE  Offered(tree, n, step) \in Seq(Elements(tree))
<1> DEFINE E == Elements(tree)
           all == Axis(tree, n, step)
           good == {i \in DOMAIN all : \A j \in DOMAIN step.preds : PredOk(tree, all, i, step.preds[j])}
<1>1. all \in Seq(E)
  BY AxisIs
<1>2. Offered(tree, n, step) = ItemsAt(all, good) /\ good \subseteq DOMAIN all
  BY DEF Offered
<1> HIDE DEF E, all, good
<1>3. ItemsAt(all, good) \in Seq(E)
  BY <1>1, <1>2, ItemsAtIs
<1> QED
  BY <1>2, <1>3 DEF E

\* What it finds from all elements, each once.
LEMMA FoundIs ==
  ASSUME NEW tree, IsPage(tree), NEW nodes \in Seq(Elements(tree)), NEW step, step.axis \in WalkAxes,
         NEW got, got = Distinct(FlattenSeq([i \in DOMAIN nodes |-> Offered(tree, nodes[i], step)]))
  PROVE  /\ got \in Seq(Elements(tree)) /\ IsInjective(got)
         /\ ToSet(got) = UNION {ToSet(Offered(tree, n, step)) : n \in ToSet(nodes)}
<1> DEFINE E == Elements(tree)
           s == [i \in DOMAIN nodes |-> Offered(tree, nodes[i], step)]
<1>1. /\ \A i \in DOMAIN nodes : Offered(tree, nodes[i], step) \in Seq(E)
      /\ Len(nodes) \in Nat /\ DOMAIN nodes = 1 .. Len(nodes)
  BY OfferedIs
<1>2. /\ DOMAIN s = 1 .. Len(nodes) /\ \A i \in DOMAIN s : s[i] = Offered(tree, nodes[i], step)
      /\ s = [i \in 1 .. Len(nodes) |-> s[i]] /\ \A i \in DOMAIN s : s[i] \in Seq(E)
  BY <1>1
<1>3. ToSet(nodes) = {nodes[i] : i \in DOMAIN nodes}
  BY DEF ToSet
<1>4. got = Distinct(FlattenSeq(s))
  OBVIOUS
<1> HIDE DEF s, E
<1>5. s \in Seq(Seq(E))
  BY <1>1, <1>2
<1>6. ToSet(FlattenSeq(s)) = UNION {ToSet(s[i]) : i \in DOMAIN s}
  BY <1>5, FlattenMembers
<1>7. FlattenSeq(s) \in Seq(E)
  BY <1>5, FlattenTyped
<1>8. got \in Seq(E) /\ IsInjective(got) /\ ToSet(got) = ToSet(FlattenSeq(s))
  BY <1>4, <1>7, DistinctIs
<1>9. UNION {ToSet(s[i]) : i \in DOMAIN s} = UNION {ToSet(Offered(tree, n, step)) : n \in ToSet(nodes)}
  BY <1>1, <1>2, <1>3
<1> QED
  BY <1>6, <1>8, <1>9 DEF E

-----------------------------------------------------------------------------
(* Where an XPath leads. *)

\* Where an XPath leads, step by step.
Leading(f, tree, way, n) ==
    /\ f \in [0 .. n -> SUBSET Elements(tree)] /\ f[0] = {1}
    /\ \A i \in 1 .. n : f[i] = UNION {ToSet(Offered(tree, m, way[i])) : m \in f[i - 1]}

\* For every path there is the function that follows it step by step.
LEMMA LeadingExists ==
  ASSUME NEW tree, IsPage(tree), NEW way, NEW n \in Nat, \A i \in 1 .. n : way[i].axis \in WalkAxes
  PROVE  \E f : Leading(f, tree, way, n)
<1> DEFINE E == Elements(tree)
           V == SUBSET E
           Next1(i, T) == UNION {ToSet(Offered(tree, m, way[i])) : m \in T}
           G == [af \in (0 .. n) \X [0 .. n -> V] |->
                    IF af[1] = 0 THEN {1} ELSE Next1(af[1], af[2][af[1] - 1])]
           size == [m \in 0 .. n |-> m]
<1>1. \A k \in 0 .. n : \A f \in [0 .. n -> V] : G[k, f] = IF k = 0 THEN {1} ELSE Next1(k, f[k - 1])
  OBVIOUS
<1>2. 1 \in E
  BY PageIs
<1>3. ASSUME NEW i \in 1 .. n, NEW T, T \subseteq E PROVE Next1(i, T) \subseteq E
  <2>1. ASSUME NEW m \in T PROVE ToSet(Offered(tree, m, way[i])) \subseteq E
    <3>1. Offered(tree, m, way[i]) \in Seq(E)
      BY <1>3, OfferedIs
    <3> QED
      BY <3>1 DEF ToSet
  <2> QED
    BY <2>1
<1> HIDE DEF G, Next1, E
<1>4. StaysIn(0 .. n, V, G)
  <2> SUFFICES ASSUME NEW k \in 0 .. n, NEW f \in [0 .. n -> V] PROVE G[k, f] \in V
    BY Zenon DEF StaysIn
  <2>1. CASE k = 0
    BY <1>1, <1>2, <2>1
  <2>2. CASE k # 0
    <3>1. k \in 1 .. n /\ k - 1 \in 0 .. n
      BY <2>2
    <3>2. f[k - 1] \subseteq E
      BY <3>1
    <3>3. Next1(k, f[k - 1]) \subseteq E
      BY <1>3, <3>1, <3>2
    <3> QED
      BY <1>1, <2>2, <3>3
  <2> QED
    BY <2>1, <2>2
<1>5. LooksBelow(0 .. n, size, V, G)
  <2> SUFFICES ASSUME NEW k \in 0 .. n, NEW f \in [0 .. n -> V], NEW g \in [0 .. n -> V],
                      \A j \in 0 .. n : size[j] < size[k] => f[j] = g[j]
               PROVE  G[k, f] = G[k, g]
    BY Zenon DEF LooksBelow
  <2>1. CASE k = 0
    BY <1>1, <2>1
  <2>2. CASE k # 0
    <3>1. k - 1 \in 0 .. n /\ size[k - 1] < size[k]
      BY <2>2
    <3>2. f[k - 1] = g[k - 1]
      BY <3>1
    <3>3. G[k, f] = Next1(k, f[k - 1]) /\ G[k, g] = Next1(k, g[k - 1])
      <4> HIDE DEF V
      <4> QED
        BY <1>1, <2>2
    <3> QED
      BY <3>2, <3>3
  <2> QED
    BY <2>1, <2>2
<1>6. size \in [0 .. n -> Nat] /\ {} \in V
  OBVIOUS
<1> HIDE DEF size
<1>7. PICK f \in [0 .. n -> V] : \A k \in 0 .. n : f[k] = G[k, f]
  <2>1. Solvable(0 .. n, V, G)
    <3> HIDE DEF V
    <3> QED
      BY <1>4, <1>5, <1>6, Recursion
  <2> QED
    BY <2>1, Zenon DEF Solvable
<1>8. f[0] = {1}
  <2>1. 0 \in 0 .. n
    OBVIOUS
  <2> QED
    BY <1>1, <1>7, <2>1
<1>9. ASSUME NEW i \in 1 .. n PROVE f[i] = Next1(i, f[i - 1])
  <2>1. i \in 0 .. n /\ i # 0
    OBVIOUS
  <2> HIDE DEF V
  <2> QED
    BY <1>1, <1>7, <2>1
<1>10. Leading(f, tree, way, n)
  BY <1>7, <1>8, <1>9 DEF Leading, E, Next1
<1> QED
  BY <1>10

\* It is what "Reached" says.
LEMMA ReachedIs ==
  ASSUME NEW tree, NEW way, Len(way) \in Nat, NEW f, Leading(f, tree, way, Len(way))
  PROVE  Reached(tree, way) = f[Len(way)]
<1> DEFINE n == Len(way)
           From(i, T) == UNION {ToSet(Offered(tree, m, way[i])) : m \in T}
           h == CHOOSE g : g = [i \in 0 .. n |-> IF i = 0 THEN {1} ELSE From(i, g[i - 1])]
<1>1. Reached(tree, way) = h[n]
  BY DEF Reached
<1>2. /\ f \in [0 .. n -> SUBSET Elements(tree)] /\ f[0] = {1}
      /\ \A i \in 1 .. n : f[i] = From(i, f[i - 1])
  BY DEF Leading
<1>3. n \in Nat
  OBVIOUS
<1> HIDE DEF n, From
<1>4. f = [i \in 0 .. n |-> IF i = 0 THEN {1} ELSE From(i, f[i - 1])]
  <2>1. ASSUME NEW i \in 0 .. n PROVE f[i] = IF i = 0 THEN {1} ELSE From(i, f[i - 1])
    BY <1>2, <1>3
  <2>2. f = [i \in 0 .. n |-> f[i]]
    BY <1>2
  <2> QED
    BY <2>1, <2>2
<1>5. h = [i \in 0 .. n |-> IF i = 0 THEN {1} ELSE From(i, h[i - 1])]
  BY <1>4
<1> HIDE DEF h
<1> DEFINE U == {k \in Nat : k <= n => h[k] = f[k]}
<1>6. 0 \in U
  <2>1. 0 \in 0 .. n
    BY <1>3
  <2> QED
    BY <1>2, <1>5, <2>1
<1>7. ASSUME NEW k \in Nat, k \in U PROVE k + 1 \in U
  <2> DEFINE m == k + 1
  <2>1. m \in Nat /\ m - 1 = k /\ m # 0
    OBVIOUS
  <2> HIDE DEF m
  <2>2. ASSUME m <= n PROVE h[m] = f[m]
    <3>1. m \in 1 .. n /\ m \in 0 .. n /\ k <= n
      BY <1>3, <2>1, <2>2
    <3>2. h[k] = f[k]
      BY <1>7, <3>1
    <3>3. f[m] = From(m, f[k])
      BY <1>2, <2>1, <3>1
    <3>4. h[m] = From(m, h[k])
      BY <1>5, <2>1, <3>1
    <3> QED
      BY <3>2, <3>3, <3>4
  <2>3. m \in U
    BY <2>1, <2>2
  <2> QED
    BY <2>3 DEF m
<1>8. \A k \in Nat : k \in U
  <2> HIDE DEF U
  <2> QED
    BY <1>6, <1>7, EveryNumber
<1> QED
  BY <1>1, <1>3, <1>8 DEF n

\* From nothing it leads to nothing.
LEMMA LeadsNowhere ==
  ASSUME NEW tree, NEW way, NEW n \in Nat, NEW f, Leading(f, tree, way, n), NEW k \in 0 .. n, f[k] = {}
  PROVE  \A m \in k .. n : f[m] = {}
<1>1. \A i \in 1 .. n : f[i] = UNION {ToSet(Offered(tree, m, way[i])) : m \in f[i - 1]}
  BY DEF Leading
<1>2. \A i \in 1 .. n : f[i - 1] = {} => f[i] = {}
  BY <1>1
<1> DEFINE U == {j \in Nat : k + j <= n => f[k + j] = {}}
<1>3. 0 \in U
  OBVIOUS
<1>4. ASSUME NEW j \in Nat, j \in U PROVE j + 1 \in U
  <2> DEFINE m == k + (j + 1)
  <2>1. m \in Nat /\ m - 1 = k + j /\ (m <= n => m \in 1 .. n /\ k + j <= n)
    OBVIOUS
  <2> HIDE DEF m
  <2>2. m <= n => f[m] = {}
    BY <1>2, <1>4, <2>1
  <2> QED
    BY <2>2 DEF m
<1>5. \A j \in Nat : j \in U
  <2> HIDE DEF U
  <2> QED
    BY <1>3, <1>4, EveryNumber
<1>6. ASSUME NEW m \in k .. n PROVE f[m] = {}
  <2>1. m - k \in Nat /\ k + (m - k) = m /\ m <= n
    OBVIOUS
  <2> QED
    BY <1>5, <2>1
<1> QED
  BY <1>6

-----------------------------------------------------------------------------
(* Rules of steps at work. *)

\* A rule at work.
StepAt(tree, rule, at, next, nodes, extracted, results) ==
    [tree |-> tree, rule |-> rule, at |-> at, next |-> next, nodes |-> nodes,
     extracted |-> extracted, results |-> results]

StepFrame(s) ==
    /\ s = StepAt(s.tree, s.rule, s.at, s.next, s.nodes, s.extracted, s.results)
    /\ IsPage(s.tree)
    /\ s.nodes \in Seq(Elements(s.tree)) /\ s.results \in Seq(Elements(s.tree))
    /\ s.at \in {"xpath", "soup", "resort", "done", "idle"}
    /\ s.next \in 1 .. Len(s.rule) + 1 /\ Len(s.rule) \in Nat
    /\ s.at # "idle" => HasItems(s.rule) /\ s.rule \in Paths \union SoupRules
    /\ s.at = "xpath" => s.rule \in Paths
    /\ s.at \in {"soup", "resort"} => s.rule \in SoupRules

\* Texts and attributes are asked for at the end only; the steps before that.
EndsWell(rule) == \A i \in 1 .. Len(rule) - 1 : rule[i].axis \notin {"text()", "@"}
Strides(rule) == IF rule[Len(rule)].axis \in {"text()", "@"} THEN Len(rule) - 1 ELSE Len(rule)
Told(tree, rule, f) ==
    IF rule[Len(rule)].axis = "@"
    THEN {m \in f[Strides(rule)] : Labelled(tree, m, rule[Len(rule)].test)}
    ELSE f[Strides(rule)]

\* The elements an XPath is at are those it leads to so far.
WalkInv(s) ==
    (s.at = "xpath" /\ EndsWell(s.rule)) =>
        /\ s.results = <<>> /\ IsInjective(s.nodes)
        /\ s.next - 1 <= Strides(s.rule)
        /\ \A f : Leading(f, s.tree, s.rule, Strides(s.rule)) =>
                    ToSet(s.nodes) = f[s.next - 1]
WalkDone(s) ==
    (s.at = "done" /\ s.rule \in Paths /\ EndsWell(s.rule)) =>
        /\ IsInjective(s.results)
        /\ \A f : Leading(f, s.tree, s.rule, Strides(s.rule)) =>
                    ToSet(s.results) = Told(s.tree, s.rule, f)

\* What a rule with one step and what to take of it has found and taken.
OneStepRule(rule) ==
    rule \in SoupRules /\ Len(rule) = 2 /\ rule[1].is = "find" /\ Extracts(rule[2])
Taken1(tree, rule, all) ==
    IF rule[2].is = "text" THEN all
    ELSE FlattenSeq([i \in DOMAIN all |-> Holder(tree, all[i], rule[2].label)])
SingleInv(s) ==
    OneStepRule(s.rule) =>
        LET all == FindBy(s.tree, 1, s.rule[1].label)
            took == Taken1(s.tree, s.rule, all)
        IN  /\ s.at = "soup" =>
                \/ s.next = 1 /\ s.nodes = <<1>> /\ ~s.extracted /\ s.results = <<>>
                \/ s.next = 2 /\ s.nodes = all /\ ~s.extracted /\ s.results = <<>>
                \/ s.next = 3 /\ s.nodes = all /\ s.extracted /\ s.results = took
            /\ s.at = "resort" => took = <<>>
            /\ s.at = "done" =>
                \/ s.results = took
                \/ took = <<>> /\ s.rule[2].is = "attr"
                   /\ s.results = LabelledOf(s.tree, all, s.rule[2].label)

GoodSteps(s) == StepFrame(s) /\ WalkInv(s) /\ WalkDone(s) /\ SingleInv(s)
StepInv == GoodSteps(steps)

\* What is known of the rules.
LEMMA RulesRead ==
  /\ \A tree \in StepPages : IsPage(tree)
  /\ \A rule \in Paths \union SoupRules :
        /\ HasItems(rule) /\ Len(rule) \in Nat \ {0} /\ DOMAIN rule = 1 .. Len(rule)
        /\ rule \in Seq(ToSet(rule))
  /\ \A way \in Paths : \A i \in DOMAIN way :
        "axis" \in DOMAIN way[i] /\ way[i].axis \in WalkAxes \union {"text()", "@"}
  /\ \A rule \in SoupRules : \A i \in DOMAIN rule :
        "axis" \notin DOMAIN rule[i] /\ rule[i].is \in {"find", "id", "children", "tag", "index", "text", "attr"}
<1>1. \A tree \in StepPages : IsPage(tree)
  BY StepsAreRead
<1>2. ASSUME NEW rule \in Paths \union SoupRules
      PROVE  /\ HasItems(rule) /\ Len(rule) \in Nat \ {0} /\ DOMAIN rule = 1 .. Len(rule)
             /\ rule \in Seq(ToSet(rule))
  <2>1. HasItems(rule)
    BY StepsAreRead
  <2>2. rule \in Seq(ToSet(rule)) /\ rule # <<>>
    BY <2>1 DEF HasItems
  <2> DEFINE T == ToSet(rule)
  <2> HIDE DEF T
  <2>3. rule \in Seq(T) /\ rule # <<>>
    BY <2>2 DEF T
  <2>4. Len(rule) \in Nat \ {0} /\ DOMAIN rule = 1 .. Len(rule)
    BY <2>3, EmptySeq
  <2> QED
    BY <2>1, <2>2, <2>4
<1>3. \A way \in Paths : \A i \in DOMAIN way :
        "axis" \in DOMAIN way[i] /\ way[i].axis \in WalkAxes \union {"text()", "@"}
  BY StepsAreRead DEF WalkAxes
<1>4. \A rule \in SoupRules : \A i \in DOMAIN rule :
        "axis" \notin DOMAIN rule[i] /\ rule[i].is \in {"find", "id", "children", "tag", "index", "text", "attr"}
  BY StepsAreRead
<1> QED
  BY <1>1, <1>2, <1>3, <1>4

\* The element a search begins with.
LEMMA OneElement == ASSUME NEW tree, IsPage(tree)
  PROVE <<1>> \in Seq(Elements(tree)) /\ ToSet(<<1>>) = {1} /\ <<>> \in Seq(Elements(tree))
        /\ IsInjective(<<1>>)
<1>1. 1 \in Elements(tree)
  BY PageIs
<1>2. IsInjective(<<1>>)
  BY DEF IsInjective
<1> QED
  BY <1>1, <1>2, OneOnly

\* A search of the shape it should have.
LEMMA FrameOf ==
  ASSUME NEW tree, NEW rule, NEW at, NEW next, NEW nodes, NEW extracted, NEW results,
         IsPage(tree), nodes \in Seq(Elements(tree)), results \in Seq(Elements(tree)),
         at \in {"xpath", "soup", "resort", "done"}, rule \in Paths \union SoupRules,
         at = "xpath" => rule \in Paths, at \in {"soup", "resort"} => rule \in SoupRules,
         next \in 1 .. Len(rule) + 1
  PROVE  StepFrame(StepAt(tree, rule, at, next, nodes, extracted, results))
<1> DEFINE s == StepAt(tree, rule, at, next, nodes, extracted, results)
<1>1. /\ s.tree = tree /\ s.rule = rule /\ s.at = at /\ s.next = next /\ s.nodes = nodes
      /\ s.extracted = extracted /\ s.results = results
  BY DEF StepAt
<1> HIDE DEF s
<1>2. s = StepAt(s.tree, s.rule, s.at, s.next, s.nodes, s.extracted, s.results)
  BY <1>1 DEF s
<1>3. HasItems(rule) /\ Len(rule) \in Nat
  BY RulesRead
<1>4. /\ IsPage(s.tree) /\ s.nodes \in Seq(Elements(s.tree)) /\ s.results \in Seq(Elements(s.tree))
      /\ s.at \in {"xpath", "soup", "resort", "done", "idle"}
      /\ s.next \in 1 .. Len(s.rule) + 1 /\ Len(s.rule) \in Nat
  BY <1>1, <1>3
<1>5. /\ HasItems(s.rule) /\ s.rule \in Paths \union SoupRules
      /\ s.at = "xpath" => s.rule \in Paths
      /\ s.at \in {"soup", "resort"} => s.rule \in SoupRules
  BY <1>1, <1>3
<1>6. StepFrame(s)
  BY <1>2, <1>4, <1>5, Zenon DEF StepFrame
<1> QED
  BY <1>6 DEF s

\* Where the search along a path or a rule begins.
LEMMA StepStarts ==
  ASSUME NEW tree, IsPage(tree), NEW rule, NEW at \in {"xpath", "soup"},
         at = "xpath" => rule \in Paths, at = "soup" => rule \in SoupRules,
         StepStart(tree, rule, at)
  PROVE  StepInv
<1>1. steps = StepAt(tree, rule, at, 1, <<1>>, FALSE, <<>>)
  BY DEF StepStart, StepAt
<1>2. rule \in Paths \union SoupRules
  OBVIOUS
<1>3. HasItems(rule) /\ Len(rule) \in Nat \ {0}
  BY <1>2, RulesRead
<1>4. /\ <<1>> \in Seq(Elements(tree)) /\ ToSet(<<1>>) = {1} /\ <<>> \in Seq(Elements(tree))
      /\ IsInjective(<<1>>)
  BY OneElement
<1>5. 1 \in 1 .. Len(rule) + 1
  BY <1>3
<1>6. StepFrame(steps)
  <2>1. at \in {"xpath", "soup", "resort", "done"} /\ (at \in {"soup", "resort"} => rule \in SoupRules)
    OBVIOUS
  <2> DEFINE one == <<1>>
             none == <<>>
  <2>2. one \in Seq(Elements(tree)) /\ none \in Seq(Elements(tree))
    BY <1>4
  <2>3. steps = StepAt(tree, rule, at, 1, one, FALSE, none)
    BY <1>1
  <2> HIDE DEF one, none
  <2>4. StepFrame(StepAt(tree, rule, at, 1, one, FALSE, none))
    BY <1>2, <1>5, <2>1, <2>2, FrameOf
  <2> QED
    BY <2>3, <2>4
<1>7. /\ steps.tree = tree /\ steps.rule = rule /\ steps.at = at /\ steps.next = 1
      /\ steps.nodes = <<1>> /\ steps.extracted = FALSE /\ steps.results = <<>>
  BY <1>1 DEF StepAt
<1>8. WalkInv(steps)
  <2>1. \A f : Leading(f, tree, rule, Strides(rule)) => {1} = f[0]
    BY DEF Leading
  <2>2. 1 - 1 = 0
    OBVIOUS
  <2>3. 0 <= Strides(rule)
    BY <1>3 DEF Strides
  <2> QED
    BY <1>4, <1>7, <2>1, <2>2, <2>3 DEF WalkInv
<1>9. WalkDone(steps) /\ SingleInv(steps)
  BY <1>7 DEF WalkDone, SingleInv
<1> QED
  BY <1>6, <1>8, <1>9 DEF StepInv, GoodSteps

\* Where it stays if another part is at work.
LEMMA StepsRest ==
  ASSUME StepsAtRest PROVE StepInv
<1> DEFINE tree == [parent |-> <<0>>, labels |-> <<{}>>]
<1>1. steps = StepAt(tree, <<>>, "idle", 1, <<1>>, FALSE, <<>>)
  BY DEF StepsAtRest, StepStart, StepAt
<1>2. IsPage(tree)
  BY DEF IsPage, Elements
<1> HIDE DEF tree
<1>3. /\ steps.tree = tree /\ steps.rule = <<>> /\ steps.at = "idle" /\ steps.next = 1
      /\ steps.nodes = <<1>> /\ steps.extracted = FALSE /\ steps.results = <<>>
  BY <1>1 DEF StepAt
<1>4. steps = StepAt(steps.tree, steps.rule, steps.at, steps.next, steps.nodes, steps.extracted, steps.results)
  BY <1>1, <1>3
<1>5. <<1>> \in Seq(Elements(tree)) /\ <<>> \in Seq(Elements(tree)) /\ Len(<<>>) = 0
  BY <1>2, OneElement
<1>6. steps.next \in 1 .. Len(steps.rule) + 1 /\ Len(steps.rule) \in Nat
  BY <1>3, <1>5
<1>7. StepFrame(steps)
  BY <1>2, <1>3, <1>4, <1>5, <1>6 DEF StepFrame
<1>8. WalkInv(steps) /\ WalkDone(steps)
  BY <1>3 DEF WalkInv, WalkDone
<1>9. SingleInv(steps)
  BY <1>3 DEF SingleInv
<1> QED
  BY <1>7, <1>8, <1>9 DEF StepInv, GoodSteps

\* A step of an XPath.
LEMMA PathStepIs ==
  ASSUME StepFrame(steps), PathStep
  PROVE  LET s == steps
             step == s.rule[s.next]
             got == Distinct(FlattenSeq([i \in DOMAIN s.nodes |-> Offered(s.tree, s.nodes[i], step)]))
         IN  /\ s.at = "xpath" /\ s.next \in 1 .. Len(s.rule) /\ s.rule \in Paths
             /\ step.axis = "text()" =>
                    steps' = StepAt(s.tree, s.rule, "done", s.next, s.nodes, s.extracted, s.nodes)
             /\ step.axis = "@" =>
                    steps' = StepAt(s.tree, s.rule, "done", s.next, s.nodes, s.extracted,
                                    LabelledOf(s.tree, s.nodes, step.test))
             /\ step.axis \notin {"text()", "@"} =>
                    steps' = StepAt(s.tree, s.rule, IF got = <<>> THEN "done" ELSE "xpath", s.next + 1, got,
                                    s.extracted, s.results)
<1> DEFINE s == steps
           step == s.rule[s.next]
           got == Distinct(FlattenSeq([i \in DOMAIN s.nodes |-> Offered(s.tree, s.nodes[i], step)]))
           labelled == LabelledOf(s.tree, s.nodes, step.test)
<1>1. /\ s = StepAt(s.tree, s.rule, s.at, s.next, s.nodes, s.extracted, s.results)
      /\ s.next \in 1 .. Len(s.rule) + 1 /\ Len(s.rule) \in Nat
      /\ s.at = "xpath" => s.rule \in Paths
  BY DEF StepFrame
<1>2. s.at = "xpath" /\ s.next <= Len(s.rule)
  BY DEF PathStep
<1>3. steps' = IF step.axis = "text()" THEN [s EXCEPT !.at = "done", !.results = s.nodes]
               ELSE IF step.axis = "@"
                    THEN [s EXCEPT !.at = "done", !.results = labelled]
               ELSE [s EXCEPT !.at = IF got = <<>> THEN "done" ELSE s.at, !.nodes = got, !.next = s.next + 1]
  BY DEF PathStep
<1>4. s.rule \in Paths /\ s.next \in 1 .. Len(s.rule)
  BY <1>1, <1>2
<1> HIDE DEF step, got, labelled
<1>5. step.axis = "text()" => steps' = StepAt(s.tree, s.rule, "done", s.next, s.nodes, s.extracted, s.nodes)
  BY <1>1, <1>3 DEF StepAt
<1>6. step.axis = "@" => steps' = StepAt(s.tree, s.rule, "done", s.next, s.nodes, s.extracted, labelled)
  BY <1>1, <1>3 DEF StepAt
<1>7. step.axis \notin {"text()", "@"} =>
        steps' = StepAt(s.tree, s.rule, IF got = <<>> THEN "done" ELSE "xpath", s.next + 1, got, s.extracted, s.results)
  BY <1>1, <1>2, <1>3 DEF StepAt
<1> QED
  BY <1>2, <1>4, <1>5, <1>6, <1>7 DEF step, got, labelled

\* The last step of a rule may only say what to take.
LEMMA StridesAre ==
  ASSUME NEW rule, Len(rule) \in Nat \ {0}
  PROVE  /\ Strides(rule) \in 0 .. Len(rule)
         /\ rule[Len(rule)].axis \in {"text()", "@"} => Strides(rule) = Len(rule) - 1
         /\ rule[Len(rule)].axis \notin {"text()", "@"} => Strides(rule) = Len(rule)
BY DEF Strides

\* A step that asks for texts or for an attribute ends the rule.
LEMMA PathTakes ==
  ASSUME GoodSteps(steps), PathStep,
         steps.rule[steps.next].axis \in {"text()", "@"}
  PROVE  GoodSteps(steps')
<1> DEFINE tree == steps.tree
           rule == steps.rule
           nodes == steps.nodes
           next == steps.next
           step == rule[next]
           held == IF step.axis = "@" THEN LabelledOf(tree, nodes, step.test) ELSE nodes
<1>1. /\ StepFrame(steps) /\ WalkInv(steps)
      /\ IsPage(tree) /\ nodes \in Seq(Elements(tree))
  BY DEF GoodSteps, StepFrame
<1>2. /\ steps.at = "xpath" /\ next \in 1 .. Len(rule) /\ rule \in Paths
      /\ steps' = StepAt(tree, rule, "done", next, nodes, steps.extracted, held)
  BY <1>1, PathStepIs
<1>3. step.axis \in {"text()", "@"}
  OBVIOUS
<1>4. /\ (EndsWell(rule)) => /\ IsInjective(nodes) /\ next - 1 <= Strides(rule)
                             /\ \A f : Leading(f, tree, rule, Strides(rule)) => ToSet(nodes) = f[next - 1]
  BY <1>1, <1>2 DEF WalkInv
<1> HIDE DEF tree, rule, nodes, next
<1>5. /\ Len(rule) \in Nat \ {0} /\ DOMAIN rule = 1 .. Len(rule)
      /\ rule \notin SoupRules
  <2>1. rule \in Paths \union SoupRules
    BY <1>2
  <2>2. Len(rule) \in Nat \ {0} /\ DOMAIN rule = 1 .. Len(rule)
    BY <2>1, RulesRead
  <2>3. "axis" \in DOMAIN rule[1]
    BY <1>2, <2>2, RulesRead
  <2> QED
    BY <2>2, <2>3, RulesRead
<1>6. LabelledOf(tree, nodes, step.test) \in Seq(Elements(tree))
  BY <1>1, LabelledAre
<1>7. held \in Seq(Elements(tree))
  BY <1>1, <1>6
<1>8. StepFrame(steps')
  <2>1. next \in 1 .. Len(rule) + 1 /\ rule \in Paths \union SoupRules
    BY <1>2, <1>5
  <2> HIDE DEF held
  <2>2. StepFrame(StepAt(tree, rule, "done", next, nodes, steps.extracted, held))
    BY <1>1, <1>2, <1>7, <2>1, FrameOf
  <2> QED
    BY <1>2, <2>2
<1>9. steps'.at = "done" /\ steps'.rule = rule /\ steps'.tree = tree /\ steps'.results = held
  BY <1>2 DEF StepAt
<1>10. ASSUME EndsWell(rule)
       PROVE  /\ IsInjective(held)
              /\ \A f : Leading(f, tree, rule, Strides(rule)) => ToSet(held) = Told(tree, rule, f)
  <2>1. next = Len(rule)
    <3>1. next \in 1 .. Len(rule) - 1 => rule[next].axis \notin {"text()", "@"}
      BY <1>10 DEF EndsWell
    <3>2. next \notin 1 .. Len(rule) - 1
      BY <1>3, <3>1
    <3>3. next \in 1 .. Len(rule)
      BY <1>2
    <3>4. Len(rule) \in Nat
      BY <1>5
    <3> QED
      BY <3>2, <3>3, <3>4
  <2>2. Strides(rule) = next - 1 /\ step = rule[Len(rule)]
    BY <1>3, <1>5, <2>1, StridesAre
  <2>3. IsInjective(LabelledOf(tree, nodes, step.test))
    BY <1>1, <1>4, <1>10, LabelledInjective
  <2>4. IsInjective(held)
    BY <1>4, <1>10, <2>3
  <2>5. ASSUME NEW f, Leading(f, tree, rule, Strides(rule)) PROVE ToSet(held) = Told(tree, rule, f)
    <3>1. ToSet(nodes) = f[Strides(rule)]
      BY <1>4, <1>10, <2>2, <2>5
    <3>2. Told(tree, rule, f) = IF step.axis = "@"
                                THEN {m \in f[Strides(rule)] : Labelled(tree, m, step.test)}
                                ELSE f[Strides(rule)]
      BY <2>2 DEF Told
    <3>3. ToSet(LabelledOf(tree, nodes, step.test)) = {m \in ToSet(nodes) : Labelled(tree, m, step.test)}
      BY <1>1, LabelledAre
    <3> HIDE DEF step
    <3> QED
      BY <3>1, <3>2, <3>3
  <2> QED
    BY <2>4, <2>5
<1>11. WalkInv(steps') /\ WalkDone(steps')
  BY <1>9, <1>10 DEF WalkInv, WalkDone
<1>12. SingleInv(steps')
  BY <1>5, <1>9 DEF SingleInv, OneStepRule
<1> QED
  BY <1>8, <1>11, <1>12 DEF GoodSteps

\* Any other step goes on to what it offers.
LEMMA PathGoes ==
  ASSUME GoodSteps(steps), PathStep,
         steps.rule[steps.next].axis \notin {"text()", "@"}
  PROVE  GoodSteps(steps')
<1> DEFINE tree == steps.tree
           rule == steps.rule
           nodes == steps.nodes
           next == steps.next
           step == rule[next]
           got == Distinct(FlattenSeq([i \in DOMAIN nodes |-> Offered(tree, nodes[i], step)]))
           at == IF got = <<>> THEN "done" ELSE "xpath"
<1>1. /\ StepFrame(steps) /\ WalkInv(steps)
      /\ IsPage(tree) /\ nodes \in Seq(Elements(tree)) /\ steps.results \in Seq(Elements(tree))
  BY DEF GoodSteps, StepFrame
<1>2. /\ steps.at = "xpath" /\ next \in 1 .. Len(rule) /\ rule \in Paths
      /\ steps' = StepAt(tree, rule, at, next + 1, got, steps.extracted, steps.results)
  BY <1>1, PathStepIs
<1>3. step.axis \notin {"text()", "@"}
  OBVIOUS
<1>4. /\ (EndsWell(rule)) => /\ IsInjective(nodes) /\ next - 1 <= Strides(rule) /\ steps.results = <<>>
                             /\ \A f : Leading(f, tree, rule, Strides(rule)) => ToSet(nodes) = f[next - 1]
  BY <1>1, <1>2 DEF WalkInv
<1> HIDE DEF tree, rule, nodes, next
<1>5. /\ Len(rule) \in Nat \ {0} /\ DOMAIN rule = 1 .. Len(rule)
      /\ rule \notin SoupRules /\ step.axis \in WalkAxes
  <2>1. rule \in Paths \union SoupRules
    BY <1>2
  <2>2. Len(rule) \in Nat \ {0} /\ DOMAIN rule = 1 .. Len(rule)
    BY <2>1, RulesRead
  <2>3. "axis" \in DOMAIN rule[1] /\ step.axis \in WalkAxes \union {"text()", "@"}
    BY <1>2, <2>2, RulesRead
  <2> QED
    BY <1>3, <2>2, <2>3, RulesRead
<1>6. /\ got \in Seq(Elements(tree)) /\ IsInjective(got)
      /\ ToSet(got) = UNION {ToSet(Offered(tree, n, step)) : n \in ToSet(nodes)}
  BY <1>1, <1>5, FoundIs
<1> HIDE DEF got
<1>7. StepFrame(steps')
  <2>1. /\ next + 1 \in 1 .. Len(rule) + 1 /\ rule \in Paths \union SoupRules
        /\ at \in {"xpath", "soup", "resort", "done"} /\ at \notin {"soup", "resort"}
    BY <1>2, <1>5
  <2> HIDE DEF at
  <2>2. StepFrame(StepAt(tree, rule, at, next + 1, got, steps.extracted, steps.results))
    BY <1>1, <1>2, <1>6, <2>1, FrameOf
  <2> QED
    BY <1>2, <2>2
<1>8. /\ steps'.at = at /\ steps'.rule = rule /\ steps'.tree = tree /\ steps'.next = next + 1
      /\ steps'.nodes = got /\ steps'.results = steps.results
  <2> HIDE DEF at
  <2> QED
    BY <1>2 DEF StepAt
<1>9. ASSUME EndsWell(rule)
      PROVE  /\ (next + 1) - 1 <= Strides(rule)
             /\ \A f : Leading(f, tree, rule, Strides(rule)) => ToSet(got) = f[(next + 1) - 1]
  <2>1. next <= Strides(rule) /\ next \in Nat \ {0} /\ (next + 1) - 1 = next
    <3>1. next <= Len(rule) /\ next \in Nat \ {0}
      BY <1>2, <1>5
    <3>2. rule[Len(rule)].axis \in {"text()", "@"} => next # Len(rule)
      BY <1>3
    <3>3. Strides(rule) = IF rule[Len(rule)].axis \in {"text()", "@"} THEN Len(rule) - 1 ELSE Len(rule)
      BY DEF Strides
    <3>4. Len(rule) \in Nat
      BY <1>5
    <3>5. CASE rule[Len(rule)].axis \in {"text()", "@"}
      <4>1. next # Len(rule)
        BY <3>2, <3>5
      <4>2. Strides(rule) = Len(rule) - 1
        BY <3>3, <3>5
      <4> QED
        BY <3>1, <3>4, <4>1, <4>2
    <3>6. CASE rule[Len(rule)].axis \notin {"text()", "@"}
      <4>1. Strides(rule) = Len(rule)
        BY <3>3, <3>6
      <4> QED
        BY <3>1, <3>4, <4>1
    <3> QED
      BY <3>5, <3>6
  <2>2. ASSUME NEW f, Leading(f, tree, rule, Strides(rule)) PROVE ToSet(got) = f[next]
    <3>1. Strides(rule) \in Nat
      BY <1>5, StridesAre
    <3>2. next \in 1 .. Strides(rule)
      BY <2>1, <3>1
    <3>3. f[next] = UNION {ToSet(Offered(tree, m, rule[next])) : m \in f[next - 1]}
      BY <2>2, <3>2 DEF Leading
    <3>4. ToSet(nodes) = f[next - 1]
      BY <1>4, <1>9, <2>2
    <3> QED
      BY <1>6, <3>3, <3>4
  <2> QED
    BY <2>1, <2>2
<1>10. WalkInv(steps')
  BY <1>4, <1>6, <1>8, <1>9 DEF WalkInv
<1>11. WalkDone(steps')
  <2> SUFFICES ASSUME at = "done", EndsWell(rule)
               PROVE  /\ IsInjective(steps.results)
                      /\ \A f : Leading(f, tree, rule, Strides(rule)) => ToSet(steps.results) = Told(tree, rule, f)
    BY <1>8 DEF WalkDone
  <2>1. got = <<>> /\ steps.results = <<>>
    BY <1>4
  <2>2. ToSet(<<>>) = {} /\ IsInjective(<<>>)
    BY DEF ToSet, IsInjective
  <2>3. ASSUME NEW f, Leading(f, tree, rule, Strides(rule)) PROVE Told(tree, rule, f) = {}
    <3>1. Strides(rule) \in Nat /\ next \in Nat /\ next <= Strides(rule)
      BY <1>2, <1>5, <1>9, StridesAre
    <3>2. f[next] = {}
      BY <1>2, <1>9, <2>1, <2>2, <2>3, <3>1
    <3>3. next \in 0 .. Strides(rule) /\ Strides(rule) \in next .. Strides(rule)
      BY <3>1
    <3>4. f[Strides(rule)] = {}
      BY <2>3, <3>1, <3>2, <3>3, LeadsNowhere
    <3> QED
      BY <3>4 DEF Told
  <2> QED
    BY <2>1, <2>2, <2>3
<1>12. SingleInv(steps')
  BY <1>5, <1>8 DEF SingleInv, OneStepRule
<1> QED
  BY <1>7, <1>10, <1>11, <1>12 DEF GoodSteps

\* The end of a path.
LEMMA PathEndsKeeps ==
  ASSUME GoodSteps(steps), PathEnds
  PROVE  GoodSteps(steps')
<1> DEFINE tree == steps.tree
           rule == steps.rule
           nodes == steps.nodes
           next == steps.next
<1>1. /\ StepFrame(steps) /\ WalkInv(steps)
      /\ IsPage(tree) /\ nodes \in Seq(Elements(tree))
      /\ steps = StepAt(tree, rule, steps.at, next, nodes, steps.extracted, steps.results)
      /\ next \in 1 .. Len(rule) + 1 /\ Len(rule) \in Nat
      /\ steps.at = "xpath" => rule \in Paths
  BY DEF GoodSteps, StepFrame
<1>2. /\ steps.at = "xpath" /\ next > Len(rule) /\ steps' = [steps EXCEPT !.at = "done", !.results = nodes]
  BY DEF PathEnds
<1>3. /\ (EndsWell(rule)) => /\ IsInjective(nodes) /\ next - 1 <= Strides(rule)
                             /\ \A f : Leading(f, tree, rule, Strides(rule)) => ToSet(nodes) = f[next - 1]
  BY <1>1, <1>2 DEF WalkInv
<1>4. steps' = StepAt(tree, rule, "done", next, nodes, steps.extracted, nodes)
  BY <1>1, <1>2 DEF StepAt
<1> HIDE DEF tree, rule, nodes, next
<1>5. /\ Len(rule) \in Nat \ {0} /\ rule \notin SoupRules /\ rule \in Paths
  <2>1. rule \in Paths \union SoupRules
    BY <1>1, <1>2
  <2>2. Len(rule) \in Nat \ {0} /\ DOMAIN rule = 1 .. Len(rule)
    BY <2>1, RulesRead
  <2>3. "axis" \in DOMAIN rule[1]
    BY <1>1, <1>2, <2>2, RulesRead
  <2> QED
    BY <1>1, <1>2, <2>2, <2>3, RulesRead
<1>6. StepFrame(steps')
  <2>1. rule \in Paths \union SoupRules
    BY <1>5
  <2>2. StepFrame(StepAt(tree, rule, "done", next, nodes, steps.extracted, nodes))
    BY <1>1, <1>5, <2>1, FrameOf
  <2> QED
    BY <1>4, <2>2
<1>7. steps'.at = "done" /\ steps'.rule = rule /\ steps'.tree = tree /\ steps'.results = nodes
  BY <1>4 DEF StepAt
<1>8. next = Len(rule) + 1 /\ next - 1 = Len(rule)
  BY <1>1, <1>2
<1>9. ASSUME EndsWell(rule), NEW f, Leading(f, tree, rule, Strides(rule))
      PROVE  ToSet(nodes) = Told(tree, rule, f)
  <2>1. Strides(rule) = Len(rule) /\ rule[Len(rule)].axis \notin {"text()", "@"}
    BY <1>3, <1>5, <1>8, <1>9, StridesAre
  <2>2. ToSet(nodes) = f[Len(rule)]
    BY <1>3, <1>8, <1>9
  <2> QED
    BY <2>1, <2>2 DEF Told
<1>10. WalkInv(steps') /\ WalkDone(steps')
  BY <1>3, <1>7, <1>9 DEF WalkInv, WalkDone
<1>11. SingleInv(steps')
  BY <1>5, <1>7 DEF SingleInv, OneStepRule
<1> QED
  BY <1>6, <1>10, <1>11 DEF GoodSteps

\* What a step of a rule in the style of JSoup goes on to, and what it takes.
LEMMA GoFromIs ==
  ASSUME NEW tree, IsPage(tree), NEW n \in Elements(tree), NEW step,
         step.is \in {"find", "id", "children", "tag"}
  PROVE  GoFrom(tree, n, step) \in Seq(Elements(tree))
<1> DEFINE E == Elements(tree)
           a == FindBy(tree, n, step.label)
           b == FindById(tree, n, step.label)
           c == ElementChildren(tree, n)
           d == ChildrenBy(tree, n, step.label)
<1>1. a \in Seq(E)
  BY FindByIs
<1>2. b \in Seq(E)
  BY FindByIdIs
<1>3. c \in Seq(E)
  BY ChildrenAre
<1>4. d \in Seq(E)
  <2>1. d = LabelledOf(tree, c, step.label)
    BY DEF ChildrenBy
  <2> HIDE DEF c, d, E
  <2> QED
    BY <1>3, <2>1, LabelledAre
<1>5. GoFrom(tree, n, step) = CASE step.is = "find" -> a [] step.is = "id" -> b
                                [] step.is = "children" -> c [] step.is = "tag" -> IF d # <<>> THEN d ELSE a
  BY DEF GoFrom
<1> HIDE DEF a, b, c, d, E
<1>6. GoFrom(tree, n, step) \in Seq(E)
  BY <1>1, <1>2, <1>3, <1>4, <1>5
<1> QED
  BY <1>6 DEF E

\* A step of a JSoup rule leads to elements.
LEMMA GoIs ==
  ASSUME NEW tree, IsPage(tree), NEW nodes \in Seq(Elements(tree)), NEW step,
         step.is \in {"find", "id", "children", "tag", "index"}
  PROVE  Go(tree, nodes, step) \in Seq(Elements(tree))
<1> DEFINE E == Elements(tree)
           P == {i \in DOMAIN nodes : ((i - 1) \in step.places) # step.exclude}
           s == [i \in DOMAIN nodes |-> GoFrom(tree, nodes[i], step)]
<1>1. Go(tree, nodes, step) = IF step.is = "index" THEN ItemsAt(nodes, P) ELSE FlattenSeq(s)
  BY DEF Go
<1>2. P \subseteq DOMAIN nodes
  OBVIOUS
<1>3. step.is # "index" => s \in Seq(Seq(E))
  <2> SUFFICES ASSUME step.is # "index" PROVE s \in Seq(Seq(E))
    OBVIOUS
  <2>1. \A i \in DOMAIN nodes : GoFrom(tree, nodes[i], step) \in Seq(E)
    BY GoFromIs
  <2>2. Len(nodes) \in Nat /\ DOMAIN nodes = 1 .. Len(nodes)
    OBVIOUS
  <2>3. s = [i \in 1 .. Len(nodes) |-> s[i]] /\ \A i \in 1 .. Len(nodes) : s[i] \in Seq(E)
    BY <2>1, <2>2
  <2> HIDE DEF s, E
  <2> QED
    BY <2>2, <2>3
<1> HIDE DEF P, s, E
<1>4. ItemsAt(nodes, P) \in Seq(E)
  BY <1>2, ItemsAtIs DEF E
<1>5. step.is # "index" => FlattenSeq(s) \in Seq(E)
  BY <1>3, FlattenTyped
<1> QED
  BY <1>1, <1>4, <1>5 DEF E

\* The elements with an attribute, looked for below each of the nodes.
LEMMA HoldersAre ==
  ASSUME NEW tree, IsPage(tree), NEW nodes \in Seq(Elements(tree)), NEW label,
         NEW got, got = FlattenSeq([i \in DOMAIN nodes |-> Holder(tree, nodes[i], label)])
  PROVE  /\ got \in Seq(Elements(tree))
         /\ ToSet(got) = UNION {ToSet(Holder(tree, n, label)) : n \in ToSet(nodes)}
<1> DEFINE E == Elements(tree)
           s == [i \in DOMAIN nodes |-> Holder(tree, nodes[i], label)]
<1>1. /\ \A i \in DOMAIN nodes : Holder(tree, nodes[i], label) \in Seq(E)
      /\ Len(nodes) \in Nat /\ DOMAIN nodes = 1 .. Len(nodes)
  BY FindByIdIs DEF Holder
<1>2. /\ DOMAIN s = 1 .. Len(nodes) /\ \A i \in DOMAIN s : s[i] = Holder(tree, nodes[i], label)
      /\ s = [i \in 1 .. Len(nodes) |-> s[i]] /\ \A i \in DOMAIN s : s[i] \in Seq(E)
  BY <1>1
<1>3. ToSet(nodes) = {nodes[i] : i \in DOMAIN nodes}
  BY DEF ToSet
<1>4. got = FlattenSeq(s)
  OBVIOUS
<1> HIDE DEF s, E
<1>5. s \in Seq(Seq(E))
  BY <1>1, <1>2
<1>6. ToSet(FlattenSeq(s)) = UNION {ToSet(s[i]) : i \in DOMAIN s}
  BY <1>5, FlattenMembers
<1>7. FlattenSeq(s) \in Seq(E)
  BY <1>5, FlattenTyped
<1>8. UNION {ToSet(s[i]) : i \in DOMAIN s} = UNION {ToSet(Holder(tree, n, label)) : n \in ToSet(nodes)}
  BY <1>1, <1>2, <1>3
<1> QED
  BY <1>4, <1>6, <1>7, <1>8 DEF E

\* A step of such a rule.
LEMMA SoupStepIs ==
  ASSUME StepFrame(steps), SoupStep
  PROVE  LET s == steps
             step == s.rule[s.next]
             got == IF step.is = "text" THEN s.nodes
                    ELSE FlattenSeq([i \in DOMAIN s.nodes |-> Holder(s.tree, s.nodes[i], step.label)])
         IN  /\ s.at = "soup" /\ s.next \in 1 .. Len(s.rule) /\ s.rule \in SoupRules
             /\ Extracts(step) =>
                    steps' = StepAt(s.tree, s.rule, "soup", s.next + 1, s.nodes, TRUE, s.results \o got)
             /\ ~Extracts(step) =>
                    steps' = StepAt(s.tree, s.rule, "soup", s.next + 1, Go(s.tree, s.nodes, step),
                                    s.extracted, s.results)
<1> DEFINE s == steps
           step == s.rule[s.next]
           got == IF step.is = "text" THEN s.nodes
                  ELSE FlattenSeq([i \in DOMAIN s.nodes |-> Holder(s.tree, s.nodes[i], step.label)])
           gone == Go(s.tree, s.nodes, step)
           grown == s.results \o got
<1>1. /\ s = StepAt(s.tree, s.rule, s.at, s.next, s.nodes, s.extracted, s.results)
      /\ s.next \in 1 .. Len(s.rule) + 1 /\ Len(s.rule) \in Nat
      /\ s.at \in {"soup", "resort"} => s.rule \in SoupRules
  BY DEF StepFrame
<1>2. s.at = "soup" /\ s.next <= Len(s.rule)
  BY DEF SoupStep
<1>3. steps' = IF Extracts(step)
               THEN [s EXCEPT !.next = s.next + 1, !.extracted = TRUE, !.results = grown]
               ELSE [s EXCEPT !.next = s.next + 1, !.nodes = gone]
  BY DEF SoupStep
<1>4. s.rule \in SoupRules /\ s.next \in 1 .. Len(s.rule)
  BY <1>1, <1>2
<1> HIDE DEF step, got, gone, grown
<1>5. Extracts(step) => steps' = StepAt(s.tree, s.rule, "soup", s.next + 1, s.nodes, TRUE, grown)
  BY <1>1, <1>2, <1>3 DEF StepAt
<1>6. ~Extracts(step) => steps' = StepAt(s.tree, s.rule, "soup", s.next + 1, gone, s.extracted, s.results)
  BY <1>1, <1>2, <1>3 DEF StepAt
<1> QED
  BY <1>2, <1>4, <1>5, <1>6 DEF step, got, gone, grown

\* What a JSoup rule may be.
LEMMA SoupRuleIs ==
  ASSUME NEW rule \in SoupRules
  PROVE  /\ rule \in Paths \union SoupRules /\ rule \notin Paths
         /\ Len(rule) \in Nat \ {0} /\ DOMAIN rule = 1 .. Len(rule)
         /\ \A i \in 1 .. Len(rule) : rule[i].is \in {"find", "id", "children", "tag", "index", "text", "attr"}
<1>1. rule \in Paths \union SoupRules
  OBVIOUS
<1>2. Len(rule) \in Nat \ {0} /\ DOMAIN rule = 1 .. Len(rule)
  BY <1>1, RulesRead
<1>3. \A i \in 1 .. Len(rule) : "axis" \notin DOMAIN rule[i] /\
            rule[i].is \in {"find", "id", "children", "tag", "index", "text", "attr"}
  BY <1>2, RulesRead
<1>4. rule \in Paths => "axis" \in DOMAIN rule[1]
  BY <1>2, RulesRead
<1> QED
  BY <1>1, <1>2, <1>3, <1>4

\* It takes what it has, and what it takes is there.
LEMMA SoupTakes ==
  ASSUME GoodSteps(steps), SoupStep, Extracts(steps.rule[steps.next])
  PROVE  GoodSteps(steps')
<1> DEFINE tree == steps.tree
           rule == steps.rule
           nodes == steps.nodes
           next == steps.next
           step == rule[next]
           held == FlattenSeq([i \in DOMAIN nodes |-> Holder(tree, nodes[i], step.label)])
           got == IF step.is = "text" THEN nodes ELSE held
           results == steps.results \o got
<1>1. /\ StepFrame(steps) /\ SingleInv(steps)
      /\ IsPage(tree) /\ nodes \in Seq(Elements(tree)) /\ steps.results \in Seq(Elements(tree))
  BY DEF GoodSteps, StepFrame
<1>2. /\ steps.at = "soup" /\ next \in 1 .. Len(rule) /\ rule \in SoupRules
      /\ steps' = StepAt(tree, rule, "soup", next + 1, nodes, TRUE, results)
  BY <1>1, SoupStepIs
<1>3. OneStepRule(rule) =>
        LET all == FindBy(tree, 1, rule[1].label)
            took == Taken1(tree, rule, all)
        IN  \/ next = 1 /\ nodes = <<1>> /\ ~steps.extracted /\ steps.results = <<>>
            \/ next = 2 /\ nodes = all /\ ~steps.extracted /\ steps.results = <<>>
            \/ next = 3 /\ nodes = all /\ steps.extracted /\ steps.results = took
  BY <1>1, <1>2 DEF SingleInv
<1>4. Extracts(step)
  OBVIOUS
<1> HIDE DEF tree, rule, nodes, next
<1>5. /\ rule \in Paths \union SoupRules /\ rule \notin Paths /\ Len(rule) \in Nat \ {0}
  BY <1>2, SoupRuleIs
<1>6. held \in Seq(Elements(tree))
  BY <1>1, HoldersAre
<1>7. got \in Seq(Elements(tree))
  <2> HIDE DEF held
  <2> QED
    BY <1>1, <1>6
<1>8. results \in Seq(Elements(tree))
  <2> HIDE DEF got
  <2> QED
    BY <1>1, <1>7, ConcatProperties
<1>9. StepFrame(steps')
  <2> HIDE DEF results
  <2>1. next + 1 \in 1 .. Len(rule) + 1
    BY <1>2, <1>5
  <2>2. StepFrame(StepAt(tree, rule, "soup", next + 1, nodes, TRUE, results))
    BY <1>1, <1>2, <1>5, <1>8, <2>1, FrameOf
  <2> QED
    BY <1>2, <2>2
<1>10. /\ steps'.at = "soup" /\ steps'.rule = rule /\ steps'.tree = tree /\ steps'.next = next + 1
       /\ steps'.nodes = nodes /\ steps'.extracted = TRUE /\ steps'.results = results
  <2> HIDE DEF results
  <2> QED
    BY <1>2 DEF StepAt
<1>11. WalkInv(steps') /\ WalkDone(steps')
  <2> HIDE DEF results
  <2> QED
    BY <1>10 DEF WalkInv, WalkDone
<1>12. SingleInv(steps')
  <2> DEFINE all == FindBy(tree, 1, rule[1].label)
             took == Taken1(tree, rule, all)
  <2> SUFFICES ASSUME OneStepRule(rule)
               PROVE  next + 1 = 3 /\ nodes = all /\ results = took
    <3> HIDE DEF results, took, all
    <3>1. OneStepRule(rule) => next + 1 = 3 /\ nodes = all /\ results = took
      OBVIOUS
    <3> QED
      BY <1>10, <3>1 DEF SingleInv, took, all
  <2>1. Len(rule) = 2 /\ rule[1].is = "find" /\ ~Extracts(rule[1])
    BY DEF OneStepRule, Extracts
  <2>2. next # 1 /\ next # 3
    BY <1>2, <1>4, <2>1
  <2>3. next = 2 /\ nodes = all /\ steps.results = <<>>
    <3> HIDE DEF all
    <3> QED
      BY <1>3, <2>2 DEF all
  <2>4. got = took
    BY <2>3 DEF Taken1
  <2>5. results = got
    <3> HIDE DEF got
    <3> QED
      BY <1>7, <2>3
  <2> QED
    BY <2>3, <2>4, <2>5
<1> QED
  BY <1>9, <1>11, <1>12 DEF GoodSteps

\* It goes on.
LEMMA SoupGoes ==
  ASSUME GoodSteps(steps), SoupStep, ~Extracts(steps.rule[steps.next])
  PROVE  GoodSteps(steps')
<1> DEFINE tree == steps.tree
           rule == steps.rule
           nodes == steps.nodes
           next == steps.next
           step == rule[next]
           gone == Go(tree, nodes, step)
<1>1. /\ StepFrame(steps) /\ SingleInv(steps)
      /\ IsPage(tree) /\ nodes \in Seq(Elements(tree)) /\ steps.results \in Seq(Elements(tree))
  BY DEF GoodSteps, StepFrame
<1>2. /\ steps.at = "soup" /\ next \in 1 .. Len(rule) /\ rule \in SoupRules
      /\ steps' = StepAt(tree, rule, "soup", next + 1, gone, steps.extracted, steps.results)
  BY <1>1, SoupStepIs
<1>3. OneStepRule(rule) =>
        LET all == FindBy(tree, 1, rule[1].label)
            took == Taken1(tree, rule, all)
        IN  \/ next = 1 /\ nodes = <<1>> /\ ~steps.extracted /\ steps.results = <<>>
            \/ next = 2 /\ nodes = all /\ ~steps.extracted /\ steps.results = <<>>
            \/ next = 3 /\ nodes = all /\ steps.extracted /\ steps.results = took
  BY <1>1, <1>2 DEF SingleInv
<1>4. ~Extracts(step)
  OBVIOUS
<1> HIDE DEF tree, rule, nodes, next
<1>5. /\ rule \in Paths \union SoupRules /\ rule \notin Paths /\ Len(rule) \in Nat \ {0}
      /\ step.is \in {"find", "id", "children", "tag", "index", "text", "attr"}
  BY <1>2, SoupRuleIs
<1>6. gone \in Seq(Elements(tree))
  <2>1. step.is \in {"find", "id", "children", "tag", "index"}
    BY <1>4, <1>5 DEF Extracts
  <2> HIDE DEF step
  <2> QED
    BY <1>1, <2>1, GoIs
<1>7. StepFrame(steps')
  <2> HIDE DEF gone
  <2>1. next + 1 \in 1 .. Len(rule) + 1
    BY <1>2, <1>5
  <2>2. StepFrame(StepAt(tree, rule, "soup", next + 1, gone, steps.extracted, steps.results))
    BY <1>1, <1>2, <1>5, <1>6, <2>1, FrameOf
  <2> QED
    BY <1>2, <2>2
<1>8. /\ steps'.at = "soup" /\ steps'.rule = rule /\ steps'.tree = tree /\ steps'.next = next + 1
      /\ steps'.nodes = gone /\ steps'.extracted = steps.extracted /\ steps'.results = steps.results
  <2> HIDE DEF gone
  <2> QED
    BY <1>2 DEF StepAt
<1>9. WalkInv(steps') /\ WalkDone(steps')
  BY <1>8 DEF WalkInv, WalkDone
<1>10. SingleInv(steps')
  <2> DEFINE all == FindBy(tree, 1, rule[1].label)
  <2> SUFFICES ASSUME OneStepRule(rule)
               PROVE  next + 1 = 2 /\ gone = all /\ ~steps.extracted /\ steps.results = <<>>
    <3> HIDE DEF gone, all
    <3>1. OneStepRule(rule) => next + 1 = 2 /\ gone = all /\ ~steps.extracted /\ steps.results = <<>>
      OBVIOUS
    <3> QED
      BY <1>8, <3>1 DEF SingleInv, all
  <2>1. Len(rule) = 2 /\ rule[1].is = "find" /\ Extracts(rule[2])
    BY DEF OneStepRule
  <2>2. next # 2 /\ next # 3
    BY <1>2, <1>4, <2>1
  <2>3. next = 1 /\ nodes = <<1>> /\ ~steps.extracted /\ steps.results = <<>>
    BY <1>3, <2>2
  <2>4. gone = FlattenSeq([i \in DOMAIN <<1>> |-> GoFrom(tree, <<1>>[i], rule[1])])
    BY <2>1, <2>3 DEF Go
  <2>5. [i \in DOMAIN <<1>> |-> GoFrom(tree, <<1>>[i], rule[1])] = <<GoFrom(tree, 1, rule[1])>>
    OBVIOUS
  <2>6. GoFrom(tree, 1, rule[1]) = all
    BY <2>1 DEF GoFrom
  <2>7. all \in Seq(Elements(tree))
    BY <1>1, PageIs, FindByIs
  <2>8. FlattenSeq(<<all>>) = all
    <3> HIDE DEF all
    <3> QED
      BY <2>7, FlattenFew
  <2> HIDE DEF all, gone
  <2> QED
    BY <2>3, <2>4, <2>5, <2>6, <2>8
<1> QED
  BY <1>7, <1>9, <1>10 DEF GoodSteps

\* The end of the steps, and the last resort.
LEMMA SoupEndsKeeps ==
  ASSUME GoodSteps(steps), SoupEnds
  PROVE  GoodSteps(steps')
<1> DEFINE tree == steps.tree
           rule == steps.rule
           nodes == steps.nodes
           next == steps.next
           results == IF steps.extracted THEN steps.results ELSE nodes
           at == IF results = <<>> THEN "resort" ELSE "done"
<1>1. /\ StepFrame(steps) /\ SingleInv(steps)
      /\ IsPage(tree) /\ nodes \in Seq(Elements(tree)) /\ steps.results \in Seq(Elements(tree))
      /\ steps = StepAt(tree, rule, steps.at, next, nodes, steps.extracted, steps.results)
      /\ next \in 1 .. Len(rule) + 1 /\ Len(rule) \in Nat
      /\ steps.at \in {"soup", "resort"} => rule \in SoupRules
  BY DEF GoodSteps, StepFrame
<1>2. /\ steps.at = "soup" /\ (next > Len(rule) \/ nodes = <<>>)
      /\ steps' = [steps EXCEPT !.results = results, !.at = at]
  BY DEF SoupEnds
<1>3. OneStepRule(rule) =>
        LET all == FindBy(tree, 1, rule[1].label)
            took == Taken1(tree, rule, all)
        IN  \/ next = 1 /\ nodes = <<1>> /\ ~steps.extracted /\ steps.results = <<>>
            \/ next = 2 /\ nodes = all /\ ~steps.extracted /\ steps.results = <<>>
            \/ next = 3 /\ nodes = all /\ steps.extracted /\ steps.results = took
  BY <1>1, <1>2 DEF SingleInv
<1>4. results \in Seq(Elements(tree))
  BY <1>1
<1>5. steps' = StepAt(tree, rule, at, next, nodes, steps.extracted, results)
  <2> HIDE DEF results, at
  <2> QED
    BY <1>1, <1>2 DEF StepAt
<1> HIDE DEF tree, rule, nodes, next
<1>6. rule \in SoupRules
  BY <1>1, <1>2
<1>7. /\ rule \in Paths \union SoupRules /\ rule \notin Paths /\ Len(rule) \in Nat \ {0}
  BY <1>6, SoupRuleIs
<1>8. StepFrame(steps')
  <2>1. at \in {"xpath", "soup", "resort", "done"} /\ at # "xpath"
    OBVIOUS
  <2> HIDE DEF results, at
  <2>2. StepFrame(StepAt(tree, rule, at, next, nodes, steps.extracted, results))
    BY <1>1, <1>4, <1>6, <1>7, <2>1, FrameOf
  <2> QED
    BY <1>5, <2>2
<1>9. steps'.at = at /\ steps'.rule = rule /\ steps'.tree = tree /\ steps'.results = results
  <2> HIDE DEF results, at
  <2> QED
    BY <1>5 DEF StepAt
<1>10. WalkInv(steps') /\ WalkDone(steps')
  <2>1. at # "xpath"
    OBVIOUS
  <2> HIDE DEF results, at
  <2> QED
    BY <1>7, <1>9, <2>1 DEF WalkInv, WalkDone
<1>11. SingleInv(steps')
  <2> DEFINE all == FindBy(tree, 1, rule[1].label)
             took == Taken1(tree, rule, all)
  <2>1. OneStepRule(rule) => results = took
    <3> SUFFICES ASSUME OneStepRule(rule) PROVE results = took
      OBVIOUS
    <3>2. CASE next = 1
      <4>1. Len(rule) = 2
        BY DEF OneStepRule
      <4>2. nodes = <<1>>
        <5> HIDE DEF all, took
        <5> QED
          BY <1>3, <3>2
      <4> QED
        BY <1>2, <3>2, <4>1, <4>2
    <3>3. CASE next = 2
      <4>1. nodes = all /\ ~steps.extracted /\ Len(rule) = 2
        <5>1. Len(rule) = 2
          BY DEF OneStepRule
        <5> QED
          BY <1>3, <3>3, <5>1
      <4>2. all = <<>>
        BY <1>2, <3>3, <4>1
      <4>3. took = <<>>
        <5>1. FlattenSeq([i \in DOMAIN <<>> |-> Holder(tree, <<>>[i], rule[2].label)]) = <<>>
          <6>1. [i \in DOMAIN <<>> |-> Holder(tree, <<>>[i], rule[2].label)] = <<>>
            OBVIOUS
          <6> QED
            BY <6>1, FlattenFew
        <5> QED
          BY <4>2, <5>1 DEF Taken1
      <4> QED
        BY <4>1, <4>2, <4>3
    <3>4. CASE next = 3
      <4>1. steps.extracted /\ steps.results = took
        <5> HIDE DEF took, all
        <5> QED
          BY <1>3, <3>4 DEF took, all
      <4> QED
        BY <4>1
    <3> HIDE DEF results, all, took
    <3> QED
      BY <1>3, <3>2, <3>3, <3>4
  <2>2. (at = "resort" /\ results = <<>>) \/ at = "done"
    OBVIOUS
  <2> HIDE DEF results, at, took, all
  <2> QED
    BY <1>9, <2>1, <2>2 DEF SingleInv, took, all
<1> QED
  BY <1>8, <1>10, <1>11 DEF GoodSteps

\* A last step that found nothing is looked for once more among the attributes.
LEMMA ResortKeeps ==
  ASSUME GoodSteps(steps), Resort
  PROVE  GoodSteps(steps')
<1> DEFINE tree == steps.tree
           rule == steps.rule
           nodes == steps.nodes
           next == steps.next
           first == rule[1]
           last == rule[Len(rule)]
           named == first.is \in {"find", "id", "tag"}
           single == \A i \in 2 .. Len(rule) : rule[i].is = "index"
           indexed == Len(rule) > 1 /\ rule[2].is = "index" /\ ~rule[2].exclude
           got == IF ~named \/ indexed \/ ~(single \/ Extracts(last)) THEN <<>>
                  ELSE FindBy(tree, 1, first.label)
           results == IF last.is = "attr" THEN LabelledOf(tree, got, last.label) ELSE got
<1>1. /\ StepFrame(steps) /\ SingleInv(steps)
      /\ IsPage(tree) /\ nodes \in Seq(Elements(tree))
      /\ steps = StepAt(tree, rule, steps.at, next, nodes, steps.extracted, steps.results)
      /\ next \in 1 .. Len(rule) + 1
      /\ steps.at \in {"soup", "resort"} => rule \in SoupRules
  BY DEF GoodSteps, StepFrame
<1>2. steps.at = "resort" /\ steps' = [steps EXCEPT !.at = "done", !.results = results]
  BY DEF Resort
<1>3. OneStepRule(rule) => Taken1(tree, rule, FindBy(tree, 1, rule[1].label)) = <<>>
  BY <1>1, <1>2 DEF SingleInv
<1>4. steps' = StepAt(tree, rule, "done", next, nodes, steps.extracted, results)
  <2> HIDE DEF results
  <2> QED
    BY <1>1, <1>2 DEF StepAt
<1> HIDE DEF tree, rule, nodes, next
<1>5. rule \in SoupRules
  BY <1>1, <1>2
<1>6. /\ rule \in Paths \union SoupRules /\ rule \notin Paths /\ Len(rule) \in Nat \ {0}
  BY <1>5, SoupRuleIs
<1>7. got \in Seq(Elements(tree))
  <2>1. FindBy(tree, 1, first.label) \in Seq(Elements(tree))
    BY <1>1, PageIs, FindByIs
  <2>2. <<>> \in Seq(Elements(tree))
    OBVIOUS
  <2> HIDE DEF named, indexed, single, first
  <2> QED
    BY <2>1, <2>2
<1>8. results \in Seq(Elements(tree))
  <2> HIDE DEF got
  <2>1. LabelledOf(tree, got, last.label) \in Seq(Elements(tree))
    BY <1>7, LabelledAre
  <2> QED
    BY <1>7, <2>1
<1>9. StepFrame(steps')
  <2> HIDE DEF results
  <2>1. StepFrame(StepAt(tree, rule, "done", next, nodes, steps.extracted, results))
    BY <1>1, <1>6, <1>8, FrameOf
  <2> QED
    BY <1>4, <2>1
<1>10. steps'.at = "done" /\ steps'.rule = rule /\ steps'.tree = tree /\ steps'.results = results
  <2> HIDE DEF results
  <2> QED
    BY <1>4 DEF StepAt
<1>11. WalkInv(steps') /\ WalkDone(steps')
  <2> HIDE DEF results
  <2> QED
    BY <1>6, <1>10 DEF WalkInv, WalkDone
<1>12. SingleInv(steps')
  <2> DEFINE all == FindBy(tree, 1, rule[1].label)
             took == Taken1(tree, rule, all)
  <2>1. OneStepRule(rule) =>
          \/ results = took
          \/ took = <<>> /\ rule[2].is = "attr" /\ results = LabelledOf(tree, all, rule[2].label)
    <3> SUFFICES ASSUME OneStepRule(rule)
                 PROVE  \/ results = took
                        \/ took = <<>> /\ rule[2].is = "attr" /\ results = LabelledOf(tree, all, rule[2].label)
      OBVIOUS
    <3>1. /\ Len(rule) = 2 /\ rule[1].is = "find" /\ Extracts(rule[2])
          /\ rule[2].is # "index" /\ rule[2].is \in {"text", "attr"}
      BY DEF OneStepRule, Extracts
    <3>2. got = all
      <4>1. named /\ ~indexed /\ Extracts(last)
        BY <3>1
      <4> HIDE DEF named, indexed, single, last
      <4> QED
        BY <4>1
    <3>3. took = <<>>
      BY <1>3
    <3>4. rule[2].is = "attr" => results = LabelledOf(tree, all, rule[2].label)
      <4> HIDE DEF got, all
      <4> QED
        BY <3>1, <3>2
    <3>5. rule[2].is = "text" => results = got /\ took = all
      <4> HIDE DEF got, all
      <4> QED
        BY <3>1 DEF Taken1
    <3> HIDE DEF results, took, all, got
    <3> QED
      BY <3>1, <3>2, <3>3, <3>4, <3>5
  <2> HIDE DEF results, took, all
  <2> QED
    BY <1>10, <2>1 DEF SingleInv, took, all
<1> QED
  BY <1>9, <1>11, <1>12 DEF GoodSteps

\* Every step.
LEMMA StepsGoOn ==
  ASSUME StepInv, [StepNext]_stepVars PROVE StepInv'
<1> USE DEF StepInv
<1>1. CASE PathStep
  BY <1>1, PathTakes, PathGoes
<1>2. CASE PathEnds
  BY <1>2, PathEndsKeeps
<1>3. CASE SoupStep
  BY <1>3, SoupTakes, SoupGoes
<1>4. CASE SoupEnds
  BY <1>4, SoupEndsKeeps
<1>5. CASE Resort
  BY <1>5, ResortKeeps
<1>6. CASE UNCHANGED stepVars
  <2>1. steps' = steps
    BY <1>6 DEF stepVars
  <2> QED
    BY <2>1
<1> QED
  BY <1>1, <1>2, <1>3, <1>4, <1>5, <1>6 DEF StepNext

\* What the invariant says of the types.
LEMMA StepsTyped == StepInv => StepTypeOK
BY DEF StepInv, GoodSteps, StepFrame, StepTypeOK

\* What has been found is where the path leads.
LEMMA PathsLead == StepInv => PathsAreFollowed
<1> DEFINE tree == steps.tree
           rule == steps.rule
           n == Len(rule)
           before == SubSeq(rule, 1, n - 1)
           last == rule[n].axis
<1> SUFFICES ASSUME StepInv, steps.at = "done", IsPath,
                    \A i \in 1 .. n - 1 : rule[i].axis \notin {"text()", "@"}
             PROVE  /\ IsInjective(steps.results)
                    /\ ToSet(steps.results) =
                        IF last = "text()" THEN Reached(tree, before)
                        ELSE IF last = "@" THEN {m \in Reached(tree, before) : Labelled(tree, m, rule[n].test)}
                        ELSE Reached(tree, rule)
  BY DEF PathsAreFollowed
<1>1. StepFrame(steps) /\ WalkDone(steps)
  BY DEF StepInv, GoodSteps
<1>2. IsPage(tree) /\ rule \in Paths \union SoupRules
  BY <1>1 DEF StepFrame
<1>3. rule # <<>> /\ "axis" \in DOMAIN rule[1]
  BY DEF IsPath
<1> HIDE DEF tree
<1>4. n \in Nat \ {0} /\ DOMAIN rule = 1 .. n /\ rule \in Seq(ToSet(rule))
  BY <1>2, RulesRead
<1>5. rule \in Paths
  BY <1>2, <1>3, <1>4, RulesRead
<1>6. \A i \in 1 .. n : rule[i].axis \in WalkAxes \union {"text()", "@"}
  BY <1>4, <1>5, RulesRead
<1>7. EndsWell(rule)
  BY DEF EndsWell
<1>8. /\ IsInjective(steps.results)
      /\ \A f : Leading(f, tree, rule, Strides(rule)) => ToSet(steps.results) = Told(tree, rule, f)
  BY <1>1, <1>5, <1>7 DEF WalkDone, tree
<1>9. CASE last \in {"text()", "@"}
  <2>1. Strides(rule) = n - 1 /\ n - 1 \in Nat
    BY <1>4, <1>9 DEF Strides
  <2>2. \A i \in 1 .. n - 1 : rule[i].axis \in WalkAxes
    BY <1>4, <1>6
  <2>3. PICK f : Leading(f, tree, rule, n - 1)
    BY <1>2, <2>1, <2>2, LeadingExists
  <2>4. Len(before) = n - 1 /\ \A i \in 1 .. n - 1 : before[i] = rule[i]
    <3> DEFINE T == ToSet(rule)
    <3>1. rule \in Seq(T)
      BY <1>4
    <3> HIDE DEF T
    <3>2. 1 \in 1 .. n /\ n - 1 \in 0 .. n
      BY <1>4
    <3> QED
      BY <1>4, <3>1, <3>2
  <2>5. Leading(f, tree, before, n - 1)
    BY <2>3, <2>4 DEF Leading
  <2>6. Reached(tree, before) = f[n - 1]
    <3> HIDE DEF before
    <3>1. Len(before) \in Nat /\ Leading(f, tree, before, Len(before))
      BY <2>1, <2>4, <2>5
    <3>2. Reached(tree, before) = f[Len(before)]
      BY <3>1, ReachedIs
    <3> QED
      BY <2>4, <3>2
  <2>7. ToSet(steps.results) = Told(tree, rule, f)
    BY <1>8, <2>1, <2>3
  <2> QED
    BY <1>8, <1>9, <2>1, <2>6, <2>7 DEF Told
<1>10. CASE last \notin {"text()", "@"}
  <2>1. Strides(rule) = n
    BY <1>10 DEF Strides
  <2>2. \A i \in 1 .. n : rule[i].axis \in WalkAxes
    BY <1>4, <1>6, <1>10
  <2>3. PICK f : Leading(f, tree, rule, n)
    BY <1>2, <1>4, <2>2, LeadingExists
  <2>4. Reached(tree, rule) = f[n]
    BY <1>4, <2>3, ReachedIs
  <2>5. ToSet(steps.results) = Told(tree, rule, f)
    BY <1>8, <2>1, <2>3
  <2> QED
    BY <1>8, <1>10, <2>1, <2>4, <2>5 DEF Told
<1> QED
  BY <1>9, <1>10

\* A rule of one step takes what it says.
LEMMA SinglesAreExact == StepInv => SingleStepsAreExact
<1> DEFINE tree == steps.tree
           rule == steps.rule
           all == FindBy(tree, 1, rule[1].label)
           label == rule[2].label
           took == Taken1(tree, rule, all)
<1> SUFFICES ASSUME StepInv, steps.at = "done", Len(rule) = 2, ~IsPath, rule[1].is = "find",
                    Extracts(rule[2])
             PROVE  /\ rule[2].is = "text" => steps.results = all
                    /\ rule[2].is = "attr" =>
                        ToSet(steps.results) = {m \in Elements(tree) :
                            Labelled(tree, m, label) /\ \E n \in ToSet(all) : <<m>> = Holder(tree, n, label)}
  BY DEF SingleStepsAreExact
<1>1. StepFrame(steps) /\ SingleInv(steps)
  BY DEF StepInv, GoodSteps
<1>2. IsPage(tree) /\ rule \in Paths \union SoupRules
  BY <1>1 DEF StepFrame
<1>3. rule # <<>>
  BY <1>2, RulesRead
<1>4. rule \notin Paths
  BY <1>2, <1>3, RulesRead DEF IsPath
<1>5. OneStepRule(rule)
  BY <1>2, <1>4 DEF OneStepRule
<1>6. \/ steps.results = took
      \/ took = <<>> /\ rule[2].is = "attr" /\ steps.results = LabelledOf(tree, all, label)
  BY <1>1, <1>5 DEF SingleInv
<1> HIDE DEF tree, rule
<1>7. all \in Seq(Elements(tree))
  BY <1>2, PageIs, FindByIs
<1> DEFINE held == FlattenSeq([i \in DOMAIN all |-> Holder(tree, all[i], label)])
<1>8. took = IF rule[2].is = "text" THEN all ELSE held
  BY DEF Taken1
<1> HIDE DEF all, took
<1> HIDE DEF label
<1>9. ToSet(held) = UNION {ToSet(Holder(tree, n, label)) : n \in ToSet(all)}
  BY <1>2, <1>7, HoldersAre
<1>10. ToSet(all) \subseteq Elements(tree)
  BY <1>7 DEF ToSet
<1>11. \A n \in Elements(tree) :
          /\ Holder(tree, n, label) = <<>> \/ \E m \in Elements(tree) :
                Labelled(tree, m, label) /\ Holder(tree, n, label) = <<m>>
          /\ Labelled(tree, n, label) => Holder(tree, n, label) = <<n>>
  BY <1>2, FindByIdIs DEF Holder
<1> DEFINE right == {m \in Elements(tree) :
                        Labelled(tree, m, label) /\ \E n \in ToSet(all) : <<m>> = Holder(tree, n, label)}
<1> HIDE DEF held
<1>12. \A m : ToSet(<<m>>) = {m}
  BY DEF ToSet
<1>13. ToSet(<<>>) = {}
  BY DEF ToSet
<1>14. ToSet(held) = right
  <2>1. ASSUME NEW m \in ToSet(held) PROVE m \in right
    <3>1. PICK n \in ToSet(all) : m \in ToSet(Holder(tree, n, label))
      BY <1>9
    <3>2. PICK k \in Elements(tree) : Labelled(tree, k, label) /\ Holder(tree, n, label) = <<k>>
      BY <1>10, <1>11, <1>13, <3>1
    <3>3. k = m
      BY <1>12, <3>1, <3>2
    <3> QED
      BY <3>1, <3>2, <3>3
  <2>2. ASSUME NEW m \in right PROVE m \in ToSet(held)
    <3>1. PICK n \in ToSet(all) : <<m>> = Holder(tree, n, label)
      OBVIOUS
    <3>2. m \in ToSet(Holder(tree, n, label))
      BY <1>12, <3>1
    <3> QED
      BY <1>9, <3>1, <3>2
  <2> QED
    BY <2>1, <2>2
<1>15. rule[2].is = "attr" => ToSet(steps.results) = right
  <2> SUFFICES ASSUME rule[2].is = "attr" PROVE ToSet(steps.results) = right
    OBVIOUS
  <2>1. took = held
    BY <1>8
  <2>2. CASE steps.results = took
    BY <1>14, <2>1, <2>2
  <2>3. CASE took = <<>> /\ steps.results = LabelledOf(tree, all, label)
    <3>1. right = {}
      BY <1>13, <1>14, <2>1, <2>3
    <3>2. ASSUME NEW m \in ToSet(LabelledOf(tree, all, label)) PROVE FALSE
      <4>1. m \in ToSet(all) /\ Labelled(tree, m, label)
        BY <1>7, LabelledAre
      <4>2. m \in Elements(tree) /\ Holder(tree, m, label) = <<m>>
        BY <1>10, <1>11, <4>1
      <4>3. m \in right
        BY <4>1, <4>2
      <4> QED
        BY <3>1, <4>3
    <3> QED
      BY <2>3, <3>1, <3>2
  <2> HIDE DEF right
  <2> QED
    BY <1>6, <2>2, <2>3
<1>16. rule[2].is = "text" => steps.results = all
  BY <1>6, <1>8
<1> QED
  BY <1>15, <1>16

-----------------------------------------------------------------------------
(* JSON paths. *)

\* Multiples and remainders.
LEMMA DivMod ==
  ASSUME NEW s \in Nat \ {0}, NEW d \in Nat
  PROVE  d \div s \in Nat /\ d % s \in 0 .. s - 1 /\ d = s * (d \div s) + (d % s)
OBVIOUS

\* Multiples leave no remainder.
LEMMA MultipleMod ==
  ASSUME NEW s \in Nat \ {0}, NEW j \in Nat
  PROVE  (s * j) % s = 0
<1> DEFINE d == s * j
           q == d \div s
           r == d % s
<1>1. d \in Nat
  OBVIOUS
<1>2. q \in Nat /\ r \in 0 .. s - 1 /\ d = s * q + r
  <2> HIDE DEF d
  <2> QED
    BY <1>1, DivMod
<1>3. r = s * (j - q)
  <2>1. d = s * j
    OBVIOUS
  <2> HIDE DEF d, q, r
  <2> QED
    BY <1>2, <2>1
<1> HIDE DEF q, r, d
<1>4. j - q = 0
  <2>1. j - q >= 1 => s * (j - q) >= s
    BY <1>2
  <2>2. j - q <= -1 => s * (j - q) < 0
    BY <1>2
  <2> QED
    BY <1>2, <1>3, <2>1, <2>2
<1> QED
  BY <1>3, <1>4 DEF r, d

\* The larger of two numbers ...
LEMMA MaxOf ==
  ASSUME NEW a \in Int, NEW b \in Int
  PROVE  Max({a, b}) = IF a >= b THEN a ELSE b
<1>1. Max({a, b}) = CHOOSE x \in {a, b} : \A y \in {a, b} : x >= y
  BY DEF Max
<1>2. CASE a >= b
  BY <1>1, <1>2
<1>3. CASE ~(a >= b)
  BY <1>1, <1>3
<1> QED
  BY <1>2, <1>3

\* ... and the smaller.
LEMMA MinOf ==
  ASSUME NEW a \in Int, NEW b \in Int
  PROVE  Min({a, b}) = IF a <= b THEN a ELSE b
<1>1. Min({a, b}) = CHOOSE x \in {a, b} : \A y \in {a, b} : x <= y
  BY DEF Min
<1>2. CASE a <= b
  BY <1>1, <1>2
<1>3. CASE ~(a <= b)
  BY <1>1, <1>3
<1> QED
  BY <1>2, <1>3

\* A product grows with its factors.
LEMMA ProductGrows ==
  ASSUME NEW s \in Nat, NEW a \in Nat, NEW b \in Nat, a <= b
  PROVE  s * a <= s * b
OBVIOUS

\* The places a slice with these bounds takes.
SliceMap(g, count, first, end, step) ==
    /\ \A k \in 1 .. count : g[k] \in first + 1 .. end /\ (g[k] - 1 - first) % step = 0
    /\ \A k, m \in 1 .. count : k < m => g[k] < g[m]
    /\ \A i \in first + 1 .. end : (i - 1 - first) % step = 0 => \E k \in 1 .. count : g[k] = i

\* The places of a slice are those that a step reaches.
LEMMA SliceSteps ==
  ASSUME NEW first \in Nat, NEW end \in Int, NEW step \in Nat \ {0},
         NEW count, count = IF first < end THEN (end - first + step - 1) \div step ELSE 0,
         NEW g, g = [k \in 1 .. count |-> first + (k - 1) * step + 1]
  PROVE  count \in Nat /\ SliceMap(g, count, first, end, step)
<1> SUFFICES /\ count \in Nat
             /\ \A k \in 1 .. count : g[k] \in first + 1 .. end /\ (g[k] - 1 - first) % step = 0
             /\ \A k, m \in 1 .. count : k < m => g[k] < g[m]
             /\ \A i \in first + 1 .. end : (i - 1 - first) % step = 0 => \E k \in 1 .. count : g[k] = i
  BY Zenon DEF SliceMap
<1>1. CASE ~(first < end)
  <2>1. count = 0
    BY <1>1
  <2>2. first + 1 .. end = {} /\ 1 .. count = {}
    BY <1>1, <2>1
  <2> QED
    BY <2>1, <2>2
<1>2. CASE first < end
  <2> DEFINE d == end - first + step - 1
             r == d % step
  <2>1. d \in Nat /\ count = d \div step
    BY <1>2
  <2>2. count \in Nat /\ r \in 0 .. step - 1 /\ d = step * count + r
    <3> HIDE DEF d
    <3> QED
      BY <2>1, DivMod
  <2>3. d = end - first + step - 1
    OBVIOUS
  <2> HIDE DEF d, r
  <2>4. \A k \in 1 .. count : k - 1 \in Nat /\ g[k] = first + step * (k - 1) + 1
    BY <2>2
  <2>5. step * count <= end - first + step - 1 /\ end - first <= step * count
    BY <2>2, <2>3
  <2>6. ASSUME NEW k \in 1 .. count
        PROVE  g[k] \in first + 1 .. end /\ (g[k] - 1 - first) % step = 0
    <3> DEFINE j == k - 1
    <3>1. j \in Nat /\ g[k] = first + step * j + 1 /\ j + 1 <= count
      BY <2>2, <2>4
    <3> HIDE DEF j
    <3>2. step * (j + 1) <= step * count /\ step * (j + 1) = step * j + step
      <4>1. j + 1 \in Nat /\ count \in Nat /\ j + 1 <= count
        BY <2>2, <3>1
      <4>2. step * (j + 1) <= step * count
        BY <4>1, ProductGrows
      <4>3. step * (j + 1) = step * j + step
        BY <3>1
      <4> QED
        BY <4>2, <4>3
    <3>3. step * j \in Nat
      BY <3>1
    <3> DEFINE p == step * j
    <3>4. g[k] \in first + 1 .. end
      <4>1. p \in Nat /\ g[k] = first + p + 1 /\ p + step <= step * count
        BY <3>1, <3>2, <3>3
      <4> HIDE DEF p
      <4> DEFINE c == step * count
      <4>2. c \in Int /\ p + step <= c /\ c <= end - first + step - 1
        BY <2>2, <2>5, <4>1
      <4> HIDE DEF c
      <4> QED
        BY <4>1, <4>2
    <3>5. g[k] - 1 - first = step * j
      BY <3>1, <3>3
    <3>6. (step * j) % step = 0
      BY <3>1, MultipleMod
    <3> QED
      BY <3>4, <3>5, <3>6
  <2>7. ASSUME NEW k \in 1 .. count, NEW m \in 1 .. count, k < m PROVE g[k] < g[m]
    <3>1. step * (k - 1) < step * (m - 1)
      BY <2>2, <2>7
    <3>2. step * (k - 1) \in Int /\ step * (m - 1) \in Int
      BY <2>2
    <3> QED
      BY <2>4, <3>1, <3>2
  <2>8. ASSUME NEW i \in first + 1 .. end, (i - 1 - first) % step = 0 PROVE \E k \in 1 .. count : g[k] = i
    <3> DEFINE e == i - 1 - first
               q == e \div step
    <3>1. e \in Nat /\ e + 1 <= end - first /\ e % step = 0 /\ i = first + e + 1
      BY <2>8
    <3>2. q \in Nat /\ e = step * q
      <4>1. e \in Nat /\ e % step = 0
        BY <3>1
      <4> HIDE DEF e
      <4>2. q \in Nat /\ e = step * q + (e % step)
        BY <4>1, DivMod
      <4> QED
        BY <4>1, <4>2
    <3> HIDE DEF e, q
    <3>3. q + 1 <= count
      <4> SUFFICES ASSUME count <= q PROVE FALSE
        BY <2>2, <3>2
      <4>1. step * count <= step * q
        BY <2>2, <3>2
      <4> DEFINE c == step * count
      <4>2. c \in Int /\ c <= e /\ end - first <= c
        BY <2>2, <2>5, <3>2, <4>1
      <4> HIDE DEF c
      <4> QED
        BY <3>1, <4>2
    <3>4. q + 1 \in 1 .. count /\ (q + 1) - 1 = q
      BY <2>2, <3>2, <3>3
    <3>5. g[q + 1] = first + step * q + 1
      BY <2>4, <3>4
    <3> QED
      BY <3>1, <3>2, <3>4, <3>5
  <2> QED
    BY <2>2, <2>6, <2>7, <2>8
<1> QED
  BY <1>1, <1>2

\* A slice takes elements of the array, and, with its bounds written, those between them.
LEMMA BoundIs ==
  ASSUME NEW b, NEW allowed, IsBound(b, allowed), b # Open
  PROVE  b[1] \in allowed
BY DEF IsBound

SliceStep(t) == IF t.step = Open THEN 1 ELSE t.step[1]
SlicePlaces(t, n) ==
    LET from == IF t.from[1] < 0 THEN n + t.from[1] ELSE t.from[1]
        to == IF t.to[1] < 0 THEN n + t.to[1] ELSE t.to[1] IN
    {i \in 1 .. n : /\ i > from /\ i <= to /\ (i - 1 - Max({from, 0})) % t.step[1] = 0}

\* The bounds of a slice are within the list, or before it.
LEMMA SliceBounds ==
  ASSUME NEW t, IsBound(t.from, Int), IsBound(t.to, Int), IsBound(t.step, Nat \ {0}), NEW n \in Nat
  PROVE  /\ SliceBegin(t.from, n) \in Nat /\ SliceEnd(t.to, n) \in Int /\ SliceEnd(t.to, n) <= n
         /\ SliceStep(t) \in Nat \ {0}
<1>1. SliceBegin(t.from, n) \in Nat
  <2>1. CASE t.from = Open
    BY <2>1 DEF SliceBegin
  <2>2. CASE t.from # Open
    <3>1. t.from[1] \in Int
      BY <2>2, BoundIs
    <3>2. Max({0, t.from[1] + n}) \in Nat
      <4>1. t.from[1] + n \in Int
        BY <3>1
      <4> QED
        BY <4>1, MaxOf
    <3> QED
      BY <2>2, <3>1, <3>2 DEF SliceBegin
  <2> QED
    BY <2>1, <2>2
<1>2. SliceEnd(t.to, n) \in Int /\ SliceEnd(t.to, n) <= n
  <2>1. CASE t.to = Open
    BY <2>1 DEF SliceEnd
  <2>2. CASE t.to # Open
    <3>1. t.to[1] \in Int
      BY <2>2, BoundIs
    <3>2. Min({t.to[1], n}) \in Int /\ Min({t.to[1], n}) <= n
      BY <3>1, MinOf
    <3> QED
      BY <2>2, <3>1, <3>2 DEF SliceEnd
  <2> QED
    BY <2>1, <2>2
<1>3. SliceStep(t) \in Nat \ {0}
  BY BoundIs DEF SliceStep
<1> QED
  BY <1>1, <1>2, <1>3

\* A slice of an array is the items at its places.
LEMMA SlicedIs ==
  ASSUME NEW X, NEW items \in Seq(X), NEW t,
         IsBound(t.from, Int), IsBound(t.to, Int), IsBound(t.step, Nat \ {0})
  PROVE  /\ Sliced(items, t) \in Seq(X)
         /\ Open \notin {t.from, t.to, t.step} =>
                Sliced(items, t) = ItemsAt(items, SlicePlaces(t, Len(items)))
<1> DEFINE n == Len(items)
           first == SliceBegin(t.from, n)
           end == SliceEnd(t.to, n)
           step == SliceStep(t)
           count == IF first < end THEN (end - first + step - 1) \div step ELSE 0
           g == [k \in 1 .. count |-> first + (k - 1) * step + 1]
<1>1. Sliced(items, t) = [k \in 1 .. count |-> items[first + (k - 1) * step + 1]]
  BY DEF Sliced, SliceStep
<1>2. n \in Nat /\ items \in [1 .. n -> X]
  OBVIOUS
<1>3. first \in Nat /\ end \in Int /\ end <= n /\ step \in Nat \ {0}
  BY <1>2, SliceBounds
<1> HIDE DEF first, end, step
<1>4. /\ count \in Nat
      /\ \A k \in 1 .. count : g[k] \in first + 1 .. end /\ (g[k] - 1 - first) % step = 0
      /\ \A k, m \in 1 .. count : k < m => g[k] < g[m]
      /\ \A i \in first + 1 .. end : (i - 1 - first) % step = 0 => \E k \in 1 .. count : g[k] = i
  <2> DEFINE c == count
             h == g
  <2>1. /\ c = IF first < end THEN (end - first + step - 1) \div step ELSE 0
        /\ h = [k \in 1 .. c |-> first + (k - 1) * step + 1]
    OBVIOUS
  <2> HIDE DEF c, h
  <2>2. /\ c \in Nat
        /\ \A k \in 1 .. c : h[k] \in first + 1 .. end /\ (h[k] - 1 - first) % step = 0
        /\ \A k, m \in 1 .. c : k < m => h[k] < h[m]
        /\ \A i \in first + 1 .. end : (i - 1 - first) % step = 0 => \E k \in 1 .. c : h[k] = i
    <3>1. c \in Nat /\ SliceMap(h, c, first, end, step)
      BY <1>3, <2>1, SliceSteps
    <3> QED
      BY <3>1, Zenon DEF SliceMap
  <2> QED
    BY <2>2 DEF c, h
<1>5. Sliced(items, t) = [k \in 1 .. count |-> items[g[k]]]
  <2>1. \A k \in 1 .. count : g[k] = first + (k - 1) * step + 1
    OBVIOUS
  <2> HIDE DEF count, g
  <2> QED
    BY <1>1, <2>1
<1>6. g = [k \in 1 .. count |-> g[k]]
  OBVIOUS
<1> HIDE DEF count, g, n
<1>7. \A k \in 1 .. count : g[k] \in 1 .. n
  <2> SUFFICES ASSUME NEW k \in 1 .. count PROVE g[k] \in 1 .. n
    OBVIOUS
  <2>1. g[k] \in first + 1 .. end
    BY <1>4
  <2> QED
    BY <1>2, <1>3, <2>1
<1>8. Sliced(items, t) \in Seq(X)
  <2>1. [k \in 1 .. count |-> items[g[k]]] \in [1 .. count -> X]
    BY <1>2, <1>7
  <2> QED
    BY <1>4, <1>5, <2>1
<1>9. ASSUME Open \notin {t.from, t.to, t.step}
      PROVE  Sliced(items, t) = ItemsAt(items, SlicePlaces(t, n))
  <2> DEFINE from == IF t.from[1] < 0 THEN n + t.from[1] ELSE t.from[1]
             to == IF t.to[1] < 0 THEN n + t.to[1] ELSE t.to[1]
             S == SlicePlaces(t, n)
  <2>1. t.from[1] \in Int /\ t.to[1] \in Int /\ step = t.step[1]
    <3>1. t.from # Open /\ t.to # Open /\ t.step # Open
      BY <1>9
    <3> QED
      BY <3>1, BoundIs DEF step, SliceStep
  <2>2. from \in Int /\ to \in Int
    BY <1>2, <2>1
  <2>3. S = {i \in 1 .. n : /\ i > from /\ i <= to /\ (i - 1 - Max({from, 0})) % step = 0}
    BY <2>1 DEF SlicePlaces
  <2>4. first = IF t.from[1] < 0 THEN Max({0, from}) ELSE from
    <3>1. t.from[1] + n = n + t.from[1]
      BY <1>2, <2>1
    <3> QED
      BY <1>9, <3>1 DEF first, SliceBegin
  <2>5. end = IF t.to[1] < 0 THEN to ELSE Min({to, n})
    <3>1. t.to[1] + n = n + t.to[1]
      BY <1>2, <2>1
    <3> QED
      BY <1>9, <3>1 DEF end, SliceEnd
  <2>6. first = Max({from, 0})
    <3>1. Max({0, from}) = IF 0 >= from THEN 0 ELSE from
      BY <2>2, MaxOf
    <3>2. Max({from, 0}) = IF from >= 0 THEN from ELSE 0
      BY <2>2, MaxOf
    <3>3. t.from[1] >= 0 => from >= 0
      BY <2>1
    <3> HIDE DEF from
    <3> QED
      BY <2>1, <2>2, <2>4, <3>1, <3>2, <3>3
  <2>7. end = IF to <= n THEN to ELSE n
    <3>1. Min({to, n}) = IF to <= n THEN to ELSE n
      BY <1>2, <2>2, MinOf
    <3>2. t.to[1] < 0 => to <= n
      BY <1>2, <2>1
    <3> HIDE DEF to
    <3> QED
      BY <2>5, <3>1, <3>2
  <2>8. from <= first /\ (first = from \/ first = 0)
    <3>1. Max({from, 0}) = IF from >= 0 THEN from ELSE 0
      BY <2>2, MaxOf
    <3> HIDE DEF from
    <3> QED
      BY <2>2, <2>6, <3>1
  <2> HIDE DEF from, to, S
  <2>9. \A i \in Int : i \in S <=> i \in first + 1 .. end /\ (i - 1 - first) % step = 0
    <3> SUFFICES ASSUME NEW i \in Int
                 PROVE  i \in S <=> i \in first + 1 .. end /\ (i - 1 - first) % step = 0
      OBVIOUS
    <3>1. i \in S <=> i \in 1 .. n /\ i > from /\ i <= to /\ (i - 1 - first) % step = 0
      BY <2>3, <2>6
    <3>2. i \in 1 .. n /\ i > from /\ i <= to <=> i \in first + 1 .. end
      BY <1>2, <1>3, <2>2, <2>7, <2>8
    <3> QED
      BY <3>1, <3>2
  <2>10. S \subseteq 1 .. n /\ S \subseteq Nat /\ IsFiniteSet(S)
    <3>1. S \subseteq 1 .. n
      BY <2>3
    <3>2. IsFiniteSet(1 .. n)
      BY <1>2, FS_Interval
    <3>3. IsFiniteSet(S)
      BY <3>1, <3>2, FS_Subset
    <3> QED
      BY <1>2, <3>1, <3>3
  <2>11. \A k \in 1 .. count : g[k] \in S
    <3> SUFFICES ASSUME NEW k \in 1 .. count PROVE g[k] \in S
      OBVIOUS
    <3>1. g[k] \in first + 1 .. end /\ (g[k] - 1 - first) % step = 0
      BY <1>4
    <3>2. g[k] \in Int
      BY <1>3, <3>1
    <3> QED
      BY <2>9, <3>1, <3>2
  <2>12. \A i \in S : \E k \in 1 .. count : g[k] = i
    <3> SUFFICES ASSUME NEW i \in S PROVE \E k \in 1 .. count : g[k] = i
      OBVIOUS
    <3>1. i \in Int
      BY <2>10
    <3> QED
      BY <1>4, <2>9, <3>1
  <2>13. \A k, m \in 1 .. count : k < m => g[k] < g[m]
    BY <1>4
  <2>14. count = Cardinality(S) /\ InTurn(S) = g
    BY <1>4, <1>6, <2>10, <2>11, <2>12, <2>13, InTurnOnly
  <2> QED
    BY <1>5, <2>14 DEF ItemsAt, S
<1> QED
  BY <1>8, <1>9 DEF n

\* Values and tokens.
TokenRead(t) ==
    \/ t.is \in {"key", "all", "filter"}
    \/ t.is = "index" /\ t.n \in Int
    \/ t.is = "slice" /\ IsBound(t.from, Int) /\ IsBound(t.to, Int) /\ IsBound(t.step, Nat \ {0})
PlainToken(t) ==
    /\ t.is # "filter"
    /\ t.is = "index" => t.n >= 0
    /\ t.is = "slice" => Open \notin {t.from, t.to, t.step}

\* A value is made of values.
LEMMA ValuesRead ==
  /\ Null \in JsonValues
  /\ \A v \in JsonValues :
        /\ v.is \in {"leaf", "null", "array", "object"}
        /\ v.is = "array" => v.val \in Seq(JsonValues)
        /\ v.is = "object" => \A k \in DOMAIN v.val : v.val[k] \in JsonValues
BY JsonIsWhole

\* A path is a list of tokens.
LEMMA TokensRead ==
  ASSUME NEW rule \in JsonRules
  PROVE  /\ Len(rule) \in Nat /\ DOMAIN rule = 1 .. Len(rule) /\ rule \in Seq(ToSet(rule))
         /\ \A i \in 1 .. Len(rule) : TokenRead(rule[i])
<1>1. rule \in Seq(ToSet(rule)) /\ \A i \in DOMAIN rule : TokenRead(rule[i])
  BY JsonIsWhole DEF TokenRead
<1> DEFINE T == ToSet(rule)
<1>2. rule \in Seq(T)
  BY <1>1
<1> HIDE DEF T
<1>3. Len(rule) \in Nat /\ DOMAIN rule = 1 .. Len(rule)
  BY <1>2
<1> QED
  BY <1>1, <1>3

\* Where one value leads.
LedOne(v, t) ==
    CASE t.is = "key" /\ v.is = "object" -> IF t.key \in DOMAIN v.val THEN <<v.val[t.key]>> ELSE <<>>
      [] t.is = "index" /\ v.is = "array" -> IF t.n < Len(v.val) THEN <<v.val[t.n + 1]>> ELSE <<>>
      [] t.is = "all" /\ v.is = "array" -> v.val
      [] t.is = "slice" /\ v.is = "array" -> ItemsAt(v.val, SlicePlaces(t, Len(v.val)))
      [] OTHER -> <<>>

\* A token leads from many nodes where it leads from each.
LEMMA LedIs ==
  ASSUME NEW nodes, NEW t
  PROVE  Led(nodes, t) = FlattenSeq([i \in DOMAIN nodes |-> LedOne(nodes[i], t)])
BY DEF Led, LedOne, SlicePlaces

\* A token leads from a value to values ...
LEMMA LedOneTyped ==
  ASSUME NEW v \in JsonValues, NEW t, TokenRead(t), PlainToken(t)
  PROVE  LedOne(v, t) \in Seq(JsonValues)
<1>1. /\ v.is = "array" => v.val \in Seq(JsonValues)
      /\ v.is = "object" => \A k \in DOMAIN v.val : v.val[k] \in JsonValues
  BY ValuesRead
<1>2. <<>> \in Seq(JsonValues)
  OBVIOUS
<1>3. CASE t.is = "key" /\ v.is = "object"
  <2>1. LedOne(v, t) = IF t.key \in DOMAIN v.val THEN <<v.val[t.key]>> ELSE <<>>
    BY <1>3 DEF LedOne
  <2>2. t.key \in DOMAIN v.val => <<v.val[t.key]>> \in Seq(JsonValues)
    BY <1>1, <1>3, OneOnly
  <2> QED
    BY <1>2, <2>1, <2>2
<1>4. CASE t.is = "index" /\ v.is = "array"
  <2>1. LedOne(v, t) = IF t.n < Len(v.val) THEN <<v.val[t.n + 1]>> ELSE <<>>
    BY <1>4 DEF LedOne
  <2>2. t.n \in Nat
    BY <1>4 DEF TokenRead, PlainToken
  <2>3. t.n < Len(v.val) => v.val[t.n + 1] \in JsonValues
    BY <1>1, <1>4, <2>2
  <2>4. t.n < Len(v.val) => <<v.val[t.n + 1]>> \in Seq(JsonValues)
    BY <2>3, OneOnly
  <2> QED
    BY <1>2, <2>1, <2>4
<1>5. CASE t.is = "all" /\ v.is = "array"
  BY <1>1, <1>5 DEF LedOne
<1>6. CASE t.is = "slice" /\ v.is = "array"
  <2>1. LedOne(v, t) = ItemsAt(v.val, SlicePlaces(t, Len(v.val)))
    BY <1>6 DEF LedOne
  <2>2. IsBound(t.from, Int) /\ IsBound(t.to, Int) /\ IsBound(t.step, Nat \ {0})
    BY <1>6 DEF TokenRead
  <2>3. Open \notin {t.from, t.to, t.step}
    BY <1>6 DEF PlainToken
  <2>4. Sliced(v.val, t) \in Seq(JsonValues) /\ Sliced(v.val, t) = ItemsAt(v.val, SlicePlaces(t, Len(v.val)))
    BY <1>1, <1>6, <2>2, <2>3, SlicedIs
  <2> QED
    BY <2>1, <2>4
<1>7. CASE ~(\/ t.is = "key" /\ v.is = "object"
             \/ t.is = "index" /\ v.is = "array"
             \/ t.is = "all" /\ v.is = "array"
             \/ t.is = "slice" /\ v.is = "array")
  <2>1. LedOne(v, t) = <<>>
    BY <1>7 DEF LedOne
  <2> QED
    BY <1>2, <2>1
<1> QED
  BY <1>3, <1>4, <1>5, <1>6, <1>7

\* ... and from many values as well.
LEMMA LedTyped ==
  ASSUME NEW nodes \in Seq(JsonValues), NEW t, TokenRead(t), PlainToken(t)
  PROVE  Led(nodes, t) \in Seq(JsonValues)
<1> DEFINE s == [i \in DOMAIN nodes |-> LedOne(nodes[i], t)]
<1>1. \A i \in DOMAIN nodes : LedOne(nodes[i], t) \in Seq(JsonValues)
  BY LedOneTyped
<1>2. s \in [1 .. Len(nodes) -> Seq(JsonValues)]
  BY <1>1
<1>3. Len(nodes) \in Nat
  OBVIOUS
<1> HIDE DEF s
<1>4. s \in Seq(Seq(JsonValues))
  BY <1>2, <1>3
<1>5. FlattenSeq(s) \in Seq(JsonValues)
  BY <1>4, FlattenTyped
<1> QED
  BY <1>5, LedIs DEF s

\* Nowhere from nowhere, and from one node where it leads from that.
LEMMA LedOfFew ==
  /\ \A t : Led(<<>>, t) = <<>>
  /\ \A v, t : LedOne(v, t) \in Seq(JsonValues) => Led(<<v>>, t) = LedOne(v, t)
<1>1. ASSUME NEW t PROVE Led(<<>>, t) = <<>>
  <2>1. [i \in DOMAIN <<>> |-> LedOne(<<>>[i], t)] = <<>>
    OBVIOUS
  <2> QED
    BY <2>1, LedIs, FlattenFew
<1>2. ASSUME NEW v, NEW t, LedOne(v, t) \in Seq(JsonValues) PROVE Led(<<v>>, t) = LedOne(v, t)
  <2>1. [i \in DOMAIN <<v>> |-> LedOne(<<v>>[i], t)] = <<LedOne(v, t)>>
    OBVIOUS
  <2>2. FlattenSeq(<<LedOne(v, t)>>) = LedOne(v, t)
    BY <1>2, FlattenFew
  <2> QED
    BY <2>1, <2>2, LedIs
<1> QED
  BY <1>1, <1>2

\* Where a path leads, token by token.
JsonLeading(f, value, rule) ==
    /\ f \in [0 .. Len(rule) -> Seq(JsonValues)] /\ f[0] = <<value>>
    /\ \A i \in 1 .. Len(rule) : f[i] = Led(f[i - 1], rule[i])

\* For every path there is the function that follows it token by token.
LEMMA JsonLeadingExists ==
  ASSUME NEW value \in JsonValues, NEW rule, Len(rule) \in Nat,
         \A i \in 1 .. Len(rule) : TokenRead(rule[i]) /\ PlainToken(rule[i])
  PROVE  \E f : JsonLeading(f, value, rule)
<1> DEFINE n == Len(rule)
           V == Seq(JsonValues)
           G == [af \in (0 .. n) \X [0 .. n -> V] |->
                    IF af[1] = 0 THEN <<value>> ELSE Led(af[2][af[1] - 1], rule[af[1]])]
           size == [m \in 0 .. n |-> m]
<1>1. \A k \in 0 .. n : \A f \in [0 .. n -> V] : G[k, f] = IF k = 0 THEN <<value>> ELSE Led(f[k - 1], rule[k])
  OBVIOUS
<1>2. <<value>> \in V
  BY OneOnly
<1> HIDE DEF G
<1>3. n \in Nat /\ \A i \in 1 .. n : TokenRead(rule[i]) /\ PlainToken(rule[i])
  OBVIOUS
<1> HIDE DEF V, n
<1>4. StaysIn(0 .. n, V, G)
  <2> SUFFICES ASSUME NEW k \in 0 .. n, NEW f \in [0 .. n -> V] PROVE G[k, f] \in V
    BY Zenon DEF StaysIn
  <2>1. CASE k = 0
    BY <1>1, <1>2, <2>1
  <2>2. CASE k # 0
    <3>1. k \in 1 .. n /\ k - 1 \in 0 .. n
      BY <1>3, <2>2
    <3>2. f[k - 1] \in V
      BY <3>1
    <3>3. Led(f[k - 1], rule[k]) \in V
      BY <1>3, <3>1, <3>2, LedTyped DEF V
    <3> QED
      BY <1>1, <2>2, <3>3
  <2> QED
    BY <2>1, <2>2
<1>5. LooksBelow(0 .. n, size, V, G)
  <2> SUFFICES ASSUME NEW k \in 0 .. n, NEW f \in [0 .. n -> V], NEW g \in [0 .. n -> V],
                      \A j \in 0 .. n : size[j] < size[k] => f[j] = g[j]
               PROVE  G[k, f] = G[k, g]
    BY Zenon DEF LooksBelow
  <2>1. CASE k = 0
    BY <1>1, <2>1
  <2>2. CASE k # 0
    <3>1. k - 1 \in 0 .. n /\ size[k - 1] < size[k]
      BY <1>3, <2>2
    <3>2. f[k - 1] = g[k - 1]
      BY <3>1
    <3>3. G[k, f] = Led(f[k - 1], rule[k]) /\ G[k, g] = Led(g[k - 1], rule[k])
      BY <1>1, <2>2
    <3> QED
      BY <3>2, <3>3
  <2> QED
    BY <2>1, <2>2
<1>6. size \in [0 .. n -> Nat] /\ <<>> \in V
  BY <1>3 DEF V
<1> HIDE DEF size
<1>7. PICK f \in [0 .. n -> V] : \A k \in 0 .. n : f[k] = G[k, f]
  <2>1. Solvable(0 .. n, V, G)
    BY <1>4, <1>5, <1>6, Recursion
  <2> QED
    BY <2>1, Zenon DEF Solvable
<1>8. f[0] = <<value>>
  <2>1. 0 \in 0 .. n
    BY <1>3
  <2> QED
    BY <1>1, <1>7, <2>1
<1>9. ASSUME NEW i \in 1 .. n PROVE f[i] = Led(f[i - 1], rule[i])
  <2>1. i \in 0 .. n /\ i # 0
    BY <1>3
  <2> QED
    BY <1>1, <1>7, <2>1
<1>10. JsonLeading(f, value, rule)
  BY <1>7, <1>8, <1>9 DEF JsonLeading, n, V
<1> QED
  BY <1>10

\* Where a path leads is where its last token leads.
LEMMA LeadsIs ==
  ASSUME NEW value, NEW rule, Len(rule) \in Nat, NEW f, JsonLeading(f, value, rule)
  PROVE  Leads(value, rule) = f[Len(rule)]
<1> DEFINE n == Len(rule)
           h == CHOOSE g : g = [i \in 0 .. n |-> IF i = 0 THEN <<value>> ELSE Led(g[i - 1], rule[i])]
<1>1. Leads(value, rule) = h[n]
  BY DEF Leads
<1>2. /\ f \in [0 .. n -> Seq(JsonValues)] /\ f[0] = <<value>>
      /\ \A i \in 1 .. n : f[i] = Led(f[i - 1], rule[i])
  BY DEF JsonLeading
<1>3. n \in Nat
  OBVIOUS
<1> HIDE DEF n
<1>4. f = [i \in 0 .. n |-> IF i = 0 THEN <<value>> ELSE Led(f[i - 1], rule[i])]
  <2>1. ASSUME NEW i \in 0 .. n PROVE f[i] = IF i = 0 THEN <<value>> ELSE Led(f[i - 1], rule[i])
    BY <1>2, <1>3
  <2>2. f = [i \in 0 .. n |-> f[i]]
    BY <1>2
  <2> QED
    BY <2>1, <2>2
<1>5. h = [i \in 0 .. n |-> IF i = 0 THEN <<value>> ELSE Led(h[i - 1], rule[i])]
  BY <1>4
<1> HIDE DEF h
<1> DEFINE U == {k \in Nat : k <= n => h[k] = f[k]}
<1>6. 0 \in U
  <2>1. 0 \in 0 .. n
    BY <1>3
  <2> QED
    BY <1>2, <1>5, <2>1
<1>7. ASSUME NEW k \in Nat, k \in U PROVE k + 1 \in U
  <2> DEFINE m == k + 1
  <2>1. m \in Nat /\ m - 1 = k /\ m # 0
    OBVIOUS
  <2> HIDE DEF m
  <2>2. ASSUME m <= n PROVE h[m] = f[m]
    <3>1. m \in 1 .. n /\ m \in 0 .. n /\ k <= n
      BY <1>3, <2>1, <2>2
    <3>2. h[k] = f[k]
      BY <1>7, <3>1
    <3>3. f[m] = Led(f[k], rule[m])
      BY <1>2, <2>1, <3>1
    <3>4. h[m] = Led(h[k], rule[m])
      BY <1>5, <2>1, <3>1
    <3> QED
      BY <3>2, <3>3, <3>4
  <2>3. m \in U
    BY <2>1, <2>2
  <2> QED
    BY <2>3 DEF m
<1>8. \A k \in Nat : k \in U
  <2> HIDE DEF U
  <2> QED
    BY <1>6, <1>7, EveryNumber
<1> QED
  BY <1>1, <1>3, <1>8 DEF n

\* What is left of a path.
LEMMA RestIs ==
  ASSUME NEW T, NEW way \in Seq(T), NEW n \in 0 .. Len(way), NEW r, r = SubSeq(way, n + 1, Len(way))
  PROVE  /\ r = <<>> <=> n = Len(way)
         /\ n < Len(way) => Head(r) = way[n + 1] /\ Tail(r) = SubSeq(way, (n + 1) + 1, Len(way))
<1>1. Len(way) \in Nat /\ n + 1 \in Nat
  OBVIOUS
<1>2. /\ Len(r) = Len(way) - n /\ DOMAIN r = 1 .. Len(way) - n
      /\ r = [i \in 1 .. Len(way) - n |-> way[i + n]]
  <2>1. SubSeq(way, n + 1, Len(way)) = [i \in 1 .. Len(way) - n |-> way[i + n]]
    <3>1. SubSeq(way, n + 1, Len(way)) = [i \in 1 .. Len(way) - (n + 1) + 1 |-> way[i + (n + 1) - 1]]
      BY <1>1
    <3>2. Len(way) - (n + 1) + 1 = Len(way) - n
      BY <1>1
    <3>3. \A i \in 1 .. Len(way) - n : i + (n + 1) - 1 = i + n
      BY <1>1
    <3> QED
      BY <3>1, <3>2, <3>3
  <2>2. Len(way) - n \in Nat
    BY <1>1
  <2> QED
    BY <2>1, <2>2
<1>3. r \in Seq(T)
  <2>1. r \in [1 .. Len(way) - n -> T]
    <3>1. \A i \in 1 .. Len(way) - n : i + n \in 1 .. Len(way)
      BY <1>1
    <3>2. \A i \in 1 .. Len(way) - n : way[i + n] \in T
      BY <3>1
    <3> QED
      BY <1>2, <3>2
  <2> QED
    BY <1>1, <2>1
<1>4. r = <<>> <=> n = Len(way)
  <2>1. r = <<>> <=> Len(r) = 0
    BY <1>3, EmptySeq
  <2> QED
    BY <1>1, <1>2, <2>1
<1>5. ASSUME n < Len(way) PROVE Head(r) = way[n + 1] /\ Tail(r) = SubSeq(way, (n + 1) + 1, Len(way))
  <2>1. r # <<>>
    BY <1>4, <1>5
  <2>2. Head(r) = r[1] /\ Tail(r) = [i \in 1 .. Len(r) - 1 |-> r[i + 1]]
    BY <1>3, <2>1
  <2>3. r[1] = way[n + 1]
    BY <1>1, <1>2, <1>5
  <2>4. SubSeq(way, (n + 1) + 1, Len(way)) = [i \in 1 .. Len(r) - 1 |-> r[i + 1]]
    <3>1. SubSeq(way, (n + 1) + 1, Len(way)) =
            [i \in 1 .. Len(way) - ((n + 1) + 1) + 1 |-> way[i + ((n + 1) + 1) - 1]]
      BY <1>1
    <3>2. Len(way) - ((n + 1) + 1) + 1 = Len(r) - 1
      BY <1>1, <1>2
    <3>3. \A i \in 1 .. Len(r) - 1 : i + ((n + 1) + 1) - 1 = (i + 1) + n /\ r[i + 1] = way[(i + 1) + n]
      BY <1>1, <1>2
    <3> QED
      BY <3>1, <3>2, <3>3
  <2> QED
    BY <2>2, <2>3, <2>4
<1> QED
  BY <1>4, <1>5

\* From nowhere a path leads nowhere.
LEMMA JsonNowhere ==
  ASSUME NEW value, NEW rule, Len(rule) \in Nat, NEW f, JsonLeading(f, value, rule),
         NEW k \in 0 .. Len(rule), f[k] = <<>>
  PROVE  f[Len(rule)] = <<>>
<1> DEFINE n == Len(rule)
<1>1. \A i \in 1 .. n : f[i] = Led(f[i - 1], rule[i])
  BY DEF JsonLeading
<1>2. \A i \in 1 .. n : f[i - 1] = <<>> => f[i] = <<>>
  BY <1>1, LedOfFew
<1> DEFINE U == {j \in Nat : k + j <= n => f[k + j] = <<>>}
<1>3. 0 \in U
  OBVIOUS
<1>4. ASSUME NEW j \in Nat, j \in U PROVE j + 1 \in U
  <2> DEFINE m == k + (j + 1)
  <2>1. m \in Nat /\ m - 1 = k + j /\ (m <= n => m \in 1 .. n /\ k + j <= n)
    OBVIOUS
  <2> HIDE DEF m
  <2>2. m <= n => f[m] = <<>>
    BY <1>2, <1>4, <2>1
  <2> QED
    BY <2>2 DEF m
<1>5. \A j \in Nat : j \in U
  <2> HIDE DEF U
  <2> QED
    BY <1>3, <1>4, EveryNumber
<1>6. n - k \in Nat /\ k + (n - k) = n
  OBVIOUS
<1>7. f[n] = <<>>
  BY <1>5, <1>6
<1> QED
  BY <1>7

\* The walk: as long as the path is a plain one, it is where JSONPath leads.
PlainTokens(way) ==
    \A i \in 1 .. Len(way) : (way[i].is \in {"all", "slice"} => i = Len(way)) /\ PlainToken(way[i])
SpreadEnd(way) == way # <<>> /\ Last(way).is \in {"all", "slice"}
Unpacked(v) == CASE v.is = "array" -> v.val [] v.is = "null" -> <<>> [] OTHER -> <<v>>
Shown(way, nodes) ==
    IF SpreadEnd(way) THEN nodes ELSE FlattenSeq([i \in DOMAIN nodes |-> Unpacked(nodes[i])])

AtToken(way, left, n) == n \in 0 .. Len(way) /\ left = SubSeq(way, n + 1, Len(way))
Followed(value, way, spot, n) ==
    PlainTokens(way) =>
        \A f : JsonLeading(f, value, way) => (n = Len(way) /\ SpreadEnd(way)) \/ f[n] = <<spot>>
Given(value, way, left, got) ==
    (PlainTokens(way) /\ (SpreadEnd(way) => left # <<>>)) =>
        \A f : JsonLeading(f, value, way) => got = Shown(way, f[Len(way)])

JsonFrame ==
    /\ jpc \in {"idle", "walking", "done"}
    /\ json \in JsonValues /\ place \in JsonValues /\ picked \in Seq(JsonValues)
    /\ jpc = "idle" => path = <<>>
    /\ jpc # "idle" => path \in JsonRules
JsonInv ==
    /\ JsonFrame
    /\ \E n \in Nat : AtToken(path, rest, n) /\ (jpc = "walking" => Followed(json, path, place, n))
    /\ jpc = "done" => Given(json, path, rest, picked)

\* A list from its first item on is the list.
LEMMA WholeSubSeq ==
  ASSUME NEW T, NEW way \in Seq(T)
  PROVE  SubSeq(way, 0 + 1, Len(way)) = way
<1>1. SubSeq(way, 0 + 1, Len(way)) = [i \in 1 .. Len(way) |-> way[i]]
  OBVIOUS
<1>2. way = [i \in 1 .. Len(way) |-> way[i]]
  OBVIOUS
<1> QED
  BY <1>1, <1>2

\* Where a walk begins.
LEMMA JsonStarts ==
  ASSUME NEW value \in JsonValues, NEW rule, NEW at, JsonStart(value, rule, at),
         \/ at = "walking" /\ rule \in JsonRules
         \/ at = "idle" /\ rule = <<>>
  PROVE  JsonInv
<1>1. json = value /\ path = rule /\ place = value /\ rest = rule /\ picked = <<>> /\ jpc = at
  BY DEF JsonStart
<1>2. PICK T : rule \in Seq(T)
  <2>1. rule \in JsonRules => rule \in Seq(ToSet(rule))
    BY TokensRead
  <2>2. <<>> \in Seq({})
    OBVIOUS
  <2> QED
    BY <2>1, <2>2
<1>3. Len(rule) \in Nat /\ DOMAIN rule = 1 .. Len(rule)
  BY <1>2
<1>4. JsonFrame
  BY <1>1, <1>3 DEF JsonFrame
<1>5. AtToken(path, rest, 0) /\ Followed(json, path, place, 0)
  <2>1. rule = SubSeq(rule, 0 + 1, Len(rule))
    BY <1>2, WholeSubSeq
  <2>2. AtToken(path, rest, 0)
    BY <1>1, <1>3, <2>1 DEF AtToken
  <2>3. \A f : JsonLeading(f, json, path) => f[0] = <<place>>
    BY <1>1 DEF JsonLeading
  <2> QED
    BY <2>2, <2>3 DEF Followed
<1>6. jpc # "done"
  BY <1>1
<1> QED
  BY <1>4, <1>5, <1>6 DEF JsonInv

\* A path that is followed, and where it stands.
LEMMA PathTokens ==
  ASSUME JsonFrame, NEW n \in Nat, AtToken(path, rest, n)
  PROVE  /\ Len(path) \in Nat /\ n \in 0 .. Len(path)
         /\ \A i \in 1 .. Len(path) : TokenRead(path[i])
         /\ rest = <<>> <=> n = Len(path)
         /\ n < Len(path) => Head(rest) = path[n + 1] /\ AtToken(path, Tail(rest), n + 1)
<1>1. PICK T : path \in Seq(T) /\ \A i \in 1 .. Len(path) : TokenRead(path[i])
  <2>1. path \in JsonRules => path \in Seq(ToSet(path)) /\ \A i \in 1 .. Len(path) : TokenRead(path[i])
    BY TokensRead
  <2>2. <<>> \in Seq({}) /\ 1 .. Len(<<>>) = {}
    OBVIOUS
  <2> QED
    BY <2>1, <2>2 DEF JsonFrame
<1>2. Len(path) \in Nat
  BY <1>1
<1>3. n \in 0 .. Len(path) /\ rest = SubSeq(path, n + 1, Len(path))
  BY DEF AtToken
<1>4. /\ rest = <<>> <=> n = Len(path)
      /\ n < Len(path) => Head(rest) = path[n + 1] /\ Tail(rest) = SubSeq(path, (n + 1) + 1, Len(path))
  BY <1>1, <1>3, RestIs
<1>5. n < Len(path) => n + 1 \in 0 .. Len(path)
  BY <1>2, <1>3
<1> QED
  BY <1>1, <1>2, <1>3, <1>4, <1>5 DEF AtToken

\* A walk that ends with what the path leads to ...
LEMMA GivesKeeps ==
  ASSUME JsonInv, jpc = "walking", NEW got \in Seq(JsonValues), Gives(got), UNCHANGED <<json, path>>,
         Given(json, path, rest, got)
  PROVE  JsonInv'
<1>1. /\ picked' = got /\ jpc' = "done" /\ place' = place /\ rest' = rest
      /\ json' = json /\ path' = path
  BY DEF Gives
<1>2. JsonFrame'
  BY <1>1 DEF JsonInv, JsonFrame
<1>3. PICK n \in Nat : AtToken(path, rest, n)
  BY DEF JsonInv
<1>4. AtToken(path', rest', n) /\ jpc' # "walking"
  BY <1>1, <1>3
<1>5. Given(json', path', rest', picked')
  BY <1>1
<1> QED
  BY <1>2, <1>4, <1>5 DEF JsonInv

\* ... or goes on from where the next token leads keeps the invariant:
LEMMA WalksKeeps ==
  ASSUME JsonInv, jpc = "walking", NEW value \in JsonValues, Walks(value), UNCHANGED <<json, path>>,
         NEW n \in Nat, AtToken(path, Tail(rest), n + 1), Followed(json, path, value, n + 1)
  PROVE  JsonInv'
<1>1. /\ place' = value /\ rest' = Tail(rest) /\ picked' = picked /\ jpc' = jpc
      /\ json' = json /\ path' = path
  BY DEF Walks
<1>2. JsonFrame'
  BY <1>1 DEF JsonInv, JsonFrame
<1>3. AtToken(path', rest', n + 1) /\ Followed(json', path', place', n + 1) /\ n + 1 \in Nat
  BY <1>1
<1>4. jpc' # "done"
  BY <1>1
<1> QED
  BY <1>2, <1>3, <1>4 DEF JsonInv

\* Nothing found is right where JSONPath leads nowhere.
LEMMA GivesNothing ==
  ASSUME NEW value, NEW way, Len(way) \in Nat, NEW left, NEW n \in 0 .. Len(way),
         PlainTokens(way) => \A f : JsonLeading(f, value, way) => f[n] = <<>>
  PROVE  Given(value, way, left, <<>>)
<1> SUFFICES ASSUME PlainTokens(way), NEW f, JsonLeading(f, value, way)
             PROVE  <<>> = Shown(way, f[Len(way)])
  BY DEF Given
<1>1. f[Len(way)] = <<>>
  BY JsonNowhere
<1>2. [i \in DOMAIN <<>> |-> Unpacked(<<>>[i])] = <<>>
  OBVIOUS
<1>3. FlattenSeq([i \in DOMAIN <<>> |-> Unpacked(<<>>[i])]) = <<>>
  BY <1>2, FlattenFew
<1> QED
  BY <1>1, <1>3 DEF Shown

\* One token further.
LEMMA LedStep ==
  ASSUME NEW value, NEW way, Len(way) \in Nat, \A i \in 1 .. Len(way) : TokenRead(way[i]),
         NEW n \in 0 .. Len(way) - 1, NEW spot \in JsonValues, Followed(value, way, spot, n),
         PlainTokens(way)
  PROVE  /\ \A f : JsonLeading(f, value, way) => f[n + 1] = LedOne(spot, way[n + 1])
         /\ LedOne(spot, way[n + 1]) \in Seq(JsonValues)
         /\ PlainToken(way[n + 1])
<1>1. n + 1 \in 1 .. Len(way) /\ n # Len(way)
  OBVIOUS
<1>3. TokenRead(way[n + 1]) /\ PlainToken(way[n + 1])
  BY <1>1 DEF PlainTokens
<1>4. LedOne(spot, way[n + 1]) \in Seq(JsonValues)
  BY <1>3, LedOneTyped
<1>5. ASSUME NEW f, JsonLeading(f, value, way) PROVE f[n + 1] = LedOne(spot, way[n + 1])
  <2> DEFINE m == n + 1
  <2>0. f[n] = <<spot>>
    BY <1>1, <1>5 DEF Followed
  <2>1. m \in 1 .. Len(way) /\ m - 1 = n
    BY <1>1
  <2> HIDE DEF m
  <2>2. f[m] = Led(f[m - 1], way[m])
    BY <1>5, <2>1 DEF JsonLeading
  <2>3. f[m] = Led(<<spot>>, way[m])
    BY <2>0, <2>1, <2>2
  <2>4. LedOne(spot, way[m]) \in Seq(JsonValues)
    BY <1>4 DEF m
  <2>5. f[m] = LedOne(spot, way[m])
    BY <2>3, <2>4, LedOfFew
  <2> QED
    BY <2>5 DEF m
<1> QED
  BY <1>3, <1>4, <1>5

\* into a member or an item,
LEMMA EntersKeeps ==
  ASSUME JsonInv, jpc = "walking", rest # <<>>, Enters, UNCHANGED <<json, path>>
  PROVE  JsonInv'
<1>1. JsonFrame
  BY DEF JsonInv
<1>2. PICK n \in Nat : AtToken(path, rest, n) /\ Followed(json, path, place, n)
  BY DEF JsonInv
<1>3. /\ Len(path) \in Nat /\ n \in 0 .. Len(path) - 1
      /\ \A i \in 1 .. Len(path) : TokenRead(path[i])
      /\ Head(rest) = path[n + 1] /\ AtToken(path, Tail(rest), n + 1)
  <2>1. /\ Len(path) \in Nat /\ n \in 0 .. Len(path)
        /\ \A i \in 1 .. Len(path) : TokenRead(path[i])
        /\ rest = <<>> <=> n = Len(path)
        /\ n < Len(path) => Head(rest) = path[n + 1] /\ AtToken(path, Tail(rest), n + 1)
    BY <1>1, <1>2, PathTokens
  <2>2. n < Len(path)
    BY <2>1
  <2> QED
    BY <2>1, <2>2
<1> DEFINE t == path[n + 1]
           inner == IF t.is = "key" THEN place.val[t.key] ELSE place.val[t.n + 1]
<1>4. /\ t.is \in {"key", "index"}
      /\ IF Has(t) THEN Walks(inner) ELSE Gives(<<>>)
  BY <1>3 DEF Enters
<1>5. place \in JsonValues
  BY <1>1 DEF JsonFrame
<1>6. ASSUME PlainTokens(path), NEW f, JsonLeading(f, json, path)
      PROVE  f[n + 1] = LedOne(place, t) /\ PlainToken(t)
  <2>1. Followed(json, path, place, n)
    BY <1>2
  <2>2. Len(path) \in Nat /\ n \in 0 .. Len(path) - 1 /\ (\A i \in 1 .. Len(path) : TokenRead(path[i]))
    BY <1>3
  <2> HIDE DEF t, inner
  <2>3. \A g : JsonLeading(g, json, path) => g[n + 1] = LedOne(place, path[n + 1])
    BY <1>5, <1>6, <2>1, <2>2, LedStep
  <2>4. PlainToken(path[n + 1])
    BY <1>5, <1>6, <2>1, <2>2, LedStep
  <2> QED
    BY <1>6, <2>3, <2>4 DEF t
<1>7. n + 1 \in 0 .. Len(path) /\ TokenRead(t)
  <2>1. n + 1 \in 1 .. Len(path)
    BY <1>3
  <2> QED
    BY <1>3, <2>1
<1>8. CASE Has(t)
  <2>1. Walks(inner)
    BY <1>4, <1>8
  <2>2. \/ /\ t.is = "key" /\ place.is = "object" /\ t.key \in DOMAIN place.val
           /\ inner = place.val[t.key]
        \/ /\ t.is = "index" /\ place.is = "array" /\ t.n \in 0 .. Len(place.val) - 1
           /\ inner = place.val[t.n + 1]
    BY <1>4, <1>8 DEF Has
  <2> HIDE DEF inner, t
  <2>3. inner \in JsonValues /\ LedOne(place, t) = <<inner>>
    <3>1. CASE t.is = "key"
      <4>1. inner \in JsonValues
        BY <1>5, <2>2, <3>1, ValuesRead
      <4>2. LedOne(place, t) = IF t.key \in DOMAIN place.val THEN <<place.val[t.key]>> ELSE <<>>
        BY <2>2, <3>1 DEF LedOne
      <4> QED
        BY <2>2, <3>1, <4>1, <4>2
    <3>2. CASE t.is = "index"
      <4>1. place.val \in Seq(JsonValues) /\ t.n \in 0 .. Len(place.val) - 1
        BY <1>5, <2>2, <3>2, ValuesRead
      <4>2. inner \in JsonValues
        BY <2>2, <3>2, <4>1
      <4>3. LedOne(place, t) = IF t.n < Len(place.val) THEN <<place.val[t.n + 1]>> ELSE <<>>
        BY <2>2, <3>2 DEF LedOne
      <4>4. t.n < Len(place.val)
        BY <4>1
      <4> QED
        BY <2>2, <3>2, <4>2, <4>3, <4>4
    <3> QED
      BY <1>4, <3>1, <3>2
  <2>4. Followed(json, path, inner, n + 1)
    BY <1>6, <2>3 DEF Followed
  <2> QED
    BY <1>3, <2>1, <2>3, <2>4, WalksKeeps
<1>9. CASE ~Has(t)
  <2>1. Gives(<<>>)
    BY <1>4, <1>9
  <2>2. ~(t.is = "key" /\ place.is = "object" /\ t.key \in DOMAIN place.val)
        /\ ~(t.is = "index" /\ place.is = "array" /\ t.n \in 0 .. Len(place.val) - 1)
    BY <1>9 DEF Has
  <2> HIDE DEF t, inner
  <2>3. PlainToken(t) => LedOne(place, t) = <<>>
    <3> SUFFICES ASSUME PlainToken(t) PROVE LedOne(place, t) = <<>>
      OBVIOUS
    <3>1. CASE t.is = "key" /\ place.is = "object"
      BY <2>2, <3>1 DEF LedOne
    <3>2. CASE t.is = "index" /\ place.is = "array"
      <4>1. place.val \in Seq(JsonValues) /\ t.n \in Nat
        BY <1>5, <1>7, <3>2, ValuesRead DEF TokenRead, PlainToken
      <4>2. ~(t.n < Len(place.val))
        BY <2>2, <3>2, <4>1
      <4> QED
        BY <3>2, <4>2 DEF LedOne
    <3>3. CASE ~(t.is = "key" /\ place.is = "object") /\ ~(t.is = "index" /\ place.is = "array")
      BY <1>4, <3>3 DEF LedOne
    <3> QED
      BY <3>1, <3>2, <3>3
  <2>4. PlainTokens(path) => \A f : JsonLeading(f, json, path) => f[n + 1] = <<>>
    BY <1>6, <2>3
  <2>5. Given(json, path, rest, <<>>)
    BY <1>3, <1>7, <2>4, GivesNothing
  <2>6. <<>> \in Seq(JsonValues)
    OBVIOUS
  <2> QED
    BY <2>1, <2>5, <2>6, GivesKeeps
<1> QED
  BY <1>8, <1>9

\* Where the walk stands, with a token to follow.
LEMMA AtNext ==
  ASSUME JsonInv, jpc = "walking", rest # <<>>
  PROVE  \E n \in Nat : /\ AtToken(path, rest, n) /\ Followed(json, path, place, n)
                        /\ Len(path) \in Nat /\ n \in 0 .. Len(path) - 1
                        /\ \A i \in 1 .. Len(path) : TokenRead(path[i])
                        /\ Head(rest) = path[n + 1] /\ AtToken(path, Tail(rest), n + 1)
<1>1. JsonFrame
  BY DEF JsonInv
<1>2. PICK n \in Nat : AtToken(path, rest, n) /\ Followed(json, path, place, n)
  BY DEF JsonInv
<1>3. /\ Len(path) \in Nat /\ n \in 0 .. Len(path)
      /\ \A i \in 1 .. Len(path) : TokenRead(path[i])
      /\ rest = <<>> <=> n = Len(path)
      /\ n < Len(path) => Head(rest) = path[n + 1] /\ AtToken(path, Tail(rest), n + 1)
  BY <1>1, <1>2, PathTokens
<1>4. n < Len(path) /\ n \in 0 .. Len(path) - 1
  BY <1>3
<1> QED
  BY <1>2, <1>3, <1>4

\* over a wildcard, a slice or a union,
LEMMA SpreadsKeeps ==
  ASSUME JsonInv, jpc = "walking", rest # <<>>, Spreads, UNCHANGED <<json, path>>
  PROVE  JsonInv'
<1>1. JsonFrame
  BY DEF JsonInv
<1>2. PICK n \in Nat : /\ AtToken(path, rest, n) /\ Followed(json, path, place, n)
                       /\ Len(path) \in Nat /\ n \in 0 .. Len(path) - 1
                       /\ \A i \in 1 .. Len(path) : TokenRead(path[i])
                       /\ Head(rest) = path[n + 1] /\ AtToken(path, Tail(rest), n + 1)
  BY AtNext
<1> DEFINE t == path[n + 1]
           got == IF t.is = "all" THEN place.val ELSE Sliced(place.val, t)
<1>3. t.is \in {"all", "slice"} /\ IF place.is # "array" THEN Walks(place) ELSE Gives(got)
  BY <1>2 DEF Spreads
<1>4. place \in JsonValues
  BY <1>1 DEF JsonFrame
<1>5. n + 1 \in 1 .. Len(path) /\ TokenRead(t)
  <2>1. n + 1 \in 1 .. Len(path)
    BY <1>2
  <2> QED
    BY <1>2, <2>1
<1>6. ASSUME PlainTokens(path) PROVE n + 1 = Len(path) /\ SpreadEnd(path) /\ PlainToken(t)
  <2>1. (path[n + 1].is \in {"all", "slice"} => n + 1 = Len(path)) /\ PlainToken(path[n + 1])
    BY <1>5, <1>6 DEF PlainTokens
  <2>2. n + 1 = Len(path)
    BY <1>3, <2>1
  <2>3. path # <<>>
    BY <1>5, EmptySeq
  <2>4. Last(path) = path[n + 1]
    BY <2>2 DEF Last
  <2> QED
    BY <1>3, <2>1, <2>2, <2>3, <2>4 DEF SpreadEnd
<1>7. CASE place.is # "array"
  <2>1. Followed(json, path, place, n + 1)
    BY <1>6 DEF Followed
  <2>2. Walks(place)
    BY <1>3, <1>7
  <2>3. AtToken(path, Tail(rest), n + 1)
    BY <1>2
  <2> QED
    BY <1>4, <2>1, <2>2, <2>3, WalksKeeps
<1>8. CASE place.is = "array"
  <2>1. place.val \in Seq(JsonValues)
    BY <1>4, <1>8, ValuesRead
  <2> HIDE DEF t
  <2>2. got \in Seq(JsonValues) /\ (PlainToken(t) => got = LedOne(place, t))
    <3>1. CASE t.is = "all"
      <4>1. LedOne(place, t) = place.val
        BY <1>8, <3>1 DEF LedOne
      <4> QED
        BY <2>1, <3>1, <4>1
    <3>2. CASE t.is = "slice"
      <4>1. IsBound(t.from, Int) /\ IsBound(t.to, Int) /\ IsBound(t.step, Nat \ {0})
        BY <1>5, <3>2 DEF TokenRead
      <4>2. /\ Sliced(place.val, t) \in Seq(JsonValues)
            /\ Open \notin {t.from, t.to, t.step} =>
                 Sliced(place.val, t) = ItemsAt(place.val, SlicePlaces(t, Len(place.val)))
        BY <2>1, <4>1, SlicedIs
      <4>3. LedOne(place, t) = ItemsAt(place.val, SlicePlaces(t, Len(place.val)))
        BY <1>8, <3>2 DEF LedOne
      <4>4. PlainToken(t) => Open \notin {t.from, t.to, t.step}
        BY <3>2 DEF PlainToken
      <4>5. got = Sliced(place.val, t)
        BY <3>2
      <4> HIDE DEF got
      <4> QED
        BY <4>2, <4>3, <4>4, <4>5
    <3> QED
      BY <1>3, <3>1, <3>2
  <2> HIDE DEF got
  <2>3. Given(json, path, rest, got)
    <3> SUFFICES ASSUME PlainTokens(path), NEW f, JsonLeading(f, json, path)
                 PROVE  got = Shown(path, f[Len(path)])
      BY DEF Given
    <3>1. Followed(json, path, place, n)
      BY <1>2
    <3>2. Len(path) \in Nat /\ n \in 0 .. Len(path) - 1 /\ (\A i \in 1 .. Len(path) : TokenRead(path[i]))
      BY <1>2
    <3>3. \A g : JsonLeading(g, json, path) => g[n + 1] = LedOne(place, path[n + 1])
      BY <1>4, <3>1, <3>2, LedStep
    <3>4. f[n + 1] = got
      BY <1>6, <2>2, <3>3 DEF t
    <3> QED
      BY <1>6, <3>4 DEF Shown
  <2>4. Gives(got)
    BY <1>3, <1>8 DEF got, t
  <2> QED
    BY <2>2, <2>3, <2>4, GivesKeeps
<1> QED
  BY <1>7, <1>8

\* at a token that does not fit the value,
LEMMA GivesUpKeeps ==
  ASSUME JsonInv, jpc = "walking", rest # <<>>, GivesUp, UNCHANGED <<json, path>>
  PROVE  JsonInv'
<1>1. PICK n \in Nat : /\ AtToken(path, rest, n) /\ Followed(json, path, place, n)
                       /\ Len(path) \in Nat /\ n \in 0 .. Len(path) - 1
                       /\ \A i \in 1 .. Len(path) : TokenRead(path[i])
                       /\ Head(rest) = path[n + 1] /\ AtToken(path, Tail(rest), n + 1)
  BY AtNext
<1>2. path[n + 1].is = "filter" /\ Gives(<<>>)
  BY <1>1 DEF GivesUp
<1>3. n + 1 \in 1 .. Len(path)
  BY <1>1
<1>4. ~PlainTokens(path)
  BY <1>2, <1>3 DEF PlainTokens, PlainToken
<1>5. Given(json, path, rest, <<>>)
  BY <1>4 DEF Given
<1>6. <<>> \in Seq(JsonValues)
  OBVIOUS
<1> QED
  BY <1>2, <1>5, <1>6, GivesKeeps

\* at the end of the path.
LEMMA ArrivesKeeps ==
  ASSUME JsonInv, jpc = "walking", rest = <<>>, Arrives, UNCHANGED <<json, path>>
  PROVE  JsonInv'
<1>1. JsonFrame
  BY DEF JsonInv
<1>2. PICK n \in Nat : AtToken(path, rest, n) /\ Followed(json, path, place, n)
  BY DEF JsonInv
<1>3. n = Len(path)
  BY <1>1, <1>2, PathTokens
<1>4. place \in JsonValues
  BY <1>1 DEF JsonFrame
<1>5. Gives(Unpacked(place))
  BY DEF Arrives, Unpacked
<1>6. Unpacked(place) \in Seq(JsonValues)
  <2>1. place.is = "array" => place.val \in Seq(JsonValues)
    BY <1>4, ValuesRead
  <2>2. <<>> \in Seq(JsonValues) /\ <<place>> \in Seq(JsonValues)
    BY <1>4, OneOnly
  <2> QED
    BY <2>1, <2>2 DEF Unpacked
<1>7. Given(json, path, rest, Unpacked(place))
  <2> SUFFICES ASSUME PlainTokens(path), ~SpreadEnd(path), NEW f, JsonLeading(f, json, path)
               PROVE  Unpacked(place) = Shown(path, f[Len(path)])
    BY DEF Given
  <2>1. f[n] = <<place>>
    BY <1>2 DEF Followed
  <2>2. [i \in DOMAIN <<place>> |-> Unpacked(<<place>>[i])] = <<Unpacked(place)>>
    OBVIOUS
  <2>3. FlattenSeq(<<Unpacked(place)>>) = Unpacked(place)
    BY <1>6, FlattenFew
  <2>4. f[Len(path)] = <<place>>
    BY <1>3, <2>1
  <2> QED
    BY <2>2, <2>3, <2>4 DEF Shown
<1> QED
  BY <1>5, <1>6, <1>7, GivesKeeps

\* Every step.
LEMMA JsonGoesOn ==
  ASSUME JsonInv, [JsonNext]_jsonVars
  PROVE  JsonInv'
<1>1. CASE JsonNext
  <2>1. jpc = "walking" /\ UNCHANGED <<json, path>>
    BY <1>1 DEF JsonNext
  <2>2. CASE rest = <<>>
    BY <1>1, <2>1, <2>2, ArrivesKeeps DEF JsonNext
  <2>3. CASE rest # <<>>
    <3>1. Enters \/ Spreads \/ GivesUp
      BY <1>1, <2>3 DEF JsonNext
    <3> QED
      BY <2>1, <2>3, <3>1, EntersKeeps, SpreadsKeeps, GivesUpKeeps
  <2> QED
    BY <2>2, <2>3
<1>2. CASE UNCHANGED jsonVars
  BY <1>2 DEF jsonVars, JsonInv, JsonFrame
<1> QED
  BY <1>1, <1>2

\* What the invariant says of the types.
LEMMA JsonTyped ==
  ASSUME JsonInv
  PROVE  JsonTypeOK
<1>1. JsonFrame
  BY DEF JsonInv
<1>2. PICK n \in Nat : AtToken(path, rest, n)
  BY DEF JsonInv
<1> QED
  BY <1>1, <1>2 DEF JsonFrame, AtToken, JsonTypeOK

\* At the end the nodes are those JSONPath leads to.
LEMMA JsonsFollowed ==
  ASSUME JsonInv
  PROVE  JsonPathsAreFollowed
<1> SUFFICES ASSUME jpc = "done", PlainPath
             PROVE  picked = Shown(path, Leads(json, path))
  BY DEF JsonPathsAreFollowed, Shown, SpreadEnd, Unpacked
<1>1. path \in JsonRules /\ json \in JsonValues
  BY DEF JsonInv, JsonFrame
<1>2. /\ Len(path) \in Nat /\ DOMAIN path = 1 .. Len(path)
      /\ \A i \in 1 .. Len(path) : TokenRead(path[i])
  BY <1>1, TokensRead
<1>3. PlainTokens(path)
  BY <1>2 DEF PlainPath, PlainTokens, PlainToken
<1>4. SpreadEnd(path) => rest # <<>>
  BY DEF PlainPath, SpreadEnd
<1>5. PICK f : JsonLeading(f, json, path)
  <2>1. \A i \in 1 .. Len(path) : TokenRead(path[i]) /\ PlainToken(path[i])
    BY <1>2, <1>3 DEF PlainTokens
  <2> QED
    BY <1>1, <1>2, <2>1, JsonLeadingExists
<1>6. Leads(json, path) = f[Len(path)]
  BY <1>2, <1>5, LeadsIs
<1>7. Given(json, path, rest, picked)
  BY DEF JsonInv
<1>8. picked = Shown(path, f[Len(path)])
  BY <1>3, <1>4, <1>5, <1>7 DEF Given
<1> QED
  BY <1>6, <1>8

-----------------------------------------------------------------------------
(* Selectors. *)

\* What a selector means, one compound after the other.
Beside(tree, m, n) ==
    LET all == ToSet(Siblings(tree, n)) IN m \in all /\ m < n /\ ~\E o \in all : m < o /\ o < n
Linked(tree, comb, m, n) ==
    CASE comb = ">" -> tree.parent[n] = m
      [] comb = " " -> m \in Ancestors(tree, n)
      [] comb = "+" -> Beside(tree, m, n)
      [] comb = "~" -> m < n /\ m \in ToSet(Siblings(tree, n))
Filled(tree, complex, k, f) ==
    /\ \A i \in 1 .. k : CompoundMatch(tree, f[i], complex.parts[i])
    /\ \A i \in 1 .. k - 1 : Linked(tree, complex.combs[i], f[i], f[i + 1])
Chain(tree, complex, k, n) ==
    \E f \in [1 .. Len(complex.parts) -> Elements(tree)] : f[k] = n /\ Filled(tree, complex, k, f)

Joints == {" ", ">", "+", "~"}
IsSelector(complex) ==
    /\ Len(complex.parts) \in Nat \ {0} /\ DOMAIN complex.parts = 1 .. Len(complex.parts)
    /\ DOMAIN complex.combs = 1 .. Len(complex.parts) - 1
    /\ \A i \in 1 .. Len(complex.parts) - 1 : complex.combs[i] \in Joints
IsList(groups) ==
    /\ Len(groups) \in Nat \ {0} /\ DOMAIN groups = 1 .. Len(groups)
    /\ \A g \in 1 .. Len(groups) : IsSelector(groups[g])

\* A list that has items has them from 1 on.
LEMMA HeldItems ==
  ASSUME NEW list, HasItems(list)
  PROVE  Len(list) \in Nat \ {0} /\ DOMAIN list = 1 .. Len(list)
<1> DEFINE T == ToSet(list)
<1>1. list # <<>> /\ list \in Seq(T)
  BY DEF HasItems
<1> HIDE DEF T
<1>2. Len(list) \in Nat /\ DOMAIN list = 1 .. Len(list) /\ Len(list) # 0
  BY <1>1, EmptySeq
<1> QED
  BY <1>2

\* What selectors may be.
LEMMA SelectorsAreRead ==
  ASSUME NEW groups \in CssSelectors
  PROVE  IsList(groups)
<1>1. HasItems(groups)
  BY CssIsRead
<1>2. Len(groups) \in Nat \ {0} /\ DOMAIN groups = 1 .. Len(groups)
  BY <1>1, HeldItems
<1>3. ASSUME NEW g \in 1 .. Len(groups) PROVE IsSelector(groups[g])
  <2> DEFINE complex == groups[g]
  <2>1. /\ HasItems(complex.parts) /\ complex.combs \in Seq(Joints)
        /\ Len(complex.combs) = Len(complex.parts) - 1
    BY <1>2, CssIsRead DEF Joints
  <2> HIDE DEF complex
  <2>2. Len(complex.parts) \in Nat \ {0} /\ DOMAIN complex.parts = 1 .. Len(complex.parts)
    BY <2>1, HeldItems
  <2>3. DOMAIN complex.combs = 1 .. Len(complex.parts) - 1
    BY <2>1
  <2>4. \A i \in 1 .. Len(complex.parts) - 1 : complex.combs[i] \in Joints
    BY <2>1, <2>3
  <2>5. IsSelector(complex)
    BY <2>2, <2>3, <2>4 DEF IsSelector
  <2> QED
    BY <2>5 DEF complex
<1> QED
  BY <1>2, <1>3 DEF IsList

\* The meaning of a combinator, each on its own.
LEMMA RelatedIs ==
  ASSUME NEW comb \in Joints, NEW m \in Elements(css.tree), NEW n \in Elements(css.tree),
         IsPage(css.tree)
  PROVE  Related(css.tree, comb, m, n) <=> Linked(css.tree, comb, m, n)
<1>1. ToSet(Siblings(css.tree, n)) \subseteq Elements(css.tree)
  BY SiblingsAre
<1>2. m \in Adjacent(Elements(css.tree), n) <=> Beside(css.tree, m, n)
  BY <1>1 DEF Adjacent, Beside
<1> QED
  BY <1>2, Zenon DEF Related, Linked, Joints

\* A selector means a chain of elements.
LEMMA SelectedIs ==
  ASSUME IsPage(css.tree), NEW complex, IsSelector(complex), NEW n
  PROVE  Selected(css.tree, complex, n) <=> Chain(css.tree, complex, Len(complex.parts), n)
<1> DEFINE E == Elements(css.tree)
           k == Len(complex.parts)
<1>1. /\ k \in Nat \ {0} /\ DOMAIN complex.parts = 1 .. k
      /\ DOMAIN complex.combs = 1 .. k - 1
      /\ \A i \in 1 .. k - 1 : complex.combs[i] \in Joints
  BY DEF IsSelector
<1>2. ASSUME NEW f \in [1 .. k -> E], NEW i \in 1 .. k - 1
      PROVE  Related(css.tree, complex.combs[i], f[i], f[i + 1]) <=>
             Linked(css.tree, complex.combs[i], f[i], f[i + 1])
  <2>1. i \in 1 .. k /\ i + 1 \in 1 .. k
    BY <1>1
  <2>2. f[i] \in E /\ f[i + 1] \in E /\ complex.combs[i] \in Joints
    BY <1>1, <2>1
  <2> QED
    BY <2>2, RelatedIs
<1> HIDE DEF k
<1>3. ASSUME NEW f \in [1 .. k -> E]
      PROVE  Filled(css.tree, complex, k, f) <=>
             /\ \A i \in DOMAIN complex.parts : CompoundMatch(css.tree, f[i], complex.parts[i])
             /\ \A i \in DOMAIN complex.combs : Related(css.tree, complex.combs[i], f[i], f[i + 1])
  BY <1>1, <1>2 DEF Filled
<1>4. Selected(css.tree, complex, n) <=>
        \E f \in [1 .. k -> E] :
          /\ f[k] = n
          /\ \A i \in DOMAIN complex.parts : CompoundMatch(css.tree, f[i], complex.parts[i])
          /\ \A i \in DOMAIN complex.combs : Related(css.tree, complex.combs[i], f[i], f[i + 1])
  BY <1>1 DEF Selected, k
<1>5. Chain(css.tree, complex, k, n) <=>
        \E f \in [1 .. k -> E] : f[k] = n /\ Filled(css.tree, complex, k, f)
  BY DEF Chain, k
<1>6. Chain(css.tree, complex, k, n) <=> Selected(css.tree, complex, n)
  BY <1>3, <1>4, <1>5
<1> QED
  BY <1>6 DEF k

\* A chain is one compound and a chain for what is left of it.
LEMMA ChainOne ==
  ASSUME NEW tree, NEW complex, IsSelector(complex), NEW n \in Elements(tree),
         CompoundMatch(tree, n, complex.parts[1])
  PROVE  Chain(tree, complex, 1, n)
<1> DEFINE f == [i \in 1 .. Len(complex.parts) |-> n]
<1>1. 1 \in 1 .. Len(complex.parts)
  BY DEF IsSelector
<1>2. f \in [1 .. Len(complex.parts) -> Elements(tree)] /\ f[1] = n
  BY <1>1
<1> HIDE DEF f
<1>3. Filled(tree, complex, 1, f)
  <2>1. 1 .. 1 = {1} /\ 1 .. 1 - 1 = {}
    OBVIOUS
  <2> QED
    BY <1>2, <2>1 DEF Filled
<1> QED
  BY <1>2, <1>3 DEF Chain

\* A chain without its last link is a chain ...
LEMMA ChainShorter ==
  ASSUME NEW tree, NEW complex, IsSelector(complex), NEW k \in 1 .. Len(complex.parts) - 1, NEW n,
         Chain(tree, complex, k + 1, n)
  PROVE  /\ CompoundMatch(tree, n, complex.parts[k + 1])
         /\ \E m \in Elements(tree) : /\ Linked(tree, complex.combs[k], m, n)
                                      /\ Chain(tree, complex, k, m)
                                      /\ CompoundMatch(tree, m, complex.parts[k])
<1>1. Len(complex.parts) \in Nat
  BY DEF IsSelector
<1>2. PICK f \in [1 .. Len(complex.parts) -> Elements(tree)] : f[k + 1] = n /\ Filled(tree, complex, k + 1, f)
  BY DEF Chain
<1>3. /\ k \in 1 .. Len(complex.parts) /\ k \in 1 .. k + 1 /\ k + 1 \in 1 .. k + 1 /\ k \in 1 .. (k + 1) - 1
      /\ 1 .. k \subseteq 1 .. k + 1 /\ 1 .. k - 1 \subseteq 1 .. (k + 1) - 1
  BY <1>1
<1>4. /\ \A i \in 1 .. k + 1 : CompoundMatch(tree, f[i], complex.parts[i])
      /\ \A i \in 1 .. (k + 1) - 1 : Linked(tree, complex.combs[i], f[i], f[i + 1])
  BY <1>2 DEF Filled
<1>5. f[k] \in Elements(tree)
  BY <1>3
<1>6. Linked(tree, complex.combs[k], f[k], n)
  BY <1>2, <1>3, <1>4
<1>7. Filled(tree, complex, k, f)
  BY <1>3, <1>4 DEF Filled
<1>8. Chain(tree, complex, k, f[k])
  BY <1>7 DEF Chain
<1>9. CompoundMatch(tree, n, complex.parts[k + 1]) /\ CompoundMatch(tree, f[k], complex.parts[k])
  BY <1>2, <1>3, <1>4
<1> QED
  BY <1>5, <1>6, <1>8, <1>9

\* ... and with one more link as well.
LEMMA ChainLonger ==
  ASSUME NEW tree, NEW complex, IsSelector(complex), NEW k \in 1 .. Len(complex.parts) - 1,
         NEW n \in Elements(tree), CompoundMatch(tree, n, complex.parts[k + 1]),
         NEW m \in Elements(tree), Linked(tree, complex.combs[k], m, n), Chain(tree, complex, k, m)
  PROVE  Chain(tree, complex, k + 1, n)
<1>1. Len(complex.parts) \in Nat
  BY DEF IsSelector
<1>2. PICK f \in [1 .. Len(complex.parts) -> Elements(tree)] : f[k] = m /\ Filled(tree, complex, k, f)
  BY DEF Chain
<1> DEFINE g == [f EXCEPT ![k + 1] = n]
<1>3. k + 1 \in 1 .. Len(complex.parts) /\ k \in 1 .. Len(complex.parts)
  BY <1>1
<1>4. g \in [1 .. Len(complex.parts) -> Elements(tree)] /\ g[k + 1] = n
      /\ \A i \in 1 .. k : g[i] = f[i]
  <2>1. g \in [1 .. Len(complex.parts) -> Elements(tree)]
    BY <1>2
  <2>2. g[k + 1] = n
    BY <1>3
  <2>3. ASSUME NEW i \in 1 .. k PROVE g[i] = f[i]
    BY <1>1, <1>3
  <2> QED
    BY <2>1, <2>2, <2>3
<1> HIDE DEF g
<1>5. /\ \A i \in 1 .. k : CompoundMatch(tree, f[i], complex.parts[i])
      /\ \A i \in 1 .. k - 1 : Linked(tree, complex.combs[i], f[i], f[i + 1])
  BY <1>2 DEF Filled
<1>6. ASSUME NEW i \in 1 .. k + 1 PROVE CompoundMatch(tree, g[i], complex.parts[i])
  <2>1. CASE i = k + 1
    BY <1>4, <2>1
  <2>2. CASE i # k + 1
    <3>1. i \in 1 .. k
      BY <2>2
    <3> QED
      BY <1>4, <1>5, <3>1
  <2> QED
    BY <2>1, <2>2
<1>7. ASSUME NEW i \in 1 .. (k + 1) - 1 PROVE Linked(tree, complex.combs[i], g[i], g[i + 1])
  <2>1. CASE i = k
    <3>1. g[i] = m /\ g[i + 1] = n
      BY <1>2, <1>4, <2>1
    <3> QED
      BY <2>1, <3>1
  <2>2. CASE i # k
    <3>1. i \in 1 .. k - 1 /\ i \in 1 .. k /\ i + 1 \in 1 .. k
      BY <2>2
    <3>2. g[i] = f[i] /\ g[i + 1] = f[i + 1]
      BY <1>4, <3>1
    <3> QED
      BY <1>5, <3>1, <3>2
  <2> QED
    BY <2>1, <2>2
<1>8. Filled(tree, complex, k + 1, g)
  BY <1>6, <1>7 DEF Filled
<1> QED
  BY <1>4, <1>8 DEF Chain

\* Numbers up to a bound have a largest.
LEMMA LargestOne ==
  ASSUME NEW L \in Nat, NEW S, S \subseteq 1 .. L, S # {}
  PROVE  \E x \in S : \A y \in S : y <= x
<1> DEFINE D == {L - x : x \in S}
<1>1. D \subseteq Nat /\ D # {}
  <2>1. \A x \in S : L - x \in Nat
    OBVIOUS
  <2>2. PICK x \in S : TRUE
    OBVIOUS
  <2>3. L - x \in D
    OBVIOUS
  <2> QED
    BY <2>1, <2>3
<1>2. PICK d \in D : \A e \in D : d <= e
  <2> HIDE DEF D
  <2> QED
    BY <1>1, LeastNumber
<1>3. PICK x \in S : d = L - x
  OBVIOUS
<1>4. ASSUME NEW y \in S PROVE y <= x
  <2>1. L - y \in D
    OBVIOUS
  <2>2. d <= L - y
    BY <1>2, <2>1
  <2> QED
    BY <1>3, <2>2
<1> QED
  BY <1>4

Alike(tree, c) == {m \in Elements(tree) : CompoundMatch(tree, m, c)}

\* Where the search goes on to the left, as far as it decides.
Decides(tree, complex, k, n, next) ==
    /\ next = {} => ~Chain(tree, complex, k + 1, n)
    /\ \A m \in next : Chain(tree, complex, k + 1, n) <=> Chain(tree, complex, k, m)

\* The four combinators.
Inside(comb) == comb = " "
Directly(comb) == comb = ">"
NextTo(comb) == comb = "+"
After(comb) == comb = "~"

\* Two elements in a row, for each combinator.
LEMMA LinkedBy ==
  ASSUME NEW tree, NEW comb, NEW m, NEW n
  PROVE  /\ Directly(comb) => (Linked(tree, comb, m, n) <=> tree.parent[n] = m)
         /\ Inside(comb) => (Linked(tree, comb, m, n) <=> m \in Ancestors(tree, n))
         /\ NextTo(comb) => (Linked(tree, comb, m, n) <=> Beside(tree, m, n))
         /\ After(comb) => (Linked(tree, comb, m, n) <=> m < n /\ m \in ToSet(Siblings(tree, n)))
<1>1. Directly(comb) => (Linked(tree, comb, m, n) <=> tree.parent[n] = m)
  BY Zenon DEF Linked, Directly
<1>2. Inside(comb) => (Linked(tree, comb, m, n) <=> m \in Ancestors(tree, n))
  BY Zenon DEF Linked, Inside
<1>3. NextTo(comb) => (Linked(tree, comb, m, n) <=> Beside(tree, m, n))
  BY Zenon DEF Linked, NextTo
<1>4. After(comb) => (Linked(tree, comb, m, n) <=> m < n /\ m \in ToSet(Siblings(tree, n)))
  BY Zenon DEF Linked, After
<1> QED
  BY <1>1, <1>2, <1>3, <1>4, Zenon

\* One element at most is what it has to be.
LEMMA OneDecides ==
  ASSUME NEW tree, NEW complex, IsSelector(complex), NEW k \in 1 .. Len(complex.parts) - 1,
         NEW n \in Elements(tree), CompoundMatch(tree, n, complex.parts[k + 1]), NEW next,
         \A m : m \in next <=> m \in Alike(tree, complex.parts[k]) /\ Linked(tree, complex.combs[k], m, n),
         \A m, o \in next : m = o
  PROVE  Decides(tree, complex, k, n, next)
<1>1. ASSUME Chain(tree, complex, k + 1, n)
      PROVE  \E m \in next : Chain(tree, complex, k, m)
  <2>1. PICK m \in Elements(tree) : /\ Linked(tree, complex.combs[k], m, n)
                                    /\ Chain(tree, complex, k, m)
                                    /\ CompoundMatch(tree, m, complex.parts[k])
    BY <1>1, ChainShorter
  <2> QED
    BY <2>1 DEF Alike
<1>2. ASSUME NEW m \in next, Chain(tree, complex, k, m) PROVE Chain(tree, complex, k + 1, n)
  BY <1>2, ChainLonger DEF Alike
<1> QED
  BY <1>1, <1>2 DEF Decides

\* Elements with the same parent serve alike what looks at nothing but their parent.
LEMMA BrotherServes ==
  ASSUME NEW tree, IsPage(tree), NEW complex, IsSelector(complex), NEW k \in 1 .. Len(complex.parts),
         k = 1 \/ Inside(complex.combs[k - 1]) \/ Directly(complex.combs[k - 1]),
         NEW a \in Elements(tree), NEW b \in Elements(tree), tree.parent[a] = tree.parent[b],
         CompoundMatch(tree, b, complex.parts[k]), Chain(tree, complex, k, a)
  PROVE  Chain(tree, complex, k, b)
<1>0. Len(complex.parts) \in Nat
  BY DEF IsSelector
<1>1. CASE k = 1
  BY <1>1, ChainOne
<1>2. CASE k # 1
  <2> DEFINE j == k - 1
  <2>1. j \in 1 .. Len(complex.parts) - 1 /\ k = j + 1
    BY <1>0, <1>2
  <2>2. Inside(complex.combs[j]) \/ Directly(complex.combs[j])
    BY <1>2
  <2> HIDE DEF j
  <2>3. PICK m \in Elements(tree) : Linked(tree, complex.combs[j], m, a) /\ Chain(tree, complex, j, m)
    BY <2>1, ChainShorter
  <2>4. Linked(tree, complex.combs[j], m, b)
    <3>1. CASE Inside(complex.combs[j])
      <4>1. m \in Ancestors(tree, a)
        BY <2>3, <3>1, LinkedBy
      <4>2. Ancestors(tree, a) = Ancestors(tree, b)
        <5> DEFINE Above(p) == IF p = 0 THEN {} ELSE {p} \union Ancestors(tree, p)
        <5>1. \A i \in Elements(tree) : Ancestors(tree, i) = Above(tree.parent[i])
          BY AncestorsAre
        <5> HIDE DEF Above
        <5> QED
          BY <5>1
      <4>3. m \in Ancestors(tree, b)
        BY <4>1, <4>2
      <4> QED
        BY <3>1, <4>3, LinkedBy
    <3>2. CASE Directly(complex.combs[j])
      <4>1. tree.parent[b] = m
        BY <2>3, <3>2, LinkedBy
      <4> QED
        BY <3>2, <4>1, LinkedBy
    <3> QED
      BY <2>2, <3>1, <3>2
  <2>5. CompoundMatch(tree, b, complex.parts[j + 1])
    BY <2>1
  <2>6. Chain(tree, complex, j + 1, b)
    BY <2>1, <2>3, <2>4, <2>5, ChainLonger
  <2> QED
    BY <2>1, <2>6
<1> QED
  BY <1>1, <1>2

\* If nothing but ancestors follow, an element below serves as well as one above.
LEMMA LowerServes ==
  ASSUME NEW tree, IsPage(tree), NEW complex, IsSelector(complex), NEW k \in 1 .. Len(complex.parts),
         k = 1 \/ Inside(complex.combs[k - 1]),
         NEW b \in Elements(tree), NEW a \in Ancestors(tree, b),
         CompoundMatch(tree, b, complex.parts[k]), Chain(tree, complex, k, a)
  PROVE  Chain(tree, complex, k, b)
<1>0. Len(complex.parts) \in Nat
  BY DEF IsSelector
<1>1. CASE k = 1
  BY <1>1, ChainOne
<1>2. CASE k # 1
  <2> DEFINE j == k - 1
  <2>1. j \in 1 .. Len(complex.parts) - 1 /\ k = j + 1
    BY <1>0, <1>2
  <2>2. Inside(complex.combs[j])
    BY <1>2
  <2> HIDE DEF j
  <2>3. PICK m \in Elements(tree) : Linked(tree, complex.combs[j], m, a) /\ Chain(tree, complex, j, m)
    BY <2>1, ChainShorter
  <2>4. m \in Ancestors(tree, a)
    BY <2>2, <2>3, LinkedBy
  <2>5. m \in Ancestors(tree, b)
    BY <2>4, AncestorsInLine
  <2>6. Linked(tree, complex.combs[j], m, b)
    BY <2>2, <2>5, LinkedBy
  <2>7. CompoundMatch(tree, b, complex.parts[j + 1])
    BY <2>1
  <2>8. Chain(tree, complex, j + 1, b)
    BY <2>1, <2>3, <2>6, <2>7, ChainLonger
  <2> QED
    BY <2>1, <2>8
<1> QED
  BY <1>1, <1>2

\* If the left side of ">" does not match the parent, nothing does.
LEMMA ParentDecides ==
  ASSUME NEW tree, NEW complex, IsSelector(complex), NEW k \in 1 .. Len(complex.parts) - 1,
         NEW n \in Elements(tree), CompoundMatch(tree, n, complex.parts[k + 1]), Directly(complex.combs[k])
  PROVE  Decides(tree, complex, k, n, Alike(tree, complex.parts[k]) \intersect {ParentElement(tree, n)})
<1> DEFINE next == Alike(tree, complex.parts[k]) \intersect {ParentElement(tree, n)}
<1>1. ASSUME NEW m PROVE Linked(tree, complex.combs[k], m, n) <=> tree.parent[n] = m
  BY LinkedBy
<1>2. \A m : m \in next <=> m \in Alike(tree, complex.parts[k]) /\ Linked(tree, complex.combs[k], m, n)
  BY <1>1 DEF ParentElement
<1>3. \A m, o \in next : m = o
  OBVIOUS
<1> HIDE DEF next
<1>4. Decides(tree, complex, k, n, next)
  BY <1>2, <1>3, OneDecides
<1> QED
  BY <1>4 DEF next

\* If the left side of "+" does not match the element before, nothing does.
LEMMA AdjacentDecides ==
  ASSUME IsPage(css.tree), NEW complex, IsSelector(complex), NEW k \in 1 .. Len(complex.parts) - 1,
         NEW n \in Elements(css.tree), CompoundMatch(css.tree, n, complex.parts[k + 1]), NextTo(complex.combs[k])
  PROVE  Decides(css.tree, complex, k, n, Adjacent(Alike(css.tree, complex.parts[k]), n))
<1> DEFINE tree == css.tree
           all == ToSet(Siblings(tree, n))
           next == Adjacent(Alike(tree, complex.parts[k]), n)
<1>1. ASSUME NEW m PROVE Linked(tree, complex.combs[k], m, n) <=> Beside(tree, m, n)
  BY LinkedBy
<1>2. \A m : m \in next <=> m \in Alike(tree, complex.parts[k]) /\ Beside(tree, m, n)
  BY DEF Adjacent, Beside
<1>3. \A m : m \in next <=> m \in Alike(tree, complex.parts[k]) /\ Linked(tree, complex.combs[k], m, n)
  BY <1>1, <1>2
<1>4. all \subseteq Nat
  BY PageIs, SiblingsAre
<1>5. ASSUME NEW m \in next, NEW o \in next PROVE m = o
  <2>1. m \in all /\ m < n /\ ~\E x \in all : m < x /\ x < n
    BY <1>2 DEF Beside
  <2>2. o \in all /\ o < n /\ ~\E x \in all : o < x /\ x < n
    BY <1>2 DEF Beside
  <2> QED
    BY <1>4, <2>1, <2>2
<1> HIDE DEF next, tree
<1>6. Decides(tree, complex, k, n, next)
  BY <1>3, <1>5, OneDecides DEF tree
<1> QED
  BY <1>6 DEF next, tree

\* The nearest ancestor decides for a space, if only spaces come further left ...
LEMMA NearestDecides ==
  ASSUME IsPage(css.tree), NEW complex, IsSelector(complex), NEW k \in 1 .. Len(complex.parts) - 1,
         k = 1 \/ Inside(complex.combs[k - 1]),
         NEW n \in Elements(css.tree), CompoundMatch(css.tree, n, complex.parts[k + 1]), Inside(complex.combs[k])
  PROVE  Decides(css.tree, complex, k, n, Nearest(Alike(css.tree, complex.parts[k]), n))
<1> DEFINE tree == css.tree
           S == Alike(tree, complex.parts[k]) \intersect Ancestors(tree, n)
           next == Nearest(Alike(tree, complex.parts[k]), n)
<1>1. next = {m \in S : \A o \in S : o <= m}
  BY DEF Nearest
<1>2. \A m : Linked(tree, complex.combs[k], m, n) <=> m \in Ancestors(tree, n)
  <2>1. ASSUME NEW m PROVE Linked(tree, complex.combs[k], m, n) <=> m \in Ancestors(tree, n)
    BY LinkedBy
  <2> QED
    BY <2>1
<1>3. /\ Len(tree.parent) \in Nat /\ S \subseteq 1 .. Len(tree.parent) /\ S \subseteq Elements(tree)
      /\ \A m \in S : m \in Ancestors(tree, n) /\ CompoundMatch(tree, m, complex.parts[k])
  BY PageIs DEF Alike
<1>4. Len(complex.parts) \in Nat /\ k \in 1 .. Len(complex.parts)
  BY DEF IsSelector
<1>5. ASSUME Chain(tree, complex, k + 1, n) PROVE \E m \in S : Chain(tree, complex, k, m)
  <2>1. PICK m \in Elements(tree) : /\ Linked(tree, complex.combs[k], m, n)
                                    /\ Chain(tree, complex, k, m)
                                    /\ CompoundMatch(tree, m, complex.parts[k])
    BY <1>5, ChainShorter
  <2>2. m \in S
    BY <1>2, <2>1 DEF Alike
  <2> QED
    BY <2>1, <2>2
<1> HIDE DEF S, next
<1>6. S # {} => next # {}
  BY <1>1, <1>3, LargestOne
<1>7. ASSUME NEW m \in next PROVE Chain(tree, complex, k + 1, n) <=> Chain(tree, complex, k, m)
  <2>1. m \in S /\ \A o \in S : o <= m
    BY <1>1
  <2>2. m \in Elements(tree) /\ Linked(tree, complex.combs[k], m, n) /\ CompoundMatch(tree, m, complex.parts[k])
    BY <1>2, <1>3, <2>1
  <2>3. Chain(tree, complex, k, m) => Chain(tree, complex, k + 1, n)
    BY <2>2, ChainLonger
  <2>4. ASSUME Chain(tree, complex, k + 1, n) PROVE Chain(tree, complex, k, m)
    <3>1. PICK a \in S : Chain(tree, complex, k, a)
      BY <1>5, <2>4
    <3>2. CASE a = m
      BY <3>1, <3>2
    <3>3. CASE a # m
      <4>1. a < m
        BY <1>3, <2>1, <3>3
      <4>2. a \in Ancestors(tree, n) /\ m \in Ancestors(tree, n)
        BY <1>3, <2>1
      <4>3. a \in Ancestors(tree, m)
        BY <4>1, <4>2, AncestorsInLine
      <4> QED
        BY <1>4, <2>2, <3>1, <4>3, LowerServes
    <3> QED
      BY <3>2, <3>3
  <2> QED
    BY <2>3, <2>4
<1> HIDE DEF tree
<1>8. Decides(tree, complex, k, n, next)
  BY <1>5, <1>6, <1>7 DEF Decides
<1> QED
  BY <1>8 DEF next, tree

\* ... and the sibling found first for "~", if spaces or ">" come further left.
LEMMA GeneralDecides ==
  ASSUME IsPage(css.tree), NEW complex, IsSelector(complex), NEW k \in 1 .. Len(complex.parts) - 1,
         k = 1 \/ Inside(complex.combs[k - 1]) \/ Directly(complex.combs[k - 1]),
         NEW n \in Elements(css.tree), CompoundMatch(css.tree, n, complex.parts[k + 1]), After(complex.combs[k])
  PROVE  Decides(css.tree, complex, k, n, General(Alike(css.tree, complex.parts[k]), n))
<1> DEFINE tree == css.tree
           S == Alike(tree, complex.parts[k]) \intersect ToSet(Siblings(tree, n))
           next == General(Alike(tree, complex.parts[k]), n)
<1>1. next = IF {m \in S : m < n} = {} THEN {} ELSE {Max(S)}
  BY DEF General
<1>2. \A m : Linked(tree, complex.combs[k], m, n) <=> m < n /\ m \in ToSet(Siblings(tree, n))
  <2>1. ASSUME NEW m
        PROVE  Linked(tree, complex.combs[k], m, n) <=> m < n /\ m \in ToSet(Siblings(tree, n))
    BY LinkedBy
  <2> QED
    BY <2>1
<1>3. /\ Len(tree.parent) \in Nat /\ S \subseteq 1 .. Len(tree.parent) /\ S \subseteq Elements(tree)
      /\ \A m \in S : /\ m \in ToSet(Siblings(tree, n)) /\ CompoundMatch(tree, m, complex.parts[k])
                      /\ tree.parent[m] = tree.parent[n]
  BY PageIs, SiblingsAre DEF Alike
<1>4. Len(complex.parts) \in Nat /\ k \in 1 .. Len(complex.parts)
  BY DEF IsSelector
<1>5. ASSUME Chain(tree, complex, k + 1, n) PROVE \E m \in S : m < n /\ Chain(tree, complex, k, m)
  <2>1. PICK m \in Elements(tree) : /\ Linked(tree, complex.combs[k], m, n)
                                    /\ Chain(tree, complex, k, m)
                                    /\ CompoundMatch(tree, m, complex.parts[k])
    BY <1>5, ChainShorter
  <2>2. m \in S /\ m < n
    BY <1>2, <2>1 DEF Alike
  <2> QED
    BY <2>1, <2>2
<1> HIDE DEF S, next
<1>6. S # {} => Max(S) \in S
  <2> SUFFICES ASSUME S # {} PROVE Max(S) \in S
    OBVIOUS
  <2>1. PICK x \in S : \A y \in S : y <= x
    BY <1>3, LargestOne
  <2>2. \A y \in S : x >= y
    BY <1>3, <2>1
  <2>3. Max(S) = CHOOSE z \in S : \A y \in S : z >= y
    BY DEF Max
  <2> QED
    BY <2>2, <2>3
<1>7. ASSUME NEW m \in next PROVE Chain(tree, complex, k + 1, n) <=> Chain(tree, complex, k, m)
  <2>1. PICK o \in S : o < n
    BY <1>1
  <2>2. m \in S
    BY <1>1, <1>6, <2>1
  <2>3. m \in Elements(tree) /\ CompoundMatch(tree, m, complex.parts[k]) /\ tree.parent[m] = tree.parent[n]
    BY <1>3, <2>2
  <2>4. ASSUME Chain(tree, complex, k, m) PROVE Chain(tree, complex, k + 1, n)
    <3>1. /\ o \in Elements(tree) /\ CompoundMatch(tree, o, complex.parts[k])
          /\ tree.parent[m] = tree.parent[o] /\ Linked(tree, complex.combs[k], o, n)
      BY <1>2, <1>3, <2>1, <2>3
    <3>2. Chain(tree, complex, k, o)
      BY <1>4, <2>3, <2>4, <3>1, BrotherServes
    <3> QED
      BY <3>1, <3>2, ChainLonger
  <2>5. ASSUME Chain(tree, complex, k + 1, n) PROVE Chain(tree, complex, k, m)
    <3>1. PICK a \in S : Chain(tree, complex, k, a)
      BY <1>5, <2>5
    <3>2. a \in Elements(tree) /\ tree.parent[a] = tree.parent[m]
      BY <1>3, <2>3
    <3> QED
      BY <1>4, <2>3, <3>1, <3>2, BrotherServes
  <2> QED
    BY <2>4, <2>5
<1>8. next = {} => ~Chain(tree, complex, k + 1, n)
  BY <1>1, <1>5
<1> HIDE DEF tree
<1>9. Decides(tree, complex, k, n, next)
  BY <1>7, <1>8 DEF Decides
<1> QED
  BY <1>9 DEF next, tree

\* The search: what was found is what the selectors mean, of the elements before this one.
TakenBy(tree, complex, n) == Chain(tree, complex, Len(complex.parts), n)
Chosen(tree, groups, n) == \E g \in 1 .. Len(groups) : TakenBy(tree, groups[g], n)
AllDecided(groups) == \A g \in 1 .. Len(groups) : Decided(groups[g])
Rising(out, node) ==
    /\ \A i, j \in DOMAIN out : i < j => out[i] < out[j]
    /\ \A i \in DOMAIN out : out[i] < node

SearchAt(tree, groups, at, node, group, i, spot, out) ==
    [tree |-> tree, groups |-> groups, at |-> at, node |-> node, group |-> group,
     i |-> i, cur |-> spot, out |-> out]
CssFrame(s) ==
    /\ s = SearchAt(s.tree, s.groups, s.at, s.node, s.group, s.i, s.cur, s.out)
    /\ s.at \in {"node", "left", "done", "idle"} /\ IsPage(s.tree)
    /\ s.node \in 1 .. Len(s.tree.parent) + 1 /\ s.cur \in Elements(s.tree)
    /\ s.out \in Seq(Elements(s.tree)) /\ Rising(s.out, s.node)
    /\ s.at # "idle" => IsList(s.groups)
    /\ s.at \in {"node", "left"} => s.node \in Elements(s.tree) /\ s.group \in 1 .. Len(s.groups)
    /\ s.at = "left" => s.i \in 0 .. Len(s.groups[s.group].parts) - 1
    /\ s.at = "done" => s.node = Len(s.tree.parent) + 1
FoundSoFar(s) == \A n : n \in ToSet(s.out) <=> n \in Elements(s.tree) /\ n < s.node /\ Chosen(s.tree, s.groups, n)
NotBefore(s) == \A g \in 1 .. s.group - 1 : ~TakenBy(s.tree, s.groups[g], s.node)
OnTheWay(s) ==
    LET complex == s.groups[s.group] IN
    /\ CompoundMatch(s.tree, s.cur, complex.parts[s.i + 1])
    /\ TakenBy(s.tree, complex, s.node) <=> Chain(s.tree, complex, s.i + 1, s.cur)
CssMeans(s) ==
    AllDecided(s.groups) =>
        /\ s.at # "idle" => FoundSoFar(s)
        /\ s.at \in {"node", "left"} => NotBefore(s)
        /\ s.at = "left" => OnTheWay(s)
CssInv == CssFrame(css) /\ CssMeans(css)

\* A search of these parts has these parts.
LEMMA SearchFields ==
  ASSUME NEW tree, NEW groups, NEW at, NEW node, NEW group, NEW i, NEW spot, NEW out,
         NEW s, s = SearchAt(tree, groups, at, node, group, i, spot, out)
  PROVE  /\ s.tree = tree /\ s.groups = groups /\ s.at = at /\ s.node = node
         /\ s.group = group /\ s.i = i /\ s.cur = spot /\ s.out = out
         /\ s = SearchAt(s.tree, s.groups, s.at, s.node, s.group, s.i, s.cur, s.out)
BY DEF SearchAt

\* Where a search begins.
LEMMA CssStarts ==
  ASSUME NEW tree, IsPage(tree), NEW groups, NEW at, CssStart(tree, groups, at),
         (at = "node" /\ IsList(groups)) \/ at = "idle"
  PROVE  CssInv
<1>1. css = SearchAt(tree, groups, at, 1, 1, 0, 1, <<>>)
  BY DEF CssStart, SearchAt
<1>2. /\ css.tree = tree /\ css.groups = groups /\ css.at = at /\ css.node = 1
      /\ css.group = 1 /\ css.i = 0 /\ css.cur = 1 /\ css.out = <<>>
      /\ css = SearchAt(css.tree, css.groups, css.at, css.node, css.group, css.i, css.cur, css.out)
  BY <1>1, SearchFields
<1>3. /\ Len(tree.parent) \in Nat \ {0} /\ 1 \in Elements(tree) /\ Elements(tree) \subseteq Nat
      /\ Elements(tree) = 1 .. Len(tree.parent)
  BY PageIs
<1>4. <<>> \in Seq(Elements(tree)) /\ DOMAIN <<>> = {} /\ ToSet(<<>>) = {}
  BY DEF ToSet
<1>5. Rising(css.out, css.node)
  BY <1>2, <1>4 DEF Rising
<1>6. at = "node" => Len(groups) \in Nat \ {0}
  BY DEF IsList
<1>7. CssFrame(css)
  BY <1>2, <1>3, <1>4, <1>5, <1>6 DEF CssFrame
<1>8. FoundSoFar(css)
  BY <1>2, <1>3, <1>4 DEF FoundSoFar
<1>9. NotBefore(css)
  BY <1>2 DEF NotBefore
<1>10. css.at # "left"
  BY <1>2
<1> QED
  BY <1>7, <1>8, <1>9, <1>10 DEF CssInv, CssMeans

\* The end of a chain matches its compound.
LEMMA ChainHolds ==
  ASSUME NEW tree, NEW complex, NEW k \in Nat \ {0}, NEW n, Chain(tree, complex, k, n)
  PROVE  CompoundMatch(tree, n, complex.parts[k])
<1>1. PICK f : f[k] = n /\ Filled(tree, complex, k, f)
  BY DEF Chain
<1>2. k \in 1 .. k
  OBVIOUS
<1> QED
  BY <1>1, <1>2 DEF Filled

\* What the current selector does not take is left to the next, or is not found at all.
LEMMA FurtherKeeps ==
  ASSUME CssInv, css.at \in {"node", "left"}, css' = Further,
         AllDecided(css.groups) => ~TakenBy(css.tree, css.groups[css.group], css.node)
  PROVE  CssInv'
<1> DEFINE s == css
           L == Len(css.tree.parent)
           G == Len(css.groups)
<1>1. /\ s = SearchAt(s.tree, s.groups, s.at, s.node, s.group, s.i, s.cur, s.out)
      /\ IsPage(s.tree) /\ s.cur \in Elements(s.tree) /\ s.out \in Seq(Elements(s.tree))
      /\ Rising(s.out, s.node) /\ IsList(s.groups) /\ s.node \in Elements(s.tree) /\ s.group \in 1 .. G
  BY DEF CssInv, CssFrame
<1>2. AllDecided(s.groups) => FoundSoFar(s) /\ NotBefore(s)
  BY DEF CssInv, CssMeans
<1>3. L \in Nat \ {0} /\ Elements(s.tree) = 1 .. L /\ G \in Nat \ {0}
  BY <1>1, PageIs DEF IsList
<1>4. CASE s.group < G
  <2>1. css' = SearchAt(s.tree, s.groups, "node", s.node, s.group + 1, s.i, s.cur, s.out)
    BY <1>1, <1>4 DEF Further, SearchAt
  <2>2. /\ css'.tree = s.tree /\ css'.groups = s.groups /\ css'.at = "node" /\ css'.node = s.node
        /\ css'.group = s.group + 1 /\ css'.cur = s.cur /\ css'.out = s.out
        /\ css' = SearchAt(css'.tree, css'.groups, css'.at, css'.node, css'.group, css'.i, css'.cur, css'.out)
    BY <2>1, SearchFields
  <2>3. s.group + 1 \in 1 .. G /\ s.node \in 1 .. L + 1
    BY <1>1, <1>3, <1>4
  <2>4. CssFrame(css')
    BY <1>1, <2>2, <2>3 DEF CssFrame
  <2>5. ASSUME AllDecided(s.groups) PROVE FoundSoFar(css') /\ NotBefore(css')
    <3>1. FoundSoFar(css')
      BY <1>2, <2>2, <2>5 DEF FoundSoFar
    <3>2. \A g \in 1 .. (s.group + 1) - 1 : g = s.group \/ g \in 1 .. s.group - 1
      BY <1>1
    <3>3. \A g \in 1 .. s.group - 1 : ~TakenBy(s.tree, s.groups[g], s.node)
      BY <1>2, <2>5 DEF NotBefore
    <3>4. NotBefore(css')
      BY <2>2, <2>5, <3>2, <3>3 DEF NotBefore
    <3> QED
      BY <3>1, <3>4
  <2>6. CssMeans(css')
    BY <2>2, <2>5 DEF CssMeans
  <2> QED
    BY <2>4, <2>6 DEF CssInv
<1>5. CASE ~(s.group < G)
  <2> DEFINE at == IF s.node < L THEN "node" ELSE "done"
  <2>1. css' = SearchAt(s.tree, s.groups, at, s.node + 1, 1, s.i, s.cur, s.out)
    BY <1>1, <1>5 DEF Further, SearchAt
  <2>2. /\ css'.tree = s.tree /\ css'.groups = s.groups /\ css'.at = at /\ css'.node = s.node + 1
        /\ css'.group = 1 /\ css'.cur = s.cur /\ css'.out = s.out
        /\ css' = SearchAt(css'.tree, css'.groups, css'.at, css'.node, css'.group, css'.i, css'.cur, css'.out)
    <3> HIDE DEF at
    <3> QED
      BY <2>1, SearchFields
  <2>3. /\ s.node + 1 \in 1 .. L + 1 /\ 1 \in 1 .. G
        /\ at = "node" => s.node + 1 \in Elements(s.tree)
        /\ at = "done" => s.node + 1 = L + 1
        /\ at \in {"node", "done"}
    BY <1>1, <1>3
  <2>4. Rising(s.out, s.node + 1)
    <3>1. \A i \in DOMAIN s.out : s.out[i] \in Elements(s.tree) /\ s.out[i] < s.node
      BY <1>1 DEF Rising
    <3>2. \A i \in DOMAIN s.out : s.out[i] < s.node + 1
      BY <1>1, <1>3, <3>1
    <3> QED
      BY <1>1, <3>2 DEF Rising
  <2> HIDE DEF at
  <2>5. CssFrame(css')
    BY <1>1, <2>2, <2>3, <2>4 DEF CssFrame
  <2>6. ASSUME AllDecided(s.groups) PROVE FoundSoFar(css') /\ NotBefore(css')
    <3>1. \A n : n \in ToSet(s.out) <=> n \in Elements(s.tree) /\ n < s.node /\ Chosen(s.tree, s.groups, n)
      BY <1>2, <2>6 DEF FoundSoFar
    <3>2. ~Chosen(s.tree, s.groups, s.node)
      <4>1. \A g \in 1 .. G : g = s.group \/ g \in 1 .. s.group - 1
        BY <1>1, <1>3, <1>5
      <4>2. \A g \in 1 .. s.group - 1 : ~TakenBy(s.tree, s.groups[g], s.node)
        BY <1>2, <2>6 DEF NotBefore
      <4> QED
        BY <2>6, <4>1, <4>2 DEF Chosen
    <3>3. \A n \in Elements(s.tree) : n < s.node + 1 <=> n < s.node \/ n = s.node
      BY <1>1, <1>3
    <3>4. FoundSoFar(css')
      BY <2>2, <3>1, <3>2, <3>3 DEF FoundSoFar
    <3>5. NotBefore(css')
      BY <2>2 DEF NotBefore
    <3> QED
      BY <3>4, <3>5
  <2>7. CssMeans(css')
    BY <2>2, <2>3, <2>6 DEF CssMeans
  <2> QED
    BY <2>5, <2>7 DEF CssInv
<1> QED
  BY <1>4, <1>5

\* The next candidate is looked at.
LEMMA CandidateKeeps ==
  ASSUME CssInv, Candidate
  PROVE  CssInv'
<1> DEFINE s == css
           last == Len(s.groups[s.group].parts)
<1>1. /\ s = SearchAt(s.tree, s.groups, s.at, s.node, s.group, s.i, s.cur, s.out)
      /\ IsPage(s.tree) /\ s.out \in Seq(Elements(s.tree)) /\ s.at = "node"
      /\ s.node \in 1 .. Len(s.tree.parent) + 1
      /\ Rising(s.out, s.node) /\ IsList(s.groups) /\ s.node \in Elements(s.tree)
      /\ s.group \in 1 .. Len(s.groups)
  BY DEF CssInv, CssFrame, Candidate
<1>2. AllDecided(s.groups) => FoundSoFar(s) /\ NotBefore(s)
  BY <1>1 DEF CssInv, CssMeans
<1>3. last \in Nat \ {0}
  BY <1>1 DEF IsList, IsSelector
<1>4. css' = IF CompoundMatch(s.tree, s.node, s.groups[s.group].parts[last])
             THEN [css EXCEPT !.at = "left", !.i = last - 1, !.cur = css.node] ELSE Further
  BY DEF Candidate, Complex
<1>5. CASE CompoundMatch(s.tree, s.node, s.groups[s.group].parts[last])
  <2>1. css' = SearchAt(s.tree, s.groups, "left", s.node, s.group, last - 1, s.node, s.out)
    <3>1. css' = [css EXCEPT !.at = "left", !.i = last - 1, !.cur = css.node]
      BY <1>4, <1>5
    <3> HIDE DEF last
    <3> QED
      BY <1>1, <3>1 DEF SearchAt
  <2> HIDE DEF last
  <2>2. /\ css'.tree = s.tree /\ css'.groups = s.groups /\ css'.at = "left" /\ css'.node = s.node
        /\ css'.group = s.group /\ css'.i = last - 1 /\ css'.cur = s.node /\ css'.out = s.out
        /\ css' = SearchAt(css'.tree, css'.groups, css'.at, css'.node, css'.group, css'.i, css'.cur, css'.out)
    BY <2>1, SearchFields
  <2>3. last - 1 \in 0 .. last - 1 /\ (last - 1) + 1 = last
    BY <1>3
  <2>4. CssFrame(css')
    BY <1>1, <2>2, <2>3 DEF CssFrame, last
  <2>5. ASSUME AllDecided(s.groups) PROVE FoundSoFar(css') /\ NotBefore(css')
    BY <1>2, <2>2, <2>5 DEF FoundSoFar, NotBefore
  <2>6. OnTheWay(css')
    <3>1. css'.i + 1 = last
      BY <2>2, <2>3
    <3> QED
      BY <1>5, <2>2, <3>1 DEF OnTheWay, TakenBy, last
  <2>7. CssMeans(css')
    BY <2>2, <2>5, <2>6 DEF CssMeans
  <2> QED
    BY <2>4, <2>7 DEF CssInv
<1>6. CASE ~CompoundMatch(s.tree, s.node, s.groups[s.group].parts[last])
  <2>1. ~TakenBy(s.tree, s.groups[s.group], s.node)
    BY <1>3, <1>6, ChainHolds DEF TakenBy
  <2>2. css' = Further
    BY <1>4, <1>6
  <2> QED
    BY <1>1, <2>1, <2>2, FurtherKeeps
<1> QED
  BY <1>5, <1>6

\* A candidate is taken.
LEMMA HitKeeps ==
  ASSUME CssInv, Hit
  PROVE  CssInv'
<1> DEFINE s == css
           L == Len(s.tree.parent)
           at == IF s.node < L THEN "node" ELSE "done"
<1>1. /\ s = SearchAt(s.tree, s.groups, s.at, s.node, s.group, s.i, s.cur, s.out)
      /\ IsPage(s.tree) /\ s.out \in Seq(Elements(s.tree)) /\ s.at = "left" /\ s.i = 0
      /\ s.node \in 1 .. L + 1 /\ s.cur \in Elements(s.tree)
      /\ Rising(s.out, s.node) /\ IsList(s.groups) /\ s.node \in Elements(s.tree)
      /\ s.group \in 1 .. Len(s.groups)
  BY DEF CssInv, CssFrame, Hit
<1>2. AllDecided(s.groups) => FoundSoFar(s) /\ NotBefore(s) /\ OnTheWay(s)
  BY <1>1 DEF CssInv, CssMeans
<1>3. L \in Nat \ {0} /\ Elements(s.tree) = 1 .. L /\ Len(s.groups) \in Nat \ {0}
  BY <1>1, PageIs DEF IsList
<1>4. css' = SearchAt(s.tree, s.groups, at, s.node + 1, 1, s.i, s.cur, Append(s.out, s.node))
  BY <1>1 DEF Hit, SearchAt
<1>5. /\ s.node + 1 \in 1 .. L + 1 /\ 1 \in 1 .. Len(s.groups)
      /\ at = "node" => s.node + 1 \in Elements(s.tree)
      /\ at = "done" => s.node + 1 = L + 1
      /\ at \in {"node", "done"}
  <2>1. CASE s.node < L
    <3>1. at = "node"
      BY <2>1
    <3>2. s.node + 1 \in 1 .. L /\ s.node + 1 \in 1 .. L + 1 /\ 1 \in 1 .. Len(s.groups)
      BY <1>1, <1>3, <2>1
    <3> HIDE DEF at
    <3> QED
      BY <1>3, <3>1, <3>2
  <2>2. CASE ~(s.node < L)
    <3>1. at = "done"
      BY <2>2
    <3>2. s.node = L /\ s.node + 1 \in 1 .. L + 1 /\ 1 \in 1 .. Len(s.groups)
      BY <1>1, <1>3, <2>2
    <3> HIDE DEF at
    <3> QED
      BY <3>1, <3>2
  <2> QED
    BY <2>1, <2>2
<1> HIDE DEF at
<1>6. /\ css'.tree = s.tree /\ css'.groups = s.groups /\ css'.at = at /\ css'.node = s.node + 1
      /\ css'.group = 1 /\ css'.cur = s.cur /\ css'.out = Append(s.out, s.node)
      /\ css' = SearchAt(css'.tree, css'.groups, css'.at, css'.node, css'.group, css'.i, css'.cur, css'.out)
  <2> DEFINE more == Append(s.out, s.node)
  <2>1. css' = SearchAt(s.tree, s.groups, at, s.node + 1, 1, s.i, s.cur, more)
    BY <1>4
  <2> HIDE DEF more
  <2>2. /\ css'.tree = s.tree /\ css'.groups = s.groups /\ css'.at = at /\ css'.node = s.node + 1
        /\ css'.group = 1 /\ css'.cur = s.cur /\ css'.out = more
        /\ css' = SearchAt(css'.tree, css'.groups, css'.at, css'.node, css'.group, css'.i, css'.cur, css'.out)
    BY <2>1, SearchFields
  <2> QED
    BY <2>2 DEF more
<1>7. /\ Append(s.out, s.node) \in Seq(Elements(s.tree)) /\ Rising(Append(s.out, s.node), s.node + 1)
      /\ \A n : n \in ToSet(Append(s.out, s.node)) <=> n \in ToSet(s.out) \/ n = s.node
  <2> DEFINE o == s.out
             n == s.node
             X == Elements(s.tree)
             more == Append(o, n)
  <2>1. o \in Seq(X) /\ n \in X /\ X \subseteq Nat /\ Rising(o, n)
    BY <1>1, <1>3
  <2> HIDE DEF o, n, X
  <2>2. /\ more \in Seq(X) /\ Len(o) \in Nat /\ DOMAIN o = 1 .. Len(o) /\ DOMAIN more = 1 .. Len(o) + 1
        /\ \A i \in 1 .. Len(o) : more[i] = o[i] /\ o[i] \in X
        /\ more[Len(o) + 1] = n
    BY <2>1
  <2> HIDE DEF more
  <2>3. \A i \in 1 .. Len(o) + 1 : i = Len(o) + 1 \/ i \in 1 .. Len(o)
    BY <2>2
  <2>4. /\ \A i, j \in 1 .. Len(o) : i < j => o[i] < o[j]
        /\ \A i \in 1 .. Len(o) : o[i] < n
    BY <2>1, <2>2 DEF Rising
  <2>5. ASSUME NEW i \in 1 .. Len(o) + 1, NEW j \in 1 .. Len(o) + 1, i < j PROVE more[i] < more[j]
    <3>1. i \in 1 .. Len(o)
      BY <2>2, <2>5
    <3>2. CASE j = Len(o) + 1
      BY <2>2, <2>4, <3>1, <3>2
    <3>3. CASE j \in 1 .. Len(o)
      BY <2>2, <2>4, <2>5, <3>1, <3>3
    <3> QED
      BY <2>3, <3>2, <3>3
  <2>6. ASSUME NEW i \in 1 .. Len(o) + 1 PROVE more[i] < n + 1
    <3>1. CASE i = Len(o) + 1
      BY <2>1, <2>2, <3>1
    <3>2. CASE i \in 1 .. Len(o)
      <4>1. more[i] = o[i] /\ o[i] \in X /\ o[i] < n
        BY <2>2, <2>4, <3>2
      <4>2. o[i] \in Nat /\ n \in Nat
        BY <2>1, <4>1
      <4> QED
        BY <4>1, <4>2
    <3> QED
      BY <2>3, <3>1, <3>2
  <2>7. ASSUME NEW m PROVE m \in ToSet(more) <=> m \in ToSet(o) \/ m = n
    <3>1. m \in ToSet(more) <=> \E i \in 1 .. Len(o) + 1 : more[i] = m
      BY <2>2 DEF ToSet
    <3>2. m \in ToSet(o) <=> \E i \in 1 .. Len(o) : o[i] = m
      BY <2>2 DEF ToSet
    <3>3. Len(o) + 1 \in 1 .. Len(o) + 1 /\ 1 .. Len(o) \subseteq 1 .. Len(o) + 1
      BY <2>2
    <3> QED
      BY <2>2, <2>3, <3>1, <3>2, <3>3
  <2>8. Rising(more, n + 1)
    BY <2>2, <2>5, <2>6 DEF Rising
  <2> QED
    BY <2>2, <2>7, <2>8 DEF more, o, n, X
<1>8. CssFrame(css')
  BY <1>1, <1>5, <1>6, <1>7 DEF CssFrame
<1>9. ASSUME AllDecided(s.groups) PROVE FoundSoFar(css') /\ NotBefore(css')
  <2>1. \A n : n \in ToSet(s.out) <=> n \in Elements(s.tree) /\ n < s.node /\ Chosen(s.tree, s.groups, n)
    BY <1>2, <1>9 DEF FoundSoFar
  <2>2. Chosen(s.tree, s.groups, s.node)
    <3> DEFINE complex == s.groups[s.group]
    <3>1. IsSelector(complex)
      BY <1>1 DEF IsList
    <3>2. s.i + 1 = 1
      BY <1>1
    <3>3. /\ CompoundMatch(s.tree, s.cur, complex.parts[1])
          /\ TakenBy(s.tree, complex, s.node) <=> Chain(s.tree, complex, 1, s.cur)
      BY <1>2, <1>9, <3>2 DEF OnTheWay
    <3> HIDE DEF complex
    <3>4. TakenBy(s.tree, complex, s.node)
      BY <1>1, <3>1, <3>3, ChainOne
    <3> QED
      BY <1>1, <3>4 DEF Chosen, complex
  <2>3. \A n \in Elements(s.tree) : n < s.node + 1 <=> n < s.node \/ n = s.node
    BY <1>1, <1>3
  <2>4. FoundSoFar(css')
    BY <1>1, <1>6, <1>7, <2>1, <2>2, <2>3 DEF FoundSoFar
  <2>5. NotBefore(css')
    BY <1>6 DEF NotBefore
  <2> QED
    BY <2>4, <2>5
<1>10. CssMeans(css')
  BY <1>5, <1>6, <1>9 DEF CssMeans
<1> QED
  BY <1>8, <1>10 DEF CssInv

\* Where the first element found decides.
LEMMA DecidedIs ==
  ASSUME NEW complex, IsSelector(complex), Decided(complex), NEW k \in 1 .. Len(complex.parts) - 1
  PROVE  /\ Inside(complex.combs[k]) => k = 1 \/ Inside(complex.combs[k - 1])
         /\ After(complex.combs[k]) =>
              k = 1 \/ Inside(complex.combs[k - 1]) \/ Directly(complex.combs[k - 1])
<1>1. k \in DOMAIN complex.combs /\ (k # 1 => k - 1 \in 1 .. k)
  BY DEF IsSelector
<1>2. Inside(complex.combs[k]) => \A j \in 1 .. k : Inside(complex.combs[j])
  BY <1>1, Zenon DEF Decided, Inside
<1>3. After(complex.combs[k]) => k = 1 \/ Inside(complex.combs[k - 1]) \/ Directly(complex.combs[k - 1])
  BY <1>1, Zenon DEF Decided, Inside, Directly, After
<1> QED
  BY <1>1, <1>2, <1>3

\* Where the search goes on to the left.
ToTheLeft(complex, k, n) ==
    LET comb == complex.combs[k]
        matching == Alike(css.tree, complex.parts[k]) IN
    CASE comb = ">" -> matching \intersect {ParentElement(css.tree, n)}
      [] comb = " " -> Nearest(matching, n)
      [] comb = "+" -> Adjacent(matching, n)
      [] comb = "~" -> General(matching, n)

\* The code looks to the left as each combinator says ...
LEMMA NextBy ==
  ASSUME NEW complex, NEW k, NEW n
  PROVE  LET matching == Alike(css.tree, complex.parts[k]) IN
         /\ Directly(complex.combs[k]) => ToTheLeft(complex, k, n) = matching \intersect {ParentElement(css.tree, n)}
         /\ Inside(complex.combs[k]) => ToTheLeft(complex, k, n) = Nearest(matching, n)
         /\ NextTo(complex.combs[k]) => ToTheLeft(complex, k, n) = Adjacent(matching, n)
         /\ After(complex.combs[k]) => ToTheLeft(complex, k, n) = General(matching, n)
<1> DEFINE matching == Alike(css.tree, complex.parts[k])
<1>1. Directly(complex.combs[k]) => ToTheLeft(complex, k, n) = matching \intersect {ParentElement(css.tree, n)}
  BY Zenon DEF ToTheLeft, Directly
<1>2. Inside(complex.combs[k]) => ToTheLeft(complex, k, n) = Nearest(matching, n)
  BY Zenon DEF ToTheLeft, Inside
<1>3. NextTo(complex.combs[k]) => ToTheLeft(complex, k, n) = Adjacent(matching, n)
  BY Zenon DEF ToTheLeft, NextTo
<1>4. After(complex.combs[k]) => ToTheLeft(complex, k, n) = General(matching, n)
  BY Zenon DEF ToTheLeft, After
<1> QED
  BY <1>1, <1>2, <1>3, <1>4, Zenon

\* ... and what it finds there decides, where anything can.
LEMMA NextIs ==
  ASSUME IsPage(css.tree), NEW complex, IsSelector(complex), NEW k \in 1 .. Len(complex.parts) - 1,
         NEW n \in Elements(css.tree)
  PROVE  /\ ToTheLeft(complex, k, n) \subseteq Alike(css.tree, complex.parts[k])
         /\ Decided(complex) /\ CompoundMatch(css.tree, n, complex.parts[k + 1]) =>
                Decides(css.tree, complex, k, n, ToTheLeft(complex, k, n))
<1> DEFINE fits == Alike(css.tree, complex.parts[k])
           next == ToTheLeft(complex, k, n)
           good == Decided(complex) /\ CompoundMatch(css.tree, n, complex.parts[k + 1])
           comb == complex.combs[k]
<1>1. Directly(comb) \/ Inside(comb) \/ NextTo(comb) \/ After(comb)
  <2>1. comb \in Joints
    BY DEF IsSelector
  <2> QED
    BY <2>1, Zenon DEF Joints, Directly, Inside, NextTo, After
<1>2. /\ Directly(comb) => next = fits \intersect {ParentElement(css.tree, n)}
      /\ Inside(comb) => next = Nearest(fits, n)
      /\ NextTo(comb) => next = Adjacent(fits, n)
      /\ After(comb) => next = General(fits, n)
  BY NextBy
<1>3. good => /\ Inside(comb) => k = 1 \/ Inside(complex.combs[k - 1])
              /\ After(comb) => k = 1 \/ Inside(complex.combs[k - 1]) \/ Directly(complex.combs[k - 1])
  BY DecidedIs
<1> HIDE DEF next
<1>4. CASE Directly(comb)
  <2>1. good => Decides(css.tree, complex, k, n, fits \intersect {ParentElement(css.tree, n)})
    BY <1>4, ParentDecides
  <2>2. next \subseteq fits
    BY <1>2, <1>4
  <2> QED
    BY <1>2, <1>4, <2>1, <2>2 DEF next
<1>5. CASE Inside(comb)
  <2>1. good => Decides(css.tree, complex, k, n, Nearest(fits, n))
    BY <1>3, <1>5, NearestDecides
  <2>2. Nearest(fits, n) \subseteq fits
    BY DEF Nearest
  <2> QED
    BY <1>2, <1>5, <2>1, <2>2 DEF next
<1>6. CASE NextTo(comb)
  <2>1. good => Decides(css.tree, complex, k, n, Adjacent(fits, n))
    BY <1>6, AdjacentDecides
  <2>2. Adjacent(fits, n) \subseteq fits
    BY DEF Adjacent
  <2> QED
    BY <1>2, <1>6, <2>1, <2>2 DEF next
<1>7. CASE After(comb)
  <2>1. good => Decides(css.tree, complex, k, n, General(fits, n))
    BY <1>3, <1>7, GeneralDecides
  <2>2. General(fits, n) \subseteq fits
    <3> DEFINE S == fits \intersect ToSet(Siblings(css.tree, n))
    <3>1. General(fits, n) = IF {m \in S : m < n} = {} THEN {} ELSE {Max(S)}
      BY DEF General
    <3>2. Len(css.tree.parent) \in Nat /\ S \subseteq 1 .. Len(css.tree.parent)
      BY PageIs DEF Alike
    <3>3. S \subseteq fits
      OBVIOUS
    <3> HIDE DEF S, fits
    <3>4. S # {} => Max(S) \in S
      <4> SUFFICES ASSUME S # {} PROVE Max(S) \in S
        OBVIOUS
      <4>1. PICK x \in S : \A y \in S : y <= x
        BY <3>2, LargestOne
      <4>2. \A y \in S : x >= y
        BY <3>2, <4>1
      <4>3. Max(S) = CHOOSE z \in S : \A y \in S : z >= y
        BY DEF Max
      <4> QED
        BY <4>2, <4>3
    <3> QED
      BY <3>1, <3>3, <3>4
  <2> QED
    BY <1>2, <1>7, <2>1, <2>2 DEF next
<1> QED
  BY <1>1, <1>4, <1>5, <1>6, <1>7

\* The search goes one compound to the left.
LEMMA LeftKeeps ==
  ASSUME CssInv, Left
  PROVE  CssInv'
<1> DEFINE s == css
           complex == s.groups[s.group]
           next == ToTheLeft(complex, s.i, s.cur)
<1>1. /\ s = SearchAt(s.tree, s.groups, s.at, s.node, s.group, s.i, s.cur, s.out)
      /\ IsPage(s.tree) /\ s.out \in Seq(Elements(s.tree)) /\ s.at = "left" /\ s.i > 0
      /\ s.i \in 0 .. Len(complex.parts) - 1
      /\ s.node \in 1 .. Len(s.tree.parent) + 1 /\ s.cur \in Elements(s.tree)
      /\ Rising(s.out, s.node) /\ IsList(s.groups) /\ s.node \in Elements(s.tree)
      /\ s.group \in 1 .. Len(s.groups)
  BY DEF CssInv, CssFrame, Left
<1>2. AllDecided(s.groups) => FoundSoFar(s) /\ NotBefore(s) /\ OnTheWay(s)
  BY <1>1 DEF CssInv, CssMeans
<1>3. css' = IF next = {} THEN Further ELSE [css EXCEPT !.cur = CHOOSE m \in next : TRUE, !.i = @ - 1]
  BY Zenon DEF Left, Complex, ToTheLeft, Alike
<1>4. IsSelector(complex)
  BY <1>1 DEF IsList
<1>5. s.i \in 1 .. Len(complex.parts) - 1 /\ Len(complex.parts) \in Nat
  BY <1>1, <1>4 DEF IsSelector
<1>6. AllDecided(s.groups) => /\ Decided(complex) /\ CompoundMatch(s.tree, s.cur, complex.parts[s.i + 1])
                              /\ TakenBy(s.tree, complex, s.node) <=> Chain(s.tree, complex, s.i + 1, s.cur)
  BY <1>1, <1>2 DEF AllDecided, OnTheWay
<1>7. next \subseteq Alike(s.tree, complex.parts[s.i])
  BY <1>1, <1>4, <1>5, NextIs
<1>8. AllDecided(s.groups) => Decides(s.tree, complex, s.i, s.cur, next)
  BY <1>1, <1>4, <1>5, <1>6, NextIs
<1> HIDE DEF next
<1>9. CASE next = {}
  <2>1. AllDecided(s.groups) => ~TakenBy(s.tree, complex, s.node)
    BY <1>6, <1>8, <1>9 DEF Decides
  <2>2. css' = Further
    BY <1>3, <1>9
  <2> QED
    BY <1>1, <2>1, <2>2, FurtherKeeps
<1>10. CASE next # {}
  <2> DEFINE m == CHOOSE o \in next : TRUE
             i == s.i - 1
  <2>1. m \in next
    BY <1>10
  <2>2. css' = SearchAt(s.tree, s.groups, "left", s.node, s.group, i, m, s.out)
    <3>1. css' = [css EXCEPT !.cur = m, !.i = @ - 1]
      BY <1>3, <1>10
    <3> HIDE DEF m
    <3> QED
      BY <1>1, <3>1 DEF SearchAt
  <2>3. i \in 0 .. Len(complex.parts) - 1 /\ i + 1 = s.i
    BY <1>5
  <2> HIDE DEF m, i
  <2>4. /\ css'.tree = s.tree /\ css'.groups = s.groups /\ css'.at = "left" /\ css'.node = s.node
        /\ css'.group = s.group /\ css'.i = i /\ css'.cur = m /\ css'.out = s.out
        /\ css' = SearchAt(css'.tree, css'.groups, css'.at, css'.node, css'.group, css'.i, css'.cur, css'.out)
    BY <2>2, SearchFields
  <2>5. m \in Elements(s.tree) /\ CompoundMatch(s.tree, m, complex.parts[s.i])
    BY <1>7, <2>1 DEF Alike
  <2>6. CssFrame(css')
    BY <1>1, <2>3, <2>4, <2>5 DEF CssFrame
  <2>7. ASSUME AllDecided(s.groups) PROVE FoundSoFar(css') /\ NotBefore(css') /\ OnTheWay(css')
    <3>1. FoundSoFar(css')
      BY <1>2, <2>4, <2>7 DEF FoundSoFar
    <3>2. NotBefore(css')
      BY <1>2, <2>4, <2>7 DEF NotBefore
    <3>3. TakenBy(s.tree, complex, s.node) <=> Chain(s.tree, complex, s.i, m)
      BY <1>6, <1>8, <2>1, <2>7 DEF Decides
    <3>4. css'.i + 1 = s.i
      BY <2>3, <2>4
    <3>5. OnTheWay(css')
      BY <2>4, <2>5, <3>3, <3>4 DEF OnTheWay
    <3> QED
      BY <3>1, <3>2, <3>5
  <2>8. CssMeans(css')
    BY <2>4, <2>7 DEF CssMeans
  <2> QED
    BY <2>6, <2>8 DEF CssInv
<1> QED
  BY <1>9, <1>10

\* Every step.
LEMMA CssGoesOn ==
  ASSUME CssInv, [CssNext]_cssVars
  PROVE  CssInv'
<1>1. CASE CssNext
  BY <1>1, CandidateKeeps, HitKeeps, LeftKeeps DEF CssNext
<1>2. CASE UNCHANGED cssVars
  BY <1>2 DEF cssVars, CssInv
<1> QED
  BY <1>1, <1>2

\* What the invariant says of the types.
LEMMA CssTyped ==
  ASSUME CssInv
  PROVE  CssTypeOK
BY DEF CssInv, CssFrame, CssTypeOK

\* At the end what was found is what the selectors mean.
LEMMA SelectorsFind ==
  ASSUME CssInv
  PROVE  FindsWhatIsDecided
<1> SUFFICES ASSUME css.at = "done"
             PROVE  /\ \A i, j \in DOMAIN css.out : i < j => css.out[i] < css.out[j]
                    /\ (\A g \in DOMAIN css.groups : Decided(css.groups[g])) =>
                            ToSet(css.out) = Meaning(css.groups)
  BY DEF FindsWhatIsDecided
<1>1. /\ IsPage(css.tree) /\ Rising(css.out, css.node) /\ IsList(css.groups)
      /\ css.node = Len(css.tree.parent) + 1
  BY DEF CssInv, CssFrame
<1>2. \A i, j \in DOMAIN css.out : i < j => css.out[i] < css.out[j]
  BY <1>1 DEF Rising
<1>3. ASSUME \A g \in DOMAIN css.groups : Decided(css.groups[g])
      PROVE  ToSet(css.out) = Meaning(css.groups)
  <2>1. DOMAIN css.groups = 1 .. Len(css.groups) /\ \A g \in 1 .. Len(css.groups) : IsSelector(css.groups[g])
    BY <1>1 DEF IsList
  <2>2. AllDecided(css.groups)
    BY <1>3, <2>1 DEF AllDecided
  <2>3. FoundSoFar(css)
    BY <2>2 DEF CssInv, CssMeans
  <2>4. \A n \in Elements(css.tree) : n < css.node
    BY <1>1, PageIs
  <2>5. \A n : n \in ToSet(css.out) <=> n \in Elements(css.tree) /\ Chosen(css.tree, css.groups, n)
    BY <2>3, <2>4 DEF FoundSoFar
  <2>6. ASSUME NEW n
        PROVE  Chosen(css.tree, css.groups, n) <=>
               \E g \in DOMAIN css.groups : Selected(css.tree, css.groups[g], n)
    <3>1. ASSUME NEW g \in 1 .. Len(css.groups)
          PROVE  TakenBy(css.tree, css.groups[g], n) <=> Selected(css.tree, css.groups[g], n)
      <4>1. IsSelector(css.groups[g])
        BY <2>1
      <4> QED
        BY <1>1, <4>1, SelectedIs DEF TakenBy
    <3> QED
      BY <2>1, <3>1 DEF Chosen
  <2>7. \A n : n \in Meaning(css.groups) <=>
               n \in Elements(css.tree) /\ \E g \in DOMAIN css.groups : Selected(css.tree, css.groups[g], n)
    BY DEF Meaning
  <2>8. \A n : n \in ToSet(css.out) <=> n \in Meaning(css.groups)
    BY <2>5, <2>6, <2>7
  <2> QED
    BY <2>8
<1> QED
  BY <1>2, <1>3

-----------------------------------------------------------------------------
(* Next to the other parts, which leave them alone. *)

\* Paths and JSoup rules.
LEMMA StepsInService ==
  /\ ServiceInit => StepInv
  /\ StepInv /\ [ServiceNext]_serviceVars => StepInv'
<1>1. ServiceInit => StepInv
  <2> SUFFICES ASSUME ServiceInit
               PROVE  StepInv
    OBVIOUS
  <2>1. StepInit \/ StepsAtRest
    BY DEF ServiceInit
  <2>2. CASE StepInit
    <3>1. PICK t \in StepPages :
              \/ \E p \in Paths : StepStart(t, p, "xpath")
              \/ \E r \in SoupRules : StepStart(t, r, "soup")
      BY <2>2 DEF StepInit
    <3>2. IsPage(t)
      BY StepsAreRead
    <3> QED
      BY <3>1, <3>2, StepStarts
  <2> QED
    BY <2>1, <2>2, StepsRest
<1>2. ServiceNext => StepNext \/ UNCHANGED stepVars
  BY DEF ServiceNext
<1>3. UNCHANGED serviceVars => UNCHANGED stepVars
  BY DEF serviceVars
<1>4. [ServiceNext]_serviceVars => [StepNext]_stepVars
  BY <1>2, <1>3
<1> QED
  BY <1>1, <1>4, StepsGoOn

\* JSON paths.
LEMMA JsonInService ==
  /\ ServiceInit => JsonInv
  /\ JsonInv /\ [ServiceNext]_serviceVars => JsonInv'
<1>1. ServiceInit => JsonInv
  <2> SUFFICES ASSUME ServiceInit
               PROVE  JsonInv
    OBVIOUS
  <2>1. JsonInit \/ JsonStart(Null, <<>>, "idle")
    BY DEF ServiceInit
  <2>2. Null \in JsonValues
    BY JsonIsWhole
  <2> QED
    BY <2>1, <2>2, JsonStarts DEF JsonInit
<1>2. ServiceNext => JsonNext \/ UNCHANGED jsonVars
  BY DEF ServiceNext
<1>3. UNCHANGED serviceVars => UNCHANGED jsonVars
  BY DEF serviceVars
<1>4. [ServiceNext]_serviceVars => [JsonNext]_jsonVars
  BY <1>2, <1>3
<1> QED
  BY <1>1, <1>4, JsonGoesOn

\* Selectors.
LEMMA CssInService ==
  /\ ServiceInit => CssInv
  /\ CssInv /\ [ServiceNext]_serviceVars => CssInv'
<1>1. ServiceInit => CssInv
  <2> SUFFICES ASSUME ServiceInit
               PROVE  CssInv
    OBVIOUS
  <2>1. CssInit \/ CssAtRest
    BY DEF ServiceInit
  <2>2. CASE CssInit
    <3>1. PICK t \in CssPages, g \in CssSelectors : CssStart(t, g, "node")
      BY <2>2 DEF CssInit
    <3>2. IsPage(t)
      BY CssIsRead
    <3>3. IsList(g)
      BY SelectorsAreRead
    <3> QED
      BY <3>1, <3>2, <3>3, CssStarts
  <2>3. CASE CssAtRest
    <3> DEFINE tree == [parent |-> <<0>>, labels |-> <<{}>>]
    <3>1. IsPage(tree)
      BY DEF IsPage, Elements
    <3>2. CssStart(tree, <<>>, "idle")
      BY <2>3 DEF CssAtRest
    <3> HIDE DEF tree
    <3> QED
      BY <3>1, <3>2, CssStarts
  <2> QED
    BY <2>1, <2>2, <2>3
<1>2. ServiceNext => CssNext \/ UNCHANGED cssVars
  BY DEF ServiceNext
<1>3. UNCHANGED serviceVars => UNCHANGED cssVars
  BY DEF serviceVars
<1>4. [ServiceNext]_serviceVars => [CssNext]_cssVars
  BY <1>2, <1>3
<1> QED
  BY <1>1, <1>4, CssGoesOn

\* Whatever page and rule, an XPath ends with all its path leads to, each once
\* (XPathEngine::evaluate), and a JSoup rule of one step and what to take of it takes that of every
\* element of the step and nothing else (DefaultJSoupSelector::select).
THEOREM PathsFollow == ServiceSpec => [](StepTypeOK /\ PathsAreFollowed /\ SingleStepsAreExact)
<1>1. ServiceInit => StepInv
  BY StepsInService
<1>2. StepInv /\ [ServiceNext]_serviceVars => StepInv'
  BY StepsInService
<1>3. StepInv => StepTypeOK /\ PathsAreFollowed /\ SingleStepsAreExact
  BY StepsTyped, PathsLead, SinglesAreExact
<1> QED
  BY <1>1, <1>2, <1>3, PTL DEF ServiceSpec

\* Whatever value and path, a plain path gives the nodes JSONPath leads to
\* (JsonPathSelector::selectSingle).
THEOREM JsonFollows == ServiceSpec => [](JsonTypeOK /\ JsonPathsAreFollowed)
<1>1. ServiceInit => JsonInv
  BY JsonInService
<1>2. JsonInv /\ [ServiceNext]_serviceVars => JsonInv'
  BY JsonInService
<1>3. JsonInv => JsonTypeOK /\ JsonPathsAreFollowed
  BY JsonTyped, JsonsFollowed
<1> QED
  BY <1>1, <1>2, <1>3, PTL DEF ServiceSpec

\* Whatever page and selectors, a search finds in document order, each once, and finds what the
\* selectors mean if the first element found to the left decides (css_engine.h:27).
THEOREM SelectorsFollow == ServiceSpec => [](CssTypeOK /\ FindsWhatIsDecided)
<1>1. ServiceInit => CssInv
  BY CssInService
<1>2. CssInv /\ [ServiceNext]_serviceVars => CssInv'
  BY CssInService
<1>3. CssInv => CssTypeOK /\ FindsWhatIsDecided
  BY CssTyped, SelectorsFind
<1> QED
  BY <1>1, <1>2, <1>3, PTL DEF ServiceSpec
=============================================================================
