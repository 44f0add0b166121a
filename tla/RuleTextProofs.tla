--------------------------- MODULE RuleTextProofs ---------------------------
(***************************************************************************)
(* For any rule text: it is cut at the separators outside its brackets and *)
(* nowhere else.  For any list of indexes as it is written: what is read   *)
(* are the indexes that were written, and the places taken are the ones    *)
(* they name.                                                              *)
(*                                                                         *)
(* What is outside the brackets of a rule is a recursive function of the   *)
(* position, so it is shown to be defined first.  The invariant of the     *)
(* splitter says that what is outside beyond the position is what is       *)
(* outside at all; that of the reader, in which figure of which item it    *)
(* stands, and that it has read what is behind.                            *)
(*                                                                         *)
(* At the end the parts of SourceService are put together.                 *)
(***************************************************************************)
EXTENDS RuleProofs

-----------------------------------------------------------------------------
(* How a rule is cut. *)

\* The first of some tokens.
LEMMA WhereIs ==
  ASSUME NEW q, Len(q) \in Nat, NEW p \in 0 .. Len(q), NEW tokens
  PROVE  /\ Where(q, p, tokens) \in p .. Len(q)
         /\ Where(q, p, tokens) < Len(q) => q[Where(q, p, tokens) + 1] \in tokens
         /\ \A i \in p .. Where(q, p, tokens) - 1 : q[i + 1] \notin tokens
<1> DEFINE S == {i \in p .. Len(q) - 1 : q[i + 1] \in tokens}
           w == Where(q, p, tokens)
<1>1. w = IF S = {} THEN Len(q) ELSE Min(S)
  BY DEF Where
<1>2. \A i : i \in S <=> i \in p .. Len(q) - 1 /\ q[i + 1] \in tokens
  OBVIOUS
<1> HIDE DEF S
<1>3. CASE S = {}
  <2>1. w = Len(q)
    BY <1>1, <1>3
  <2>2. \A i \in p .. w - 1 : i \in p .. Len(q) - 1
    BY <2>1
  <2> HIDE DEF w
  <2>3. \A i \in p .. w - 1 : q[i + 1] \notin tokens
    BY <1>2, <1>3, <2>2
  <2>4. w \in p .. Len(q) /\ ~(w < Len(q))
    BY <2>1
  <2> QED
    BY <2>3, <2>4 DEF w
<1>4. CASE S # {}
  <2>1. S \subseteq Nat
    BY <1>2
  <2>2. PICK x \in S : \A y \in S : x <= y
    BY <1>4, <2>1, LeastNumber
  <2>3. Min(S) = CHOOSE z \in S : \A y \in S : z <= y
    BY DEF Min
  <2>4. w \in S /\ \A y \in S : w <= y
    BY <1>1, <1>4, <2>2, <2>3
  <2> HIDE DEF w
  <2>5. w \in p .. Len(q) - 1 /\ q[w + 1] \in tokens
    BY <1>2, <2>4
  <2>6. ASSUME NEW i \in p .. w - 1 PROVE q[i + 1] \notin tokens
    <3>1. i \in p .. Len(q) - 1 /\ ~(w <= i)
      BY <2>5
    <3> QED
      BY <1>2, <2>4, <3>1
  <2>7. w \in p .. Len(q)
    BY <2>5
  <2> QED
    BY <2>5, <2>6, <2>7 DEF w
<1> QED
  BY <1>3, <1>4

\* Past a bracket.
CloseBody(q, open, close, i, f, depth, quoted) ==
    IF depth = 0 THEN i
    ELSE IF i >= Len(q) THEN Failed
    ELSE LET c == q[i + 1]
         IN  IF c = "'" THEN f[i + 1][depth][~quoted]
             ELSE IF quoted THEN f[i + 1][depth][TRUE]
             ELSE IF c = "\\" THEN f[i + 2][depth][FALSE]
             ELSE f[i + 1][IF c = open THEN depth + 1 ELSE IF c = close THEN depth - 1 ELSE depth][FALSE]

\* What it looks at.
Looks(q, open, close, i, depth, quoted, j, d, b) ==
    /\ j \in Nat /\ i < j /\ (d = 0 => j <= Len(q))
    /\ \A f : CloseBody(q, open, close, i, f, depth, quoted) = f[j][d][b]

LooksOn(q, open, close, i, depth, quoted) ==
    \E j \in Nat, d \in Nat, b \in BOOLEAN : Looks(q, open, close, i, depth, quoted, j, d, b)

\* Inside a bracket the search for its end goes on at every letter.
LEMMA BodyLooks ==
  ASSUME NEW q, NEW open, NEW close, Len(q) \in Nat, NEW i \in Nat, NEW depth \in Nat, depth # 0, NEW quoted \in BOOLEAN,
         ~(i >= Len(q))
  PROVE  LooksOn(q, open, close, i, depth, quoted)
<1> SUFFICES \E j \in Nat, d \in Nat, b \in BOOLEAN : Looks(q, open, close, i, depth, quoted, j, d, b)
  BY Zenon DEF LooksOn
<1> DEFINE c == q[i + 1]
<1>0. depth # 0 /\ i + 1 \in Nat /\ i < i + 1 /\ i + 1 <= Len(q) /\ i + 2 \in Nat /\ i < i + 2
  OBVIOUS
<1>1. CASE c = "'"
  <2>1. \A f : CloseBody(q, open, close, i, f, depth, quoted) = f[i + 1][depth][~quoted]
    BY <1>0, <1>1, Zenon DEF CloseBody
  <2>2. (~quoted) \in BOOLEAN
    OBVIOUS
  <2>3. Looks(q, open, close, i, depth, quoted, i + 1, depth, ~quoted)
    BY <1>0, <2>1, Zenon DEF Looks
  <2> QED
    BY <1>0, <2>2, <2>3
<1>2. CASE c # "'" /\ quoted
  <2>1. \A f : CloseBody(q, open, close, i, f, depth, quoted) = f[i + 1][depth][TRUE]
    BY <1>0, <1>2, Zenon DEF CloseBody
  <2>2. Looks(q, open, close, i, depth, quoted, i + 1, depth, TRUE)
    BY <1>0, <2>1, Zenon DEF Looks
  <2> QED
    BY <1>0, <2>2
<1>3. CASE c # "'" /\ ~quoted /\ c = "\\"
  <2>1. \A f : CloseBody(q, open, close, i, f, depth, quoted) = f[i + 2][depth][FALSE]
    BY <1>0, <1>3, Zenon DEF CloseBody
  <2>2. Looks(q, open, close, i, depth, quoted, i + 2, depth, FALSE)
    BY <1>0, <2>1, Zenon DEF Looks
  <2> QED
    BY <1>0, <2>2
<1>4. CASE c # "'" /\ ~quoted /\ c # "\\"
  <2> DEFINE d == IF c = open THEN depth + 1 ELSE IF c = close THEN depth - 1 ELSE depth
  <2>1. \A f : CloseBody(q, open, close, i, f, depth, quoted) = f[i + 1][d][FALSE]
    BY <1>0, <1>4, Zenon DEF CloseBody
  <2>2. d \in Nat
    OBVIOUS
  <2> HIDE DEF d
  <2>3. Looks(q, open, close, i, depth, quoted, i + 1, d, FALSE)
    BY <1>0, <2>1, Zenon DEF Looks
  <2> QED
    BY <1>0, <2>2, <2>3
<1> QED
  BY <1>1, <1>2, <1>3, <1>4

\* How much is left.
Remains(n) == [i \in Nat |-> IF i < n THEN n - i ELSE 0]
\* What remains of a rule grows less as the position moves on.
LEMMA RemainsLess ==
  ASSUME NEW n \in Nat
  PROVE  /\ Remains(n) \in [Nat -> Nat]
         /\ \A i, j \in Nat : i < n /\ i < j => Remains(n)[j] < Remains(n)[i]
BY DEF Remains

\* A bracket that is closed is closed within the rule.
LEMMA CloseIs ==
  ASSUME NEW q, Len(q) \in Nat, NEW p \in Nat
  PROVE  Close(q, p) = Failed \/ Close(q, p) \in p + 2 .. Len(q)
<1> DEFINE n == Len(q)
           open == q[p + 1]
           close == IF open = "[" THEN "]" ELSE ")"
           body(i, f) == [depth \in Nat |-> [quoted \in BOOLEAN |-> CloseBody(q, open, close, i, f, depth, quoted)]]
           V == [Nat -> [BOOLEAN -> Int]]
           G == [af \in Nat \X [Nat -> V] |-> body(af[1], af[2])]
           size == Remains(n)
           h == CHOOSE f : f = [i \in Nat |-> body(i, f)]
<1>1. Close(q, p) = h[p + 1][1][FALSE]
  BY Zenon DEF Close, CloseBody
<1>2. \A i \in Nat : \A f \in [Nat -> V] : G[i, f] = body(i, f)
  OBVIOUS
<1> HIDE DEF close, open, G
<1>3. \A i, depth \in Nat : \A quoted \in BOOLEAN : \A f \in [Nat -> V] :
        CloseBody(q, open, close, i, f, depth, quoted) \in Int
  <2> SUFFICES ASSUME NEW i \in Nat, NEW depth \in Nat, NEW quoted \in BOOLEAN, NEW f \in [Nat -> V]
               PROVE  CloseBody(q, open, close, i, f, depth, quoted) \in Int
    OBVIOUS
  <2>1. CASE depth = 0
    BY <2>1 DEF CloseBody
  <2>2. CASE depth # 0 /\ i >= n
    BY <2>2 DEF CloseBody, Failed
  <2>3. CASE depth # 0 /\ ~(i >= n)
    <3>0. PICK j \in Nat, d \in Nat, b \in BOOLEAN : Looks(q, open, close, i, depth, quoted, j, d, b)
      <4>1. LooksOn(q, open, close, i, depth, quoted)
        BY <2>3, BodyLooks
      <4> QED
        BY <4>1, Zenon DEF LooksOn
    <3>1. CloseBody(q, open, close, i, f, depth, quoted) = f[j][d][b]
      BY <3>0, Zenon DEF Looks
    <3>3. f[j] \in V
      OBVIOUS
    <3>4. f[j][d][b] \in Int
      BY <3>3
    <3> QED
      BY <3>1, <3>4
  <2> QED
    BY <2>1, <2>2, <2>3
<1>4. StaysIn(Nat, V, G)
  <2> SUFFICES ASSUME NEW i \in Nat, NEW f \in [Nat -> V] PROVE G[i, f] \in V
    BY Zenon DEF StaysIn
  <2>1. body(i, f) \in V
    BY <1>3
  <2> QED
    BY <1>2, <2>1
<1>5. LooksBelow(Nat, size, V, G)
  <2> SUFFICES ASSUME NEW i \in Nat, NEW f \in [Nat -> V], NEW g \in [Nat -> V],
                      \A k \in Nat : size[k] < size[i] => f[k] = g[k]
               PROVE  G[i, f] = G[i, g]
    BY Zenon DEF LooksBelow
  <2>1. ASSUME NEW depth \in Nat, NEW quoted \in BOOLEAN
        PROVE  CloseBody(q, open, close, i, f, depth, quoted) = CloseBody(q, open, close, i, g, depth, quoted)
    <3>1. CASE depth = 0
      BY <3>1 DEF CloseBody
    <3>2. CASE depth # 0 /\ i >= n
      BY <3>2 DEF CloseBody
    <3>3. CASE depth # 0 /\ ~(i >= n)
      <4>0. PICK j \in Nat, d \in Nat, b \in BOOLEAN : Looks(q, open, close, i, depth, quoted, j, d, b)
        <5>1. LooksOn(q, open, close, i, depth, quoted)
          BY <3>3, BodyLooks
        <5> QED
          BY <5>1, Zenon DEF LooksOn
      <4>1. /\ CloseBody(q, open, close, i, f, depth, quoted) = f[j][d][b]
            /\ CloseBody(q, open, close, i, g, depth, quoted) = g[j][d][b]
        BY <4>0, Zenon DEF Looks
      <4>2. size[j] < size[i]
        <5>1. i < n /\ n \in Nat
          BY <3>3
        <5>2. i < j
          BY <4>0, Zenon DEF Looks
        <5> QED
          BY <5>1, <5>2, RemainsLess
      <4>3. f[j] = g[j]
        BY <4>2
      <4> QED
        BY <4>1, <4>3
    <3> QED
      BY <3>1, <3>2, <3>3
  <2>2. body(i, f) = body(i, g)
    BY <2>1
  <2>3. G[i, f] = body(i, f)
    BY <1>2
  <2>4. G[i, g] = body(i, g)
    BY <1>2
  <2> QED
    BY <2>2, <2>3, <2>4
<1>6. size \in [Nat -> Nat]
  BY RemainsLess
<1>7. [d \in Nat |-> [b \in BOOLEAN |-> 0]] \in V
  OBVIOUS
<1> HIDE DEF size
<1>8. PICK f \in [Nat -> V] : \A i \in Nat : f[i] = G[i, f]
  <2> HIDE DEF V
  <2>1. Solvable(Nat, V, G)
    BY <1>4, <1>5, <1>6, <1>7, Recursion
  <2> QED
    BY <2>1, Zenon DEF Solvable
<1>9. h = [i \in Nat |-> body(i, h)]
  <2>1. ASSUME NEW i \in Nat PROVE f[i] = body(i, f)
    BY <1>2, <1>8
  <2>2. f = [i \in Nat |-> f[i]]
    OBVIOUS
  <2> HIDE DEF body
  <2>3. f = [i \in Nat |-> body(i, f)]
    BY <2>1, <2>2
  <2> QED
    BY <2>3
<1> HIDE DEF h
<1>10. \A i, depth \in Nat : \A quoted \in BOOLEAN : h[i][depth][quoted] = CloseBody(q, open, close, i, h, depth, quoted)
  <2> SUFFICES ASSUME NEW i \in Nat, NEW depth \in Nat, NEW quoted \in BOOLEAN
               PROVE  h[i][depth][quoted] = CloseBody(q, open, close, i, h, depth, quoted)
    OBVIOUS
  <2>1. h[i] = body(i, h)
    BY <1>9
  <2> QED
    BY <2>1
<1> DEFINE Fine(i) == \A d \in Nat : \A b \in BOOLEAN :
              \/ h[i][d][b] = Failed
              \/ d = 0 /\ h[i][d][b] = i
              \/ h[i][d][b] \in i + 1 .. n
           U == {k \in Nat : \A i \in Nat : i + k >= n => Fine(i)}
<1>11. 0 \in U
  <2>1. ASSUME NEW i \in Nat, i >= n, NEW d \in Nat, NEW b \in BOOLEAN
        PROVE  h[i][d][b] = Failed \/ (d = 0 /\ h[i][d][b] = i)
    <3>1. h[i][d][b] = CloseBody(q, open, close, i, h, d, b)
      BY <1>10
    <3>2. d = 0 => CloseBody(q, open, close, i, h, d, b) = i
      BY Zenon DEF CloseBody
    <3>3. d # 0 => CloseBody(q, open, close, i, h, d, b) = Failed
      BY <2>1, Zenon DEF CloseBody
    <3> QED
      BY <3>1, <3>2, <3>3
  <2>2. \A i \in Nat : i + 0 >= n => i >= n
    OBVIOUS
  <2>3. \A i \in Nat : i + 0 >= n => Fine(i)
    BY <2>1, <2>2
  <2> HIDE DEF Fine
  <2> QED
    BY <2>3
<1>12. ASSUME NEW k \in Nat, k \in U PROVE k + 1 \in U
  <2>1. ASSUME NEW i \in Nat, i + (k + 1) >= n, NEW d \in Nat, NEW b \in BOOLEAN
        PROVE  h[i][d][b] = Failed \/ (d = 0 /\ h[i][d][b] = i) \/ h[i][d][b] \in i + 1 .. n
    <3>1. h[i][d][b] = CloseBody(q, open, close, i, h, d, b)
      BY <1>10
    <3>2. CASE d = 0
      BY <3>1, <3>2 DEF CloseBody
    <3>3. CASE d # 0 /\ i >= n
      BY <3>1, <3>3 DEF CloseBody
    <3>4. CASE d # 0 /\ ~(i >= n)
      <4>0. PICK j \in Nat, e \in Nat, a \in BOOLEAN : Looks(q, open, close, i, d, b, j, e, a)
        <5>1. LooksOn(q, open, close, i, d, b)
          BY <3>4, BodyLooks
        <5> QED
          BY <5>1, Zenon DEF LooksOn
      <4>1. j > i /\ (e = 0 => j <= n) /\ CloseBody(q, open, close, i, h, d, b) = h[j][e][a]
        BY <4>0, Zenon DEF Looks
      <4>2. j + k >= n
        BY <2>1, <4>1
      <4>3. Fine(j)
        BY <1>12, <4>2
      <4>4. h[j][e][a] = Failed \/ (e = 0 /\ h[j][e][a] = j) \/ h[j][e][a] \in j + 1 .. n
        BY <4>3
      <4> DEFINE v == h[j][e][a]
      <4>5. h[i][d][b] = v
        BY <3>1, <4>1
      <4>6. v = Failed \/ (e = 0 /\ v = j) \/ v \in j + 1 .. n
        BY <4>4
      <4> HIDE DEF v
      <4>7. v = Failed \/ v \in i + 1 .. n
        <5>1. j > i /\ (e = 0 => j <= n) /\ n \in Nat
          BY <4>1
        <5>2. CASE e = 0 /\ v = j
          <6>1. j \in i + 1 .. n
            BY <5>1, <5>2
          <6> QED
            BY <5>2, <6>1
        <5>3. CASE v \in j + 1 .. n
          BY <5>1, <5>3
        <5> QED
          BY <4>6, <5>2, <5>3
      <4> QED
        BY <4>5, <4>7
    <3> QED
      BY <3>2, <3>3, <3>4
  <2>2. \A i \in Nat : i + (k + 1) >= n => Fine(i)
    BY <2>1
  <2> QED
    BY <2>2
<1>13. n \in U
  <2>1. n \in Nat
    OBVIOUS
  <2> HIDE DEF U, n
  <2> QED
    BY <1>11, <1>12, <2>1, EveryNumber
<1>14. Fine(p + 1)
  <2>1. p + 1 \in Nat /\ (p + 1) + n >= n
    OBVIOUS
  <2> HIDE DEF Fine
  <2> QED
    BY <1>13, <2>1
<1>15. h[p + 1][1][FALSE] = Failed \/ h[p + 1][1][FALSE] \in (p + 1) + 1 .. n
  <2>1. 1 \in Nat /\ FALSE \in BOOLEAN /\ 1 # 0
    OBVIOUS
  <2> QED
    BY <1>14, <2>1
<1>16. (p + 1) + 1 = p + 2
  OBVIOUS
<1> QED
  BY <1>1, <1>15, <1>16

\* What is outside of brackets, from some position on.
OutsideFrom(q, f) ==
    /\ \A p \in Nat : f[p].places \in SUBSET Nat /\ f[p].closed \in BOOLEAN
    /\ \A p \in Nat : p >= Len(q) => f[p].places = {}
    /\ \A p \in Nat : p < Len(q) /\ q[p + 1] \notin Opening =>
         f[p].places = f[p + 1].places \union {p} /\ f[p].closed = f[p + 1].closed
    /\ \A p \in Nat : p < Len(q) /\ q[p + 1] \in Opening /\ Close(q, p) = Failed =>
         f[p].places = {} /\ f[p].closed = FALSE
    /\ \A p \in Nat : p < Len(q) /\ q[p + 1] \in Opening /\ Close(q, p) # Failed =>
         f[p] = f[Close(q, p)]
OutBody(q, p, f) ==
    IF p >= Len(q) THEN [places |-> {}, closed |-> TRUE]
    ELSE IF q[p + 1] \notin Opening
         THEN [places |-> f[p + 1].places \union {p}, closed |-> f[p + 1].closed]
    ELSE IF Close(q, p) = Failed THEN [places |-> {}, closed |-> FALSE]
    ELSE f[Close(q, p)]

OutBranches(q, p, f) ==
    /\ p >= Len(q) => OutBody(q, p, f) = [places |-> {}, closed |-> TRUE]
    /\ ~(p >= Len(q)) /\ q[p + 1] \notin Opening =>
         OutBody(q, p, f) = [places |-> f[p + 1].places \union {p}, closed |-> f[p + 1].closed]
    /\ ~(p >= Len(q)) /\ q[p + 1] \in Opening /\ Close(q, p) = Failed =>
         OutBody(q, p, f) = [places |-> {}, closed |-> FALSE]
    /\ ~(p >= Len(q)) /\ q[p + 1] \in Opening /\ Close(q, p) # Failed =>
         OutBody(q, p, f) = f[Close(q, p)]
\* What is outside brackets from a position on, by what stands there.
LEMMA OutBranchesAre == ASSUME NEW q, NEW p, NEW f PROVE OutBranches(q, p, f)
BY Zenon DEF OutBranches, OutBody

\* Places, and whether all brackets are closed:
LEMMA PlacesRecord ==
  ASSUME NEW P \in SUBSET Nat, NEW c \in BOOLEAN
  PROVE  [places |-> P, closed |-> c] \in [places : SUBSET Nat, closed : BOOLEAN]
OBVIOUS
\* the two parts of it.
LEMMA PlacesFields ==
  ASSUME NEW P, NEW c, NEW r, r = [places |-> P, closed |-> c]
  PROVE  r.places = P /\ r.closed = c
OBVIOUS

\* There is one function that says what is outside, from every position on.
LEMMA OutsideIs ==
  ASSUME NEW q, Len(q) \in Nat
  PROVE  \E f : OutsideFrom(q, f) /\ Outside(q) = f[0]
<1> DEFINE n == Len(q)
           V == [places : SUBSET Nat, closed : BOOLEAN]
           G == [af \in Nat \X [Nat -> V] |-> OutBody(q, af[1], af[2])]
           size == Remains(n)
           h == CHOOSE f : f = [p \in Nat |-> OutBody(q, p, f)]
<1>1. Outside(q) = h[0]
  BY Zenon DEF Outside, OutBody
<1>2. \A p \in Nat : \A f \in [Nat -> V] : G[p, f] = OutBody(q, p, f)
  OBVIOUS
<1> HIDE DEF G
<1>3. \A p \in Nat : Close(q, p) = Failed \/ (Close(q, p) \in Nat /\ Close(q, p) > p)
  <2>1. ASSUME NEW p \in Nat PROVE Close(q, p) = Failed \/ Close(q, p) \in p + 2 .. Len(q)
    BY CloseIs
  <2> QED
    BY <2>1
<1>4. ASSUME NEW p \in Nat, NEW f \in [Nat -> V] PROVE OutBody(q, p, f) \in V
  <2>1. CASE p >= n
    <3>1. OutBody(q, p, f) = [places |-> {}, closed |-> TRUE]
      <4>1. OutBranches(q, p, f)
        BY OutBranchesAre
      <4> QED
        BY <2>1, <4>1, Zenon DEF OutBranches
    <3> QED
      BY <3>1
  <2>2. CASE ~(p >= n) /\ q[p + 1] \notin Opening
    <3> DEFINE r == f[p + 1]
    <3>1. r \in V
      OBVIOUS
    <3>2. OutBody(q, p, f) = [places |-> r.places \union {p}, closed |-> r.closed]
      <4>1. OutBranches(q, p, f)
        BY OutBranchesAre
      <4> QED
        BY <2>2, <4>1, Zenon DEF OutBranches
    <3> HIDE DEF r
    <3>3. r.places \in SUBSET Nat
      BY <3>1
    <3>4. r.closed \in BOOLEAN
      BY <3>1
    <3>5. r.places \union {p} \in SUBSET Nat
      BY <3>3
    <3>6. [places |-> r.places \union {p}, closed |-> r.closed] \in V
      BY <3>4, <3>5, PlacesRecord
    <3> HIDE DEF V
    <3> QED
      BY <3>2, <3>6, Zenon
  <2>3. CASE ~(p >= n) /\ q[p + 1] \in Opening /\ Close(q, p) = Failed
    <3>1. OutBody(q, p, f) = [places |-> {}, closed |-> FALSE]
      <4>1. OutBranches(q, p, f)
        BY OutBranchesAre
      <4> QED
        BY <2>3, <4>1, Zenon DEF OutBranches
    <3> QED
      BY <3>1
  <2>4. CASE ~(p >= n) /\ q[p + 1] \in Opening /\ Close(q, p) # Failed
    <3>1. Close(q, p) \in Nat
      BY <1>3, <2>4
    <3>2. OutBody(q, p, f) = f[Close(q, p)]
      <4>1. OutBranches(q, p, f)
        BY OutBranchesAre
      <4> QED
        BY <2>4, <4>1, Zenon DEF OutBranches
    <3> HIDE DEF V
    <3> QED
      BY <3>1, <3>2
  <2> QED
    BY <2>1, <2>2, <2>3, <2>4
<1>5. StaysIn(Nat, V, G)
  <2> SUFFICES ASSUME NEW p \in Nat, NEW f \in [Nat -> V] PROVE G[p, f] \in V
    BY Zenon DEF StaysIn
  <2> HIDE DEF V
  <2> QED
    BY <1>2, <1>4
<1>6. LooksBelow(Nat, size, V, G)
  <2> SUFFICES ASSUME NEW p \in Nat, NEW f \in [Nat -> V], NEW g \in [Nat -> V],
                      \A k \in Nat : size[k] < size[p] => f[k] = g[k]
               PROVE  G[p, f] = G[p, g]
    BY Zenon DEF LooksBelow
  <2>1. ASSUME p < n, NEW k \in Nat, p < k PROVE f[k] = g[k]
    <3>1. size[k] < size[p]
      BY <2>1, RemainsLess
    <3> QED
      BY <3>1
  <2>2. OutBody(q, p, f) = OutBody(q, p, g)
    <3>1. CASE p >= n
      BY <3>1, Zenon DEF OutBody
    <3>2. CASE ~(p >= n)
      <4>1. f[p + 1] = g[p + 1]
        BY <2>1, <3>2
      <4>2. Close(q, p) # Failed => f[Close(q, p)] = g[Close(q, p)]
        BY <1>3, <2>1, <3>2
      <4> QED
        BY <3>2, <4>1, <4>2, Zenon DEF OutBody
    <3> QED
      BY <3>1, <3>2
  <2>3. G[p, f] = OutBody(q, p, f)
    BY <1>2
  <2>4. G[p, g] = OutBody(q, p, g)
    BY <1>2
  <2> QED
    BY <2>2, <2>3, <2>4
<1>7. size \in [Nat -> Nat]
  BY RemainsLess
<1>8. [places |-> {}, closed |-> TRUE] \in V
  OBVIOUS
<1> HIDE DEF size
<1>9. PICK f \in [Nat -> V] : \A p \in Nat : f[p] = G[p, f]
  <2> HIDE DEF V
  <2>1. Solvable(Nat, V, G)
    BY <1>5, <1>6, <1>7, <1>8, Recursion
  <2> QED
    BY <2>1, Zenon DEF Solvable
<1>10. f = [p \in Nat |-> OutBody(q, p, f)]
  <2>1. ASSUME NEW p \in Nat PROVE f[p] = OutBody(q, p, f)
    BY <1>2, <1>9
  <2>2. f = [p \in Nat |-> f[p]]
    OBVIOUS
  <2> QED
    BY <2>1, <2>2
<1>11. h = [p \in Nat |-> OutBody(q, p, h)]
  BY <1>10
<1> HIDE DEF h
<1>12. h \in [Nat -> V]
  <2> DEFINE U == {k \in Nat : \A p \in Nat : p + k >= n => h[p] \in V}
  <2>0. \A p \in Nat : h[p] = OutBody(q, p, h)
    BY <1>11
  <2>1. 0 \in U
    <3>1. ASSUME NEW p \in Nat, p + 0 >= n PROVE h[p] \in V
      <4>0. p >= Len(q)
        BY <3>1
      <4>1. OutBody(q, p, h) = [places |-> {}, closed |-> TRUE]
        <5>1. OutBranches(q, p, h)
          BY OutBranchesAre
        <5> QED
          BY <4>0, <5>1, Zenon DEF OutBranches
      <4>2. h[p] = [places |-> {}, closed |-> TRUE]
        BY <2>0, <4>1
      <4> QED
        BY <1>8, <4>2
    <3> HIDE DEF V
    <3> QED
      BY <3>1
  <2>2. ASSUME NEW k \in Nat, k \in U PROVE k + 1 \in U
    <3>1. ASSUME NEW p \in Nat, p + (k + 1) >= n PROVE h[p] \in V
      <4>0. h[p] = OutBody(q, p, h)
        BY <2>0
      <4>1. \A j \in Nat : j > p => h[j] \in V
        <5> HIDE DEF V
        <5> QED
          BY <2>2, <3>1
      <4>2. CASE p >= n
        <5>1. h[p] = [places |-> {}, closed |-> TRUE]
          <6>1. OutBranches(q, p, h)
            BY OutBranchesAre
          <6> QED
            BY <4>0, <4>2, <6>1, Zenon DEF OutBranches
        <5> QED
          BY <5>1
      <4>3. CASE ~(p >= n) /\ q[p + 1] \notin Opening
        <5> DEFINE r == h[p + 1]
        <5>1. r \in V
          <6> HIDE DEF V
          <6> QED
            BY <4>1
        <5>2. h[p] = [places |-> r.places \union {p}, closed |-> r.closed]
          <6>1. OutBranches(q, p, h)
            BY OutBranchesAre
          <6>2. OutBody(q, p, h) = [places |-> h[p + 1].places \union {p}, closed |-> h[p + 1].closed]
            BY <4>3, <6>1, Zenon DEF OutBranches
          <6> HIDE DEF V
          <6> QED
            BY <4>0, <6>2
        <5> HIDE DEF r
        <5>3. r.places \in SUBSET Nat
          BY <5>1
        <5>4. r.closed \in BOOLEAN
          BY <5>1
        <5>5. r.places \union {p} \in SUBSET Nat
          BY <5>3
        <5>6. [places |-> r.places \union {p}, closed |-> r.closed] \in V
          BY <5>4, <5>5, PlacesRecord
        <5> HIDE DEF V
        <5> QED
          BY <5>2, <5>6, Zenon
      <4>4. CASE ~(p >= n) /\ q[p + 1] \in Opening /\ Close(q, p) = Failed
        <5>1. h[p] = [places |-> {}, closed |-> FALSE]
          <6>1. OutBranches(q, p, h)
            BY OutBranchesAre
          <6> QED
            BY <4>0, <4>4, <6>1, Zenon DEF OutBranches
        <5> QED
          BY <5>1
      <4>5. CASE ~(p >= n) /\ q[p + 1] \in Opening /\ Close(q, p) # Failed
        <5>1. Close(q, p) \in Nat /\ Close(q, p) > p
          BY <1>3, <4>5
        <5>2. h[p] = h[Close(q, p)]
          <6>1. OutBranches(q, p, h)
            BY OutBranchesAre
          <6> QED
            BY <4>0, <4>5, <6>1, Zenon DEF OutBranches
        <5> HIDE DEF V
        <5> QED
          BY <4>1, <5>1, <5>2
      <4> QED
        BY <4>2, <4>3, <4>4, <4>5
    <3> HIDE DEF V
    <3> QED
      BY <3>1
  <2>3. n \in U
    <3>1. n \in Nat
      OBVIOUS
    <3> HIDE DEF U, n
    <3> QED
      BY <2>1, <2>2, <3>1, EveryNumber
  <2>4. \A p \in Nat : h[p] \in V
    <3> HIDE DEF V
    <3> QED
      BY <2>3
  <2> HIDE DEF V
  <2> QED
    BY <1>11, <2>4
<1>13. \A p \in Nat : h[p] = OutBody(q, p, h)
  BY <1>11
<1>14. OutsideFrom(q, h)
  <2>1. ASSUME NEW p \in Nat PROVE h[p].places \in SUBSET Nat /\ h[p].closed \in BOOLEAN
    BY <1>12
  <2>2. ASSUME NEW p \in Nat, p >= Len(q) PROVE h[p].places = {}
    <3>1. h[p] = [places |-> {}, closed |-> TRUE]
      <4>1. OutBranches(q, p, h)
        BY OutBranchesAre
      <4> QED
        BY <1>13, <2>2, <4>1, Zenon DEF OutBranches
    <3> QED
      BY <3>1
  <2>3. ASSUME NEW p \in Nat, p < Len(q), q[p + 1] \notin Opening
        PROVE  h[p].places = h[p + 1].places \union {p} /\ h[p].closed = h[p + 1].closed
    <3> DEFINE r == h[p + 1]
    <3>1. r \in V
      BY <1>12
    <3>0. ~(p >= Len(q))
      BY <2>3
    <3>2. h[p] = [places |-> r.places \union {p}, closed |-> r.closed]
      <4>1. OutBranches(q, p, h)
        BY OutBranchesAre
      <4>2. OutBody(q, p, h) = [places |-> h[p + 1].places \union {p}, closed |-> h[p + 1].closed]
        BY <2>3, <3>0, <4>1, Zenon DEF OutBranches
      <4>3. h[p] = OutBody(q, p, h)
        BY <1>13
      <4> QED
        BY <4>2, <4>3
    <3> HIDE DEF r
    <3>3. h[p].places = r.places \union {p} /\ h[p].closed = r.closed
      BY <3>2, PlacesFields
    <3> QED
      BY <3>3 DEF r
  <2>4. ASSUME NEW p \in Nat, p < Len(q), q[p + 1] \in Opening, Close(q, p) = Failed
        PROVE  h[p].places = {} /\ h[p].closed = FALSE
    <3>0. ~(p >= Len(q))
      BY <2>4
    <3>1. h[p] = [places |-> {}, closed |-> FALSE]
      <4>1. OutBranches(q, p, h)
        BY OutBranchesAre
      <4>2. OutBody(q, p, h) = [places |-> {}, closed |-> FALSE]
        BY <2>4, <3>0, <4>1, Zenon DEF OutBranches
      <4>3. h[p] = OutBody(q, p, h)
        BY <1>13
      <4> QED
        BY <4>2, <4>3
    <3> QED
      BY <3>1
  <2>5. ASSUME NEW p \in Nat, p < Len(q), q[p + 1] \in Opening, Close(q, p) # Failed
        PROVE  h[p] = h[Close(q, p)]
    <3>0. ~(p >= Len(q))
      BY <2>5
    <3> QED
      <4>1. OutBranches(q, p, h)
        BY OutBranchesAre
      <4> QED
        BY <1>13, <2>5, <3>0, <4>1, Zenon DEF OutBranches
  <2> QED
    BY <2>1, <2>2, <2>3, <2>4, <2>5, Zenon DEF OutsideFrom
<1> QED
  BY <1>1, <1>14

\* Positions that are not inside a bracket that was passed: what is outside of brackets from
\* here on is what is outside of them at all.
NotBehind(q, f, p) == \A i \in f[p].places : p <= i /\ i < Len(q)
Met(f, p) ==
    /\ f[0].closed = f[p].closed
    /\ \A i \in Nat : i >= p => (i \in f[0].places <=> i \in f[p].places)

\* It says nothing of the places behind.
LEMMA OutsideAhead ==
  ASSUME NEW q, Len(q) \in Nat, NEW f, OutsideFrom(q, f)
  PROVE  \A p \in Nat : NotBehind(q, f, p)
<1> DEFINE n == Len(q)
           U == {k \in Nat : \A p \in Nat : p + k >= n => NotBehind(q, f, p)}
<1>0. \A p \in Nat : f[p].places \subseteq Nat
  BY DEF OutsideFrom
<1>1. 0 \in U
  <2>1. ASSUME NEW p \in Nat, p + 0 >= n PROVE NotBehind(q, f, p)
    <3>1. f[p].places = {}
      BY <2>1 DEF OutsideFrom
    <3> QED
      BY <3>1 DEF NotBehind
  <2> QED
    BY <2>1
<1>2. ASSUME NEW k \in Nat, k \in U PROVE k + 1 \in U
  <2>1. ASSUME NEW p \in Nat, p + (k + 1) >= n PROVE NotBehind(q, f, p)
    <3>0. \A j \in Nat : j > p => NotBehind(q, f, j)
      BY <1>2, <2>1
    <3>1. CASE p >= n
      <4>1. f[p].places = {}
        BY <3>1 DEF OutsideFrom
      <4> QED
        BY <4>1 DEF NotBehind
    <3>2. CASE p < n /\ q[p + 1] \notin Opening
      <4>1. f[p].places = f[p + 1].places \union {p}
        BY <3>2 DEF OutsideFrom
      <4>2. NotBehind(q, f, p + 1)
        BY <3>0
      <4>3. ASSUME NEW i \in f[p].places PROVE p <= i /\ i < n
        <5>1. i \in Nat
          BY <1>0
        <5>2. CASE i = p
          BY <3>2, <5>2
        <5>3. CASE i \in f[p + 1].places
          <6>1. p + 1 <= i /\ i < n
            BY <4>2, <5>3 DEF NotBehind
          <6> QED
            BY <5>1, <6>1
        <5> QED
          BY <4>1, <5>2, <5>3
      <4> QED
        BY <4>3 DEF NotBehind
    <3>3. CASE p < n /\ q[p + 1] \in Opening /\ Close(q, p) = Failed
      <4>1. f[p].places = {}
        BY <3>3 DEF OutsideFrom
      <4> QED
        BY <4>1 DEF NotBehind
    <3>4. CASE p < n /\ q[p + 1] \in Opening /\ Close(q, p) # Failed
      <4> DEFINE c == Close(q, p)
      <4>1. f[p] = f[c]
        BY <3>4 DEF OutsideFrom
      <4>2. c \in p + 2 .. n
        BY <3>4, CloseIs
      <4> HIDE DEF c
      <4>3. NotBehind(q, f, c) /\ c \in Nat /\ c > p
        BY <3>0, <4>2
      <4>4. ASSUME NEW i \in f[p].places PROVE p <= i /\ i < n
        <5>1. i \in Nat
          BY <1>0
        <5>2. c <= i /\ i < n
          BY <4>1, <4>3 DEF NotBehind
        <5> QED
          BY <4>3, <5>1, <5>2
      <4> QED
        BY <4>4 DEF NotBehind
    <3> QED
      BY <3>1, <3>2, <3>3, <3>4
  <2> QED
    BY <2>1
<1>3. n \in U
  <2>1. n \in Nat
    OBVIOUS
  <2> HIDE DEF U, n
  <2> QED
    BY <1>1, <1>2, <2>1, EveryNumber
<1> QED
  BY <1>3

\* Up to the next bracket all positions are outside.
LEMMA OutsideWalk ==
  ASSUME NEW q, Len(q) \in Nat, NEW f, OutsideFrom(q, f), NEW p \in Nat, Met(f, p),
         NEW w \in Nat, p <= w, w <= Len(q),
         \A i \in p .. w - 1 : q[i + 1] \notin Opening
  PROVE  /\ Met(f, w)
         /\ \A i \in p .. w - 1 : i \in f[0].places
<1> DEFINE Fine(j) == Met(f, j) /\ \A i \in p .. j - 1 : i \in f[0].places
           U == {k \in Nat : p + k <= w => Fine(p + k)}
<1>1. 0 \in U
  <2>1. p + 0 = p /\ p .. p - 1 = {}
    OBVIOUS
  <2> QED
    BY <2>1
<1>2. ASSUME NEW k \in Nat, k \in U PROVE k + 1 \in U
  <2> DEFINE j == p + k
  <2>1. j \in Nat /\ p + (k + 1) = j + 1
    OBVIOUS
  <2>2. SUFFICES ASSUME j + 1 <= w PROVE Fine(j + 1)
    BY <2>1
  <2>3. Fine(j)
    BY <1>2, <2>2
  <2> HIDE DEF j
  <2>4. j < Len(q) /\ j \in p .. w - 1
    <3>1. p <= j
      BY DEF j
    <3> QED
      BY <2>1, <2>2, <3>1
  <2>5. q[j + 1] \notin Opening
    BY <2>4
  <2>6. f[j].places = f[j + 1].places \union {j} /\ f[j].closed = f[j + 1].closed
    BY <2>1, <2>4, <2>5 DEF OutsideFrom
  <2>7. Met(f, j + 1)
    <3>1. f[0].closed = f[j + 1].closed
      BY <2>3, <2>6 DEF Met
    <3>2. ASSUME NEW i \in Nat, i >= j + 1 PROVE i \in f[0].places <=> i \in f[j + 1].places
      <4>1. i >= j /\ i # j
        BY <2>1, <3>2
      <4>2. i \in f[0].places <=> i \in f[j].places
        BY <2>3, <4>1 DEF Met
      <4> QED
        BY <2>6, <4>1, <4>2
    <3> QED
      BY <3>1, <3>2 DEF Met
  <2>8. j \in f[0].places
    <3>1. j \in f[j].places
      BY <2>6
    <3>2. j >= j
      BY <2>1
    <3> QED
      BY <2>1, <2>3, <3>1, <3>2 DEF Met
  <2>9. \A i \in p .. (j + 1) - 1 : i \in f[0].places
    <3>1. \A i \in p .. (j + 1) - 1 : i = j \/ i \in p .. j - 1
      BY <2>1
    <3> QED
      BY <2>3, <2>8, <3>1
  <2> QED
    BY <2>7, <2>9
<1>3. w - p \in Nat /\ p + (w - p) = w
  OBVIOUS
<1>4. w - p \in U
  <2> HIDE DEF U
  <2> QED
    BY <1>1, <1>2, <1>3, EveryNumber
<1>5. Fine(w)
  BY <1>3, <1>4
<1> QED
  BY <1>5

\* A closed bracket is passed.
LEMMA OutsideSkip ==
  ASSUME NEW q, Len(q) \in Nat, NEW f, OutsideFrom(q, f), NEW p \in Nat, Met(f, p),
         p < Len(q), q[p + 1] \in Opening, Close(q, p) # Failed
  PROVE  /\ Close(q, p) \in p + 2 .. Len(q)
         /\ Met(f, Close(q, p))
         /\ \A i \in p .. Close(q, p) - 1 : i \notin f[0].places
<1> DEFINE c == Close(q, p)
<1>1. f[p] = f[c]
  BY DEF OutsideFrom
<1>2. c \in p + 2 .. Len(q)
  BY CloseIs
<1> HIDE DEF c
<1>3. c \in Nat /\ c > p
  BY <1>2
<1>4. Met(f, c)
  <2>1. f[0].closed = f[c].closed
    BY <1>1 DEF Met
  <2>2. ASSUME NEW i \in Nat, i >= c PROVE i \in f[0].places <=> i \in f[c].places
    <3>1. i >= p
      BY <1>3, <2>2
    <3> QED
      BY <1>1, <3>1 DEF Met
  <2> QED
    BY <2>1, <2>2 DEF Met
<1>5. ASSUME NEW i \in p .. c - 1, i \in f[0].places PROVE FALSE
  <2>1. i \in Nat /\ i >= p /\ ~(c <= i)
    BY <1>3
  <2>2. i \in f[p].places
    BY <1>5, <2>1 DEF Met
  <2>3. NotBehind(q, f, c)
    BY <1>3, OutsideAhead
  <2> QED
    BY <1>1, <2>1, <2>2, <2>3 DEF NotBehind
<1> QED
  BY <1>2, <1>4, <1>5 DEF c

\* A bracket that is never closed ends it.
LEMMA OutsideFails ==
  ASSUME NEW q, Len(q) \in Nat, NEW f, OutsideFrom(q, f), NEW p \in Nat, Met(f, p),
         p < Len(q), q[p + 1] \in Opening, Close(q, p) = Failed
  PROVE  f[0].closed = FALSE
<1>1. f[p].closed = FALSE
  BY DEF OutsideFrom
<1> QED
  BY <1>1 DEF Met

\* The same of a rule: what was passed so far, and the separators that count.
Beyond(q) == CHOOSE f : OutsideFrom(q, f) /\ Outside(q) = f[0]
Reaches(q, p) == Met(Beyond(q), p)
EndsOf(q) == {p \in Outside(q).places : q[p + 1] \in Separators}
TypedEnds(q, type) == {p \in EndsOf(q) : q[p + 1] = type}

\* What is outside from the beginning on is what is outside at all.
LEMMA ReachFacts ==
  ASSUME NEW q, Len(q) \in Nat
  PROVE  /\ OutsideFrom(q, Beyond(q)) /\ Outside(q) = Beyond(q)[0] /\ Reaches(q, 0)
         /\ EndsOf(q) \subseteq 0 .. Len(q) - 1
         /\ \A i : i \in EndsOf(q) <=> i \in Outside(q).places /\ q[i + 1] \in Separators
<1>1. OutsideFrom(q, Beyond(q)) /\ Outside(q) = Beyond(q)[0]
  BY OutsideIs DEF Beyond
<1>2. Reaches(q, 0)
  BY DEF Reaches, Met
<1>3. NotBehind(q, Beyond(q), 0)
  BY <1>1, OutsideAhead
<1>4. Outside(q).places \subseteq Nat
  BY <1>1 DEF OutsideFrom
<1>5. \A i \in Outside(q).places : i \in Nat /\ 0 <= i /\ i < Len(q)
  BY <1>1, <1>3, <1>4 DEF NotBehind
<1>6. EndsOf(q) \subseteq 0 .. Len(q) - 1
  <2>1. \A i \in EndsOf(q) : i \in Outside(q).places
    BY DEF EndsOf
  <2>2. \A i \in EndsOf(q) : i \in Nat /\ i < Len(q)
    BY <1>5, <2>1
  <2> QED
    BY <2>2
<1> QED
  BY <1>1, <1>2, <1>6 DEF EndsOf

\* A step over letters that open no bracket leaves what is outside beyond,
LEMMA ReachWalk ==
  ASSUME NEW q, Len(q) \in Nat, NEW p \in Nat, Reaches(q, p),
         NEW w \in Nat, p <= w, w <= Len(q),
         \A i \in p .. w - 1 : q[i + 1] \notin Opening
  PROVE  /\ Reaches(q, w)
         /\ \A i \in p .. w - 1 : i \in Outside(q).places
<1> DEFINE f == Beyond(q)
<1>1. OutsideFrom(q, f) /\ Outside(q) = f[0]
  BY ReachFacts
<1>2. Met(f, p)
  BY DEF Reaches
<1> HIDE DEF f
<1>3. Met(f, w) /\ \A i \in p .. w - 1 : i \in f[0].places
  BY <1>1, <1>2, OutsideWalk
<1> QED
  BY <1>1, <1>3 DEF Reaches, f

\* and so does a jump over a bracket, in which nothing separates.
LEMMA ReachSkip ==
  ASSUME NEW q, Len(q) \in Nat, NEW p \in Nat, Reaches(q, p),
         p < Len(q), q[p + 1] \in Opening
  PROVE  /\ Close(q, p) = Failed => ~Outside(q).closed
         /\ Close(q, p) # Failed => /\ Close(q, p) \in p + 2 .. Len(q)
                                    /\ Reaches(q, Close(q, p))
                                    /\ \A i \in p .. Close(q, p) - 1 : i \notin EndsOf(q)
<1> DEFINE f == Beyond(q)
<1>1. OutsideFrom(q, f) /\ Outside(q) = f[0]
  BY ReachFacts
<1>2. Met(f, p)
  BY DEF Reaches
<1> HIDE DEF f
<1>3. CASE Close(q, p) = Failed
  <2>1. f[0].closed = FALSE
    BY <1>1, <1>2, <1>3, OutsideFails
  <2> QED
    BY <1>1, <1>3, <2>1
<1>4. CASE Close(q, p) # Failed
  <2>1. /\ Close(q, p) \in p + 2 .. Len(q) /\ Met(f, Close(q, p))
        /\ \A i \in p .. Close(q, p) - 1 : i \notin f[0].places
    BY <1>1, <1>2, <1>4, OutsideSkip
  <2>2. \A i \in p .. Close(q, p) - 1 : i \notin EndsOf(q)
    BY <1>1, <2>1 DEF EndsOf
  <2>3. Reaches(q, Close(q, p))
    BY <2>1 DEF Reaches, f
  <2> QED
    BY <1>4, <2>1, <2>2, <2>3
<1> QED
  BY <1>3, <1>4

\* Up to the next bracket.
LEMMA ReachBracket ==
  ASSUME NEW q, Len(q) \in Nat, NEW p \in 0 .. Len(q), Reaches(q, p), NEW b, b = Where(q, p, Opening)
  PROVE  /\ b \in p .. Len(q)
         /\ \A i \in p .. b - 1 : q[i + 1] \notin Opening
         /\ b < Len(q) => q[b + 1] \in Opening /\ Reaches(q, b)
         /\ \A e \in Nat : p <= e /\ e < b => Reaches(q, e + 1) /\ e \in Outside(q).places
<1>1. /\ b \in p .. Len(q) /\ (b < Len(q) => q[b + 1] \in Opening)
      /\ \A i \in p .. b - 1 : q[i + 1] \notin Opening
  BY WhereIs
<1>2. Reaches(q, b)
  <2>1. b \in Nat /\ p \in Nat /\ p <= b /\ b <= Len(q)
    BY <1>1
  <2> QED
    BY <1>1, <2>1, ReachWalk
<1>3. ASSUME NEW e \in Nat, p <= e, e < b PROVE Reaches(q, e + 1) /\ e \in Outside(q).places
  <2> DEFINE w == e + 1
  <2>1. w \in Nat /\ p <= w /\ w <= Len(q) /\ e \in p .. w - 1
    BY <1>1, <1>3
  <2>2. \A i \in p .. w - 1 : i \in p .. b - 1
    BY <1>1, <1>3
  <2> HIDE DEF w
  <2>3. \A i \in p .. w - 1 : q[i + 1] \notin Opening
    BY <1>1, <2>2
  <2>4. Reaches(q, w) /\ \A i \in p .. w - 1 : i \in Outside(q).places
    BY <2>1, <2>3, ReachWalk
  <2> QED
    BY <2>1, <2>4 DEF w
<1> QED
  BY <1>1, <1>2, <1>3

\* Pieces, numbered.
PieceAt(q, cuts, i) ==
    Piece(q, IF i = 1 THEN 0 ELSE cuts[i - 1] + 1, IF i > Len(cuts) THEN Len(q) ELSE cuts[i])
CutsOf(q, type) == InTurn(TypedEnds(q, type))
CutAt(q, type, pieces, k, x) ==
    /\ EndsOf(q) # {} /\ type = q[Min(EndsOf(q)) + 1] /\ k \in 1 .. Len(CutsOf(q, type))
    /\ x = CutsOf(q, type)[k] + 1
    /\ pieces = [i \in 1 .. k |-> PieceAt(q, CutsOf(q, type), i)]

\* The separators that count, in order.
LEMMA CutsAre ==
  ASSUME NEW q, Len(q) \in Nat, NEW type
  PROVE  /\ TypedEnds(q, type) \subseteq 0 .. Len(q) - 1 /\ TypedEnds(q, type) \subseteq EndsOf(q)
         /\ Len(CutsOf(q, type)) \in Nat
         /\ \A k \in 1 .. Len(CutsOf(q, type)) :
                CutsOf(q, type)[k] \in TypedEnds(q, type) /\ CutsOf(q, type)[k] \in 0 .. Len(q) - 1
         /\ \A k, m \in 1 .. Len(CutsOf(q, type)) : k < m => CutsOf(q, type)[k] < CutsOf(q, type)[m]
         /\ \A i \in TypedEnds(q, type) : \E k \in 1 .. Len(CutsOf(q, type)) : CutsOf(q, type)[k] = i
<1> DEFINE S == TypedEnds(q, type)
           c == CutsOf(q, type)
<1>1. S \subseteq EndsOf(q) /\ S \subseteq 0 .. Len(q) - 1
  BY ReachFacts DEF TypedEnds
<1>2. IsFiniteSet(0 .. Len(q) - 1)
  BY FS_Interval
<1>3. IsFiniteSet(S) /\ S \subseteq Nat
  BY <1>1, <1>2, FS_Subset
<1>4. c = InTurn(S)
  BY DEF CutsOf
<1> HIDE DEF S, c
<1>5. /\ Cardinality(S) \in Nat /\ c \in Seq(S) /\ Len(c) = Cardinality(S)
      /\ DOMAIN c = 1 .. Cardinality(S)
  BY <1>3, <1>4, InTurnIs
<1>6. \A i \in S : \E k \in DOMAIN c : c[k] = i
  BY <1>3, <1>4, InTurnIs
<1>7. \A k, m \in DOMAIN c : k < m => c[k] < c[m]
  BY <1>3, <1>4, InTurnAscends
<1>8. \A k \in 1 .. Len(c) : c[k] \in S /\ c[k] \in 0 .. Len(q) - 1
  <2>1. \A k \in 1 .. Len(c) : c[k] \in S
    BY <1>5
  <2>2. \A i \in S : i \in 0 .. Len(q) - 1
    BY <1>1
  <2> QED
    BY <2>1, <2>2
<1> QED
  BY <1>1, <1>5, <1>6, <1>7, <1>8 DEF S, c

\* The pieces are what stands between them.
LEMMA PiecesBy ==
  ASSUME NEW q, EndsOf(q) # {}
  PROVE  Pieces(q) = [i \in 1 .. Len(CutsOf(q, q[Min(EndsOf(q)) + 1])) + 1 |->
                        PieceAt(q, CutsOf(q, q[Min(EndsOf(q)) + 1]), i)]
BY DEF Pieces, CutsOf, PieceAt, TypedEnds, EndsOf

\* One more piece, up to the next separator,
LEMMA NextCut ==
  ASSUME NEW q, Len(q) \in Nat, NEW type, NEW pieces, NEW k, NEW x, CutAt(q, type, pieces, k, x),
         NEW e \in TypedEnds(q, type), x <= e, \A i \in x .. e - 1 : i \notin TypedEnds(q, type)
  PROVE  CutAt(q, type, Append(pieces, Piece(q, x, e)), k + 1, e + 1)
<1> DEFINE c == CutsOf(q, type)
           S == TypedEnds(q, type)
           n == Len(c)
<1>1. /\ n \in Nat /\ S \subseteq 0 .. Len(q) - 1
      /\ \A j \in 1 .. n : c[j] \in S /\ c[j] \in 0 .. Len(q) - 1
      /\ \A j, m \in 1 .. n : j < m => c[j] < c[m]
      /\ \A i \in S : \E j \in 1 .. n : c[j] = i
  BY CutsAre
<1>2. /\ EndsOf(q) # {} /\ type = q[Min(EndsOf(q)) + 1] /\ k \in 1 .. n /\ x = c[k] + 1
      /\ pieces = [i \in 1 .. k |-> PieceAt(q, c, i)]
  BY DEF CutAt
<1> HIDE DEF c, S, n
<1>3. PICK m \in 1 .. n : c[m] = e
  BY <1>1 DEF S
<1>4. m = k + 1
  <2>1. c[k] \in Nat /\ c[k] < e /\ e \in Nat
    BY <1>1, <1>2, <1>3
  <2>2. m > k
    <3> SUFFICES ASSUME m < k \/ m = k PROVE FALSE
      BY <1>1, <1>2, <1>3
    <3>1. CASE m = k
      BY <1>3, <2>1, <3>1
    <3>2. CASE m < k
      <4>1. c[m] < c[k]
        BY <1>1, <1>2, <1>3, <3>2
      <4> QED
        BY <1>3, <2>1, <4>1
    <3> QED
      BY <3>1, <3>2
  <2>3. ASSUME m > k + 1 PROVE FALSE
    <3> DEFINE j == k + 1
    <3>1. j \in 1 .. n /\ k < j /\ j < m
      BY <1>1, <1>2, <2>3
    <3> HIDE DEF j
    <3>2. c[k] < c[j] /\ c[j] < c[m] /\ c[j] \in S /\ c[j] \in Nat
      BY <1>1, <1>2, <1>3, <3>1
    <3>3. c[j] \in x .. e - 1
      BY <1>1, <1>2, <1>3, <2>1, <3>2
    <3> QED
      BY <3>2, <3>3 DEF S
  <2> QED
    BY <1>2, <1>3, <2>2, <2>3
<1>5. e + 1 = c[k + 1] + 1 /\ k + 1 \in 1 .. n
  BY <1>3, <1>4
<1>6. PieceAt(q, c, k + 1) = Piece(q, x, e)
  <2> DEFINE j == k + 1
  <2>1. j - 1 = k /\ j # 1 /\ ~(j > Len(c)) /\ c[j] = e
    BY <1>1, <1>2, <1>3, <1>4 DEF n
  <2> HIDE DEF j
  <2> QED
    BY <1>2, <2>1 DEF PieceAt, j
<1>7. Append(pieces, Piece(q, x, e)) = [i \in 1 .. k + 1 |-> PieceAt(q, c, i)]
  <2>1. k \in Nat
    BY <1>2
  <2> DEFINE P(i) == PieceAt(q, c, i)
  <2>2. P(k + 1) = Piece(q, x, e)
    BY <1>6
  <2> HIDE DEF P
  <2>3. pieces = [i \in 1 .. k |-> P(i)]
    BY <1>2 DEF P
  <2>4. Append(pieces, P(k + 1)) = [i \in 1 .. k + 1 |-> P(i)]
    BY <2>1, <2>3
  <2> QED
    BY <2>2, <2>4 DEF P
<1> QED
  BY <1>2, <1>5, <1>7 DEF CutAt, c, n

\* and the last, up to the end.
LEMMA LastCut ==
  ASSUME NEW q, Len(q) \in Nat, NEW type, NEW pieces, NEW k, NEW x, CutAt(q, type, pieces, k, x),
         \A i \in x .. Len(q) - 1 : i \notin TypedEnds(q, type)
  PROVE  Append(pieces, Piece(q, x, Len(q))) = Pieces(q)
<1> DEFINE c == CutsOf(q, type)
           S == TypedEnds(q, type)
           n == Len(c)
<1>1. /\ n \in Nat
      /\ \A j \in 1 .. n : c[j] \in S /\ c[j] \in 0 .. Len(q) - 1
      /\ \A j, m \in 1 .. n : j < m => c[j] < c[m]
  BY CutsAre
<1>2. /\ EndsOf(q) # {} /\ type = q[Min(EndsOf(q)) + 1] /\ k \in 1 .. n /\ x = c[k] + 1
      /\ pieces = [i \in 1 .. k |-> PieceAt(q, c, i)]
  BY DEF CutAt
<1>3. Pieces(q) = [i \in 1 .. n + 1 |-> PieceAt(q, c, i)]
  BY <1>2, PiecesBy
<1> HIDE DEF c, S, n
<1>4. k = n
  <2> SUFFICES ASSUME k < n PROVE FALSE
    BY <1>1, <1>2
  <2> DEFINE j == k + 1
  <2>1. j \in 1 .. n /\ k < j
    BY <1>1, <1>2
  <2> HIDE DEF j
  <2>2. c[k] < c[j] /\ c[j] \in S /\ c[j] \in 0 .. Len(q) - 1 /\ c[k] \in Nat
    BY <1>1, <1>2, <2>1
  <2>3. c[j] \in x .. Len(q) - 1
    BY <1>2, <2>2
  <2> QED
    BY <2>2, <2>3 DEF S
<1>5. PieceAt(q, c, k + 1) = Piece(q, x, Len(q))
  <2> DEFINE j == k + 1
  <2>1. j - 1 = k /\ j # 1 /\ j > Len(c)
    BY <1>1, <1>2, <1>4 DEF n
  <2> HIDE DEF j
  <2> QED
    BY <1>2, <2>1 DEF PieceAt, j
<1> DEFINE P(i) == PieceAt(q, c, i)
<1>6. P(k + 1) = Piece(q, x, Len(q)) /\ k \in Nat
  BY <1>2, <1>5
<1> HIDE DEF P
<1>7. pieces = [i \in 1 .. k |-> P(i)]
  BY <1>2 DEF P
<1>8. Append(pieces, P(k + 1)) = [i \in 1 .. k + 1 |-> P(i)]
  BY <1>6, <1>7
<1> QED
  BY <1>3, <1>4, <1>6, <1>8 DEF P

\* The first piece ends at the first separator, which says which ones count.
LEMMA FirstCut ==
  ASSUME NEW q, Len(q) \in Nat, NEW e \in EndsOf(q), \A i \in 0 .. e - 1 : i \notin EndsOf(q)
  PROVE  CutAt(q, q[e + 1], <<Piece(q, 0, e)>>, 1, e + 1)
<1> DEFINE type == q[e + 1]
           c == CutsOf(q, type)
           S == TypedEnds(q, type)
           n == Len(c)
<1>0. EndsOf(q) \subseteq 0 .. Len(q) - 1
  BY ReachFacts
<1>1. /\ n \in Nat /\ S \subseteq EndsOf(q) /\ S \subseteq 0 .. Len(q) - 1
      /\ \A j \in 1 .. n : c[j] \in S /\ c[j] \in 0 .. Len(q) - 1
      /\ \A j, m \in 1 .. n : j < m => c[j] < c[m]
      /\ \A i \in S : \E j \in 1 .. n : c[j] = i
  BY CutsAre
<1>2. e \in S
  BY DEF TypedEnds
<1>3. \A i \in EndsOf(q) : e <= i
  <2> TAKE i \in EndsOf(q)
  <2>1. i \in Nat /\ e \in Nat /\ i \notin 0 .. e - 1
    BY <1>0
  <2> QED
    BY <2>1
<1>4. Min(EndsOf(q)) = e
  <2> DEFINE E == EndsOf(q)
  <2>1. e \in E /\ \A i \in E : e <= i
    BY <1>3
  <2>2. E \subseteq Nat
    BY <1>0
  <2> HIDE DEF E
  <2>3. Min(E) = CHOOSE z \in E : \A y \in E : z <= y
    BY DEF Min
  <2>4. Min(E) \in E /\ \A i \in E : Min(E) <= i
    BY <2>1, <2>3
  <2>5. Min(E) \in Nat /\ e \in Nat /\ Min(E) <= e /\ e <= Min(E)
    BY <2>1, <2>2, <2>4
  <2> QED
    BY <2>5 DEF E
<1> HIDE DEF type, c, S, n
<1>5. PICK m \in 1 .. n : c[m] = e
  BY <1>1, <1>2
<1>6. c[1] = e /\ 1 \in 1 .. n
  <2>1. 1 \in 1 .. n /\ m \in Nat /\ m >= 1
    BY <1>1, <1>5
  <2>2. CASE m > 1
    <3>1. c[1] < c[m] /\ c[1] \in S
      BY <1>1, <1>5, <2>1, <2>2
    <3>2. c[1] \in EndsOf(q) /\ c[1] \in Nat /\ e \in Nat
      BY <1>0, <1>1, <1>2, <3>1
    <3>3. e <= c[1]
      BY <1>3, <3>2
    <3> QED
      BY <1>5, <3>1, <3>2, <3>3
  <2>3. CASE m = 1
    BY <1>5, <2>1, <2>3
  <2> QED
    BY <2>1, <2>2, <2>3
<1>7. PieceAt(q, c, 1) = Piece(q, 0, e)
  <2>1. ~(1 > Len(c))
    BY <1>1, <1>6 DEF n
  <2> QED
    BY <1>6, <2>1 DEF PieceAt
<1>8. <<Piece(q, 0, e)>> = [i \in 1 .. 1 |-> PieceAt(q, c, i)]
  <2> DEFINE P(i) == PieceAt(q, c, i)
  <2> HIDE DEF P
  <2>1. <<P(1)>> = [i \in 1 .. 1 |-> P(i)]
    OBVIOUS
  <2> QED
    BY <1>7, <2>1 DEF P
<1>9. EndsOf(q) # {} /\ type = q[Min(EndsOf(q)) + 1]
  BY <1>4 DEF type
<1> QED
  BY <1>6, <1>8, <1>9 DEF CutAt, type, c, n

\* The splitter: where it stands, nothing was passed but brackets and what was looked at; the
\* pieces are those up to the last separator that counts.
NoEnds(q, p) == \A i \in 0 .. p - 1 : i \notin EndsOf(q)
NoTyped(q, type, a, b) == \A i \in a .. b - 1 : i \notin TypedEnds(q, type)
NoBracket(q, a, b) == b \in 0 .. Len(q) /\ \A i \in a .. b - 1 : q[i + 1] \notin Opening
HasCut(q, type, pieces, x) == \E k : CutAt(q, type, pieces, k, x)

SplitAt(rule, at, pos, start, startX, end, before, type, pieces) ==
    [rule |-> rule, at |-> at, pos |-> pos, start |-> start, startX |-> startX, end |-> end,
     before |-> before, type |-> type, pieces |-> pieces]
SplitFrame(s) ==
    /\ s = SplitAt(s.rule, s.at, s.pos, s.start, s.startX, s.end, s.before, s.type, s.pieces)
    /\ s.at \in {"split", "first", "later", "cut", "throws", "done", "idle"}
    /\ s.rule \in Seq(ToSet(s.rule)) /\ Len(s.rule) \in Nat
    /\ s.pos \in 0 .. Len(s.rule) /\ s.start \in 0 .. Len(s.rule)
    /\ s.startX \in 0 .. Len(s.rule) /\ s.end \in 0 .. Len(s.rule)
AtSplit(s) ==
    /\ s.pos = s.start /\ s.startX = 0 /\ s.pieces = <<>>
    /\ Reaches(s.rule, s.pos) /\ NoEnds(s.rule, s.pos)
AtFirst(s) ==
    /\ s.startX = 0 /\ s.pieces = <<>> /\ s.pos <= s.end /\ s.end < Len(s.rule)
    /\ s.rule[s.end + 1] \in Separators
    /\ Reaches(s.rule, s.pos) /\ NoEnds(s.rule, s.end)
AtCut(s) ==
    /\ Reaches(s.rule, s.pos) /\ NoBracket(s.rule, s.pos, s.before)
    /\ HasCut(s.rule, s.type, s.pieces, s.pos)
AtLater(s) ==
    /\ s.startX <= s.pos /\ s.pos <= s.end /\ s.end < Len(s.rule) /\ s.rule[s.end + 1] = s.type
    /\ Reaches(s.rule, s.pos) /\ NoTyped(s.rule, s.type, s.startX, s.end)
    /\ HasCut(s.rule, s.type, s.pieces, s.startX)
SplitMeans(s) ==
    /\ s.at = "split" => AtSplit(s)
    /\ s.at = "first" => AtFirst(s)
    /\ s.at = "cut" => AtCut(s)
    /\ s.at = "later" => AtLater(s)
    /\ s.at = "done" => s.pieces = Pieces(s.rule)
    /\ s.at = "throws" => ~Outside(s.rule).closed
SplitInv == SplitFrame(splitter) /\ SplitMeans(splitter)

\* A splitter of these parts has these parts.
LEMMA SplitFields ==
  ASSUME NEW rule, NEW at, NEW pos, NEW start, NEW startX, NEW end, NEW before, NEW type, NEW pieces,
         NEW s, s = SplitAt(rule, at, pos, start, startX, end, before, type, pieces)
  PROVE  /\ s.rule = rule /\ s.at = at /\ s.pos = pos /\ s.start = start /\ s.startX = startX
         /\ s.end = end /\ s.before = before /\ s.type = type /\ s.pieces = pieces
         /\ s = SplitAt(s.rule, s.at, s.pos, s.start, s.startX, s.end, s.before, s.type, s.pieces)
BY DEF SplitAt

\* Where a rule begins to be cut.
LEMMA SplitStarts ==
  ASSUME NEW q, NEW at, SplitStart(q, at), q \in Seq(ToSet(q)), at \in {"split", "idle"}
  PROVE  SplitInv
<1> DEFINE s == splitter
           none == ""
           few == <<>>
<1>1. s = SplitAt(q, at, 0, 0, 0, 0, 0, none, few)
  BY DEF SplitStart, SplitAt
<1> HIDE DEF s, none, few
<1>2. /\ s.rule = q /\ s.at = at /\ s.pos = 0 /\ s.start = 0 /\ s.startX = 0 /\ s.end = 0
      /\ s.pieces = few
      /\ s = SplitAt(s.rule, s.at, s.pos, s.start, s.startX, s.end, s.before, s.type, s.pieces)
  BY <1>1, SplitFields
<1>3. Len(q) \in Nat /\ 0 \in 0 .. Len(q)
  OBVIOUS
<1>4. SplitFrame(s)
  BY <1>2, <1>3 DEF SplitFrame
<1>5. NoEnds(q, 0)
  BY DEF NoEnds
<1>6. Reaches(q, 0)
  BY <1>3, ReachFacts
<1>7. AtSplit(s)
  BY <1>2, <1>5, <1>6 DEF AtSplit, few
<1>8. SplitMeans(s)
  BY <1>2, <1>7 DEF SplitMeans
<1> QED
  BY <1>4, <1>8 DEF SplitInv, s

\* The next separator is looked for.
LEMMA SplitKeeps ==
  ASSUME SplitInv, Split
  PROVE  SplitInv'
<1> DEFINE s == splitter
           t == splitter'
           q == s.rule
           n == Len(q)
           e == Where(q, s.pos, Separators)
<1>1. /\ s = SplitAt(s.rule, s.at, s.pos, s.start, s.startX, s.end, s.before, s.type, s.pieces)
      /\ s.at = "split" /\ q \in Seq(ToSet(q)) /\ n \in Nat /\ s.pos \in 0 .. n /\ s.start \in 0 .. n
      /\ s.startX \in 0 .. n /\ s.end \in 0 .. n
  BY DEF SplitInv, SplitFrame, Split
<1>2. /\ s.pos = s.start /\ s.startX = 0 /\ s.pieces = <<>> /\ Reaches(q, s.pos) /\ NoEnds(q, s.pos)
  BY <1>1 DEF SplitInv, SplitMeans, AtSplit
<1>3. /\ e \in s.pos .. n /\ (e < n => q[e + 1] \in Separators)
      /\ \A i \in s.pos .. e - 1 : q[i + 1] \notin Separators
  BY <1>1, WhereIs
<1>4. /\ e = n => t = [s EXCEPT !.at = "done", !.pieces = <<Piece(q, s.startX, n)>>]
      /\ e # n => t = [s EXCEPT !.at = "first", !.end = e, !.pos = s.start]
  BY DEF Split
<1>5. NoEnds(q, e)
  <2> SUFFICES ASSUME NEW i \in 0 .. e - 1 PROVE i \notin EndsOf(q)
    BY DEF NoEnds
  <2>1. i \in 0 .. s.pos - 1 \/ i \in s.pos .. e - 1
    BY <1>1, <1>3
  <2>2. i \in s.pos .. e - 1 => i \notin EndsOf(q)
    BY <1>3 DEF EndsOf
  <2> QED
    BY <1>2, <2>1, <2>2 DEF NoEnds
<1> HIDE DEF s, t, q, n, e
<1>6. CASE e = n
  <2> DEFINE ps == <<Piece(q, s.startX, n)>>
  <2>1. t = SplitAt(s.rule, "done", s.pos, s.start, s.startX, s.end, s.before, s.type, ps)
    BY <1>1, <1>4, <1>6 DEF SplitAt
  <2> HIDE DEF ps
  <2>2. /\ t.rule = s.rule /\ t.at = "done" /\ t.pos = s.pos /\ t.start = s.start /\ t.startX = s.startX
        /\ t.end = s.end /\ t.pieces = ps
        /\ t = SplitAt(t.rule, t.at, t.pos, t.start, t.startX, t.end, t.before, t.type, t.pieces)
    BY <2>1, SplitFields
  <2>3. SplitFrame(t)
    BY <1>1, <2>2 DEF SplitFrame, q, n
  <2>4. EndsOf(q) = {}
    <3>1. EndsOf(q) \subseteq 0 .. n - 1
      BY <1>1, ReachFacts DEF n
    <3>2. \A i \in 0 .. n - 1 : i \notin EndsOf(q)
      BY <1>5, <1>6 DEF NoEnds
    <3> QED
      BY <3>1, <3>2
  <2>5. Pieces(q) = <<q>>
    BY <2>4 DEF Pieces, EndsOf
  <2>6. ps = <<q>>
    <3>1. Piece(q, 0, n) = SubSeq(q, 0 + 1, Len(q))
      BY DEF Piece, n
    <3>2. SubSeq(q, 0 + 1, Len(q)) = q
      BY <1>1, WholeSubSeq
    <3> QED
      BY <1>2, <3>1, <3>2 DEF ps
  <2>7. SplitMeans(t)
    BY <2>2, <2>5, <2>6 DEF SplitMeans, q
  <2> QED
    BY <2>3, <2>7 DEF SplitInv, t
<1>7. CASE e # n
  <2>1. t = SplitAt(s.rule, "first", s.start, s.start, s.startX, e, s.before, s.type, s.pieces)
    BY <1>1, <1>4, <1>7 DEF SplitAt
  <2>2. /\ t.rule = s.rule /\ t.at = "first" /\ t.pos = s.start /\ t.start = s.start /\ t.startX = s.startX
        /\ t.end = e /\ t.pieces = s.pieces
        /\ t = SplitAt(t.rule, t.at, t.pos, t.start, t.startX, t.end, t.before, t.type, t.pieces)
    BY <2>1, SplitFields
  <2>3. e \in 0 .. n /\ e < n /\ s.start <= e
    BY <1>1, <1>2, <1>3, <1>7
  <2>4. SplitFrame(t)
    BY <1>1, <2>2, <2>3 DEF SplitFrame, q, n
  <2>5. AtFirst(t)
    BY <1>2, <1>3, <1>5, <2>2, <2>3 DEF AtFirst, q, n
  <2>6. SplitMeans(t)
    BY <2>2, <2>5 DEF SplitMeans
  <2> QED
    BY <2>4, <2>6 DEF SplitInv, t
<1> QED
  BY <1>6, <1>7

\* Pieces were cut at a separator.
LEMMA CutType ==
  ASSUME NEW q, Len(q) \in Nat, NEW type, NEW pieces, NEW x, HasCut(q, type, pieces, x)
  PROVE  type \in Separators /\ x \in 0 .. Len(q)
<1>1. PICK k : CutAt(q, type, pieces, k, x)
  BY DEF HasCut
<1> DEFINE y == CutsOf(q, type)[k]
<1>2. k \in 1 .. Len(CutsOf(q, type)) /\ x = y + 1
  BY <1>1 DEF CutAt
<1>3. y \in TypedEnds(q, type) /\ y \in 0 .. Len(q) - 1
  BY <1>2, CutsAre
<1>4. q[y + 1] = type /\ y \in EndsOf(q)
  BY <1>3 DEF TypedEnds
<1>5. q[y + 1] \in Separators
  BY <1>4 DEF EndsOf
<1> HIDE DEF y
<1> QED
  BY <1>2, <1>3, <1>4, <1>5

\* A piece ends at a separator.
LEMMA PieceEndsKeeps ==
  ASSUME SplitInv, PieceEnds
  PROVE  SplitInv'
<1> DEFINE s == splitter
           t == splitter'
           q == s.rule
           n == Len(q)
           e == s.end
           b == Where(q, s.pos, Opening)
           type == IF s.at = "first" THEN q[e + 1] ELSE s.type
           ps == Append(s.pieces, Piece(q, s.startX, e))
<1>1. /\ s = SplitAt(s.rule, s.at, s.pos, s.start, s.startX, s.end, s.before, s.type, s.pieces)
      /\ q \in Seq(ToSet(q)) /\ n \in Nat /\ s.pos \in 0 .. n /\ s.start \in 0 .. n
      /\ s.startX \in 0 .. n /\ e \in 0 .. n /\ s.at \in {"first", "later"}
  BY DEF SplitInv, SplitFrame, PieceEnds
<1>2. s.at = "first" => AtFirst(s)
  BY DEF SplitInv, SplitMeans
<1>3. s.at = "later" => AtLater(s)
  BY DEF SplitInv, SplitMeans
<1>4. /\ b > e
      /\ t = [s EXCEPT !.at = "cut", !.pos = e + 1, !.before = b, !.type = type, !.pieces = ps]
  BY DEF PieceEnds
<1>5. s.pos <= e /\ e < n /\ Reaches(q, s.pos)
  BY <1>1, <1>2, <1>3 DEF AtFirst, AtLater
<1> HIDE DEF s, t, b
<1>6. /\ b \in s.pos .. n /\ \A i \in s.pos .. b - 1 : q[i + 1] \notin Opening
      /\ \A i \in Nat : s.pos <= i /\ i < b => Reaches(q, i + 1) /\ i \in Outside(q).places
  BY <1>1, <1>5, ReachBracket DEF b
<1>7. Reaches(q, e + 1) /\ e \in Outside(q).places /\ e \in Nat
  BY <1>1, <1>4, <1>5, <1>6
<1>8. NoBracket(q, e + 1, b)
  <2>1. b \in 0 .. n
    BY <1>1, <1>6
  <2>2. \A i \in e + 1 .. b - 1 : i \in s.pos .. b - 1
    BY <1>1, <1>5, <1>6
  <2> QED
    BY <1>6, <2>1, <2>2 DEF NoBracket
<1>9. HasCut(q, type, ps, e + 1)
  <2>1. CASE s.at = "first"
    <3>1. /\ s.startX = 0 /\ s.pieces = <<>> /\ q[e + 1] \in Separators /\ NoEnds(q, e)
      BY <1>2, <2>1 DEF AtFirst
    <3>2. e \in EndsOf(q)
      BY <1>7, <3>1 DEF EndsOf
    <3>3. \A i \in 0 .. e - 1 : i \notin EndsOf(q)
      BY <3>1 DEF NoEnds
    <3> HIDE DEF q, e
    <3>4. CutAt(q, q[e + 1], <<Piece(q, 0, e)>>, 1, e + 1)
      BY <1>1, <3>2, <3>3, FirstCut DEF n
    <3>5. ps = <<Piece(q, 0, e)>> /\ type = q[e + 1]
      BY <2>1, <3>1
    <3> QED
      BY <3>4, <3>5 DEF HasCut
  <2>2. CASE s.at = "later"
    <3>1. /\ s.startX <= e /\ q[e + 1] = s.type /\ NoTyped(q, s.type, s.startX, e)
          /\ HasCut(q, s.type, s.pieces, s.startX)
      BY <1>1, <1>3, <1>5, <2>2 DEF AtLater
    <3>2. s.type \in Separators
      BY <1>1, <3>1, CutType
    <3>3. e \in TypedEnds(q, s.type)
      BY <1>7, <3>1, <3>2 DEF EndsOf, TypedEnds
    <3>4. PICK k : CutAt(q, s.type, s.pieces, k, s.startX)
      BY <3>1 DEF HasCut
    <3>5. \A i \in s.startX .. e - 1 : i \notin TypedEnds(q, s.type)
      BY <3>1 DEF NoTyped
    <3> HIDE DEF q, e
    <3>6. CutAt(q, s.type, ps, k + 1, e + 1)
      BY <1>1, <3>1, <3>3, <3>4, <3>5, NextCut DEF n
    <3>7. type = s.type
      BY <2>2
    <3> QED
      BY <3>6, <3>7 DEF HasCut
  <2> QED
    BY <1>1, <2>1, <2>2
<1> HIDE DEF type, ps
<1>10. t = SplitAt(s.rule, "cut", e + 1, s.start, s.startX, s.end, b, type, ps)
  BY <1>1, <1>4 DEF SplitAt
<1>11. /\ t.rule = s.rule /\ t.at = "cut" /\ t.pos = e + 1 /\ t.start = s.start /\ t.startX = s.startX
       /\ t.end = s.end /\ t.before = b /\ t.type = type /\ t.pieces = ps
       /\ t = SplitAt(t.rule, t.at, t.pos, t.start, t.startX, t.end, t.before, t.type, t.pieces)
  BY <1>10, SplitFields
<1>12. SplitFrame(t)
  BY <1>1, <1>5, <1>11 DEF SplitFrame
<1>13. SplitMeans(t)
  BY <1>7, <1>8, <1>9, <1>11 DEF SplitMeans, AtCut
<1> QED
  BY <1>12, <1>13 DEF SplitInv, t

\* The rule is cut at one more of the same.
LEMMA CutFurtherKeeps ==
  ASSUME SplitInv, CutFurther
  PROVE  SplitInv'
<1> DEFINE s == splitter
           t == splitter'
           q == s.rule
           n == Len(q)
           x == s.pos
           e == Where(q, x, {s.type})
           rest1 == Append(s.pieces, Piece(q, x, n))
           more == Append(s.pieces, Piece(q, x, e))
<1>1. /\ s = SplitAt(s.rule, s.at, s.pos, s.start, s.startX, s.end, s.before, s.type, s.pieces)
      /\ s.at = "cut" /\ q \in Seq(ToSet(q)) /\ n \in Nat /\ x \in 0 .. n /\ s.start \in 0 .. n
      /\ s.startX \in 0 .. n /\ s.end \in 0 .. n
  BY DEF SplitInv, SplitFrame, CutFurther
<1>2. Reaches(q, x) /\ NoBracket(q, x, s.before) /\ HasCut(q, s.type, s.pieces, x)
  BY <1>1 DEF SplitInv, SplitMeans, AtCut
<1>3. /\ e \in x .. n /\ (e < n => q[e + 1] = s.type)
      /\ \A i \in x .. e - 1 : q[i + 1] # s.type
  <2>1. /\ e \in x .. n /\ (e < n => q[e + 1] \in {s.type})
        /\ \A i \in x .. e - 1 : q[i + 1] \notin {s.type}
    BY <1>1, WhereIs
  <2> HIDE DEF e
  <2> QED
    BY <2>1
<1>4. /\ e = n => t = [s EXCEPT !.at = "done", !.start = x, !.pieces = rest1]
      /\ e # n /\ e < s.before => t = [s EXCEPT !.start = x, !.pos = e + 1, !.pieces = more]
      /\ e # n /\ ~(e < s.before) =>
            t = Next2([s EXCEPT !.start = x, !.startX = x, !.pos = e])
  BY DEF CutFurther
<1>5. s.type \in Separators
  BY <1>1, <1>2, CutType
<1>6. PICK k : CutAt(q, s.type, s.pieces, k, x)
  BY <1>2 DEF HasCut
<1>7. \A i \in x .. e - 1 : i \notin TypedEnds(q, s.type)
  BY <1>3 DEF TypedEnds
<1> HIDE DEF s, t, q, n, x, e
<1>8. CASE e = n
  <2>1. rest1 = Pieces(q)
    BY <1>1, <1>6, <1>7, <1>8, LastCut DEF n
  <2> HIDE DEF rest1
  <2>2. t = SplitAt(s.rule, "done", s.pos, x, s.startX, s.end, s.before, s.type, rest1)
    BY <1>1, <1>4, <1>8 DEF SplitAt
  <2>3. /\ t.rule = s.rule /\ t.at = "done" /\ t.pos = s.pos /\ t.start = x /\ t.startX = s.startX
        /\ t.end = s.end /\ t.pieces = rest1
        /\ t = SplitAt(t.rule, t.at, t.pos, t.start, t.startX, t.end, t.before, t.type, t.pieces)
    BY <2>2, SplitFields
  <2>4. SplitFrame(t)
    BY <1>1, <2>3 DEF SplitFrame, q, n, x
  <2>5. SplitMeans(t)
    BY <2>1, <2>3 DEF SplitMeans, q
  <2> QED
    BY <2>4, <2>5 DEF SplitInv, t
<1>9. CASE e # n /\ e < s.before
  <2>1. e < n /\ e \in Nat /\ x <= e /\ e + 1 \in 0 .. n /\ s.before \in 0 .. n
    BY <1>1, <1>2, <1>3, <1>9 DEF NoBracket, n
  <2>2. /\ Reaches(q, e + 1) /\ e \in Outside(q).places
    <3> DEFINE w == e + 1
    <3>1. w \in Nat /\ x \in Nat /\ x <= w /\ w <= n /\ e \in x .. w - 1
      BY <1>1, <2>1
    <3>2. \A i \in x .. w - 1 : i \in x .. s.before - 1
      BY <1>1, <1>9, <2>1
    <3> HIDE DEF w
    <3>3. \A i \in x .. w - 1 : q[i + 1] \notin Opening
      BY <1>2, <3>2 DEF NoBracket
    <3>4. Reaches(q, w) /\ \A i \in x .. w - 1 : i \in Outside(q).places
      BY <1>1, <1>2, <3>1, <3>3, ReachWalk DEF n
    <3> QED
      BY <3>1, <3>4 DEF w
  <2>3. e \in TypedEnds(q, s.type)
    BY <1>3, <1>5, <2>1, <2>2 DEF EndsOf, TypedEnds
  <2>4. CutAt(q, s.type, more, k + 1, e + 1)
    BY <1>1, <1>6, <1>7, <2>1, <2>3, NextCut DEF n
  <2>5. HasCut(q, s.type, more, e + 1)
    BY <2>4 DEF HasCut
  <2>6. NoBracket(q, e + 1, s.before)
    <3>1. \A i \in e + 1 .. s.before - 1 : i \in x .. s.before - 1
      BY <1>1, <2>1
    <3> QED
      BY <1>2, <3>1 DEF NoBracket
  <2> HIDE DEF more
  <2>7. t = SplitAt(s.rule, "cut", e + 1, x, s.startX, s.end, s.before, s.type, more)
    BY <1>1, <1>4, <1>9 DEF SplitAt
  <2>8. /\ t.rule = s.rule /\ t.at = "cut" /\ t.pos = e + 1 /\ t.start = x /\ t.startX = s.startX
        /\ t.end = s.end /\ t.before = s.before /\ t.type = s.type /\ t.pieces = more
        /\ t = SplitAt(t.rule, t.at, t.pos, t.start, t.startX, t.end, t.before, t.type, t.pieces)
    BY <2>7, SplitFields
  <2>9. SplitFrame(t)
    BY <1>1, <2>1, <2>8 DEF SplitFrame, q, n
  <2>10. SplitMeans(t)
    BY <2>2, <2>5, <2>6, <2>8 DEF SplitMeans, AtCut, q
  <2> QED
    BY <2>9, <2>10 DEF SplitInv, t
<1>10. CASE e # n /\ ~(e < s.before)
  <2>1. t = SplitAt(s.rule, "later", x, x, x, e, s.before, s.type, s.pieces)
    BY <1>1, <1>4, <1>10 DEF SplitAt, Next2
  <2>2. /\ t.rule = s.rule /\ t.at = "later" /\ t.pos = x /\ t.start = x /\ t.startX = x
        /\ t.end = e /\ t.type = s.type /\ t.pieces = s.pieces
        /\ t = SplitAt(t.rule, t.at, t.pos, t.start, t.startX, t.end, t.before, t.type, t.pieces)
    BY <2>1, SplitFields
  <2>3. e \in 0 .. n /\ e < n /\ x <= e /\ x <= x
    BY <1>1, <1>3, <1>10
  <2>4. SplitFrame(t)
    BY <1>1, <2>2, <2>3 DEF SplitFrame, q, n
  <2>5. NoTyped(q, s.type, x, e)
    BY <1>7 DEF NoTyped
  <2>6. AtLater(t)
    BY <1>2, <1>3, <2>2, <2>3, <2>5 DEF AtLater, q, n
  <2>7. SplitMeans(t)
    BY <2>2, <2>6 DEF SplitMeans
  <2> QED
    BY <2>4, <2>7 DEF SplitInv, t
<1> QED
  BY <1>8, <1>9, <1>10

\* A bracket is jumped over.
LEMMA BracketKeeps ==
  ASSUME SplitInv, Bracket
  PROVE  SplitInv'
<1> DEFINE s == splitter
           t == splitter'
           q == s.rule
           n == Len(q)
           e == s.end
           b == Where(q, s.pos, Opening)
           c == Close(q, b)
           x == Where(q, c, {s.type})
           all == Append(s.pieces, Piece(q, s.startX, n))
<1>1. /\ s = SplitAt(s.rule, s.at, s.pos, s.start, s.startX, s.end, s.before, s.type, s.pieces)
      /\ q \in Seq(ToSet(q)) /\ n \in Nat /\ s.pos \in 0 .. n /\ s.start \in 0 .. n
      /\ s.startX \in 0 .. n /\ e \in 0 .. n /\ s.at \in {"first", "later"}
  BY DEF SplitInv, SplitFrame, Bracket
<1>2. s.at = "first" => AtFirst(s)
  BY DEF SplitInv, SplitMeans
<1>3. s.at = "later" => AtLater(s)
  BY DEF SplitInv, SplitMeans
<1>4. /\ b < e
      /\ c = Failed => t = [s EXCEPT !.at = "throws"]
      /\ c # Failed /\ c < e => t = [s EXCEPT !.pos = c]
      /\ c # Failed /\ ~(c < e) /\ s.at = "first" =>
            t = [s EXCEPT !.at = "split", !.pos = c, !.start = c]
      /\ c # Failed /\ ~(c < e) /\ s.at # "first" /\ x = n =>
            t = [s EXCEPT !.at = "done", !.pieces = all]
      /\ c # Failed /\ ~(c < e) /\ s.at # "first" /\ x # n =>
            t = Next2([s EXCEPT !.start = c, !.pos = x])
  BY DEF Bracket
<1>5. s.pos <= e /\ e < n /\ Reaches(q, s.pos)
  BY <1>1, <1>2, <1>3 DEF AtFirst, AtLater
<1> HIDE DEF s, t, b, q, n, e
<1>6. b \in s.pos .. n /\ (b < n => q[b + 1] \in Opening /\ Reaches(q, b))
  BY <1>1, <1>5, ReachBracket DEF b, n
<1>7. b \in Nat /\ b < n /\ q[b + 1] \in Opening /\ Reaches(q, b)
  BY <1>1, <1>4, <1>5, <1>6
<1>8. /\ c = Failed => ~Outside(q).closed
      /\ c # Failed => c \in b + 2 .. n /\ Reaches(q, c) /\ \A i \in b .. c - 1 : i \notin EndsOf(q)
  BY <1>1, <1>7, ReachSkip DEF n
<1> HIDE DEF c, x, all
<1>9. CASE c = Failed
  <2>1. t = SplitAt(s.rule, "throws", s.pos, s.start, s.startX, s.end, s.before, s.type, s.pieces)
    BY <1>1, <1>4, <1>9 DEF SplitAt
  <2>2. /\ t.rule = s.rule /\ t.at = "throws" /\ t.pos = s.pos /\ t.start = s.start /\ t.startX = s.startX
        /\ t.end = s.end
        /\ t = SplitAt(t.rule, t.at, t.pos, t.start, t.startX, t.end, t.before, t.type, t.pieces)
    BY <2>1, SplitFields
  <2>3. SplitFrame(t)
    BY <1>1, <2>2 DEF SplitFrame, q, n, e
  <2>4. t.at # "split" /\ t.at # "first" /\ t.at # "cut" /\ t.at # "later" /\ t.at # "done"
    BY <2>2
  <2>5. t.rule = q
    BY <2>2 DEF q
  <2>6. SplitMeans(t)
    BY <1>8, <1>9, <2>4, <2>5, Zenon DEF SplitMeans
  <2> QED
    BY <2>3, <2>6 DEF SplitInv, t
<1>10. CASE c # Failed /\ c < e
  <2>1. t = SplitAt(s.rule, s.at, c, s.start, s.startX, s.end, s.before, s.type, s.pieces)
    BY <1>1, <1>4, <1>10 DEF SplitAt
  <2>2. /\ t.rule = s.rule /\ t.at = s.at /\ t.pos = c /\ t.start = s.start /\ t.startX = s.startX
        /\ t.end = s.end /\ t.type = s.type /\ t.pieces = s.pieces
        /\ t = SplitAt(t.rule, t.at, t.pos, t.start, t.startX, t.end, t.before, t.type, t.pieces)
    BY <2>1, SplitFields
  <2>3. c \in 0 .. n /\ c <= e /\ s.pos <= c
    BY <1>1, <1>6, <1>7, <1>8, <1>10
  <2>4. SplitFrame(t)
    BY <1>1, <2>2, <2>3 DEF SplitFrame, q, n, e
  <2>5. Reaches(q, c)
    BY <1>8, <1>10
  <2>6. s.at = "first" => AtFirst(t)
    BY <1>2, <2>2, <2>3, <2>5 DEF AtFirst, q, n, e
  <2>7. s.at = "later" => AtLater(t)
    <3> SUFFICES ASSUME s.at = "later" PROVE AtLater(t)
      OBVIOUS
    <3>1. /\ s.startX <= s.pos /\ e < n /\ q[e + 1] = s.type
          /\ NoTyped(q, s.type, s.startX, e) /\ HasCut(q, s.type, s.pieces, s.startX)
      BY <1>3 DEF AtLater, q, n, e
    <3>2. s.startX <= c
      BY <1>1, <2>3, <3>1
    <3> QED
      BY <2>2, <2>3, <2>5, <3>1, <3>2 DEF AtLater, q, n, e
  <2>8. SplitMeans(t)
    BY <1>1, <2>2, <2>6, <2>7 DEF SplitMeans
  <2> QED
    BY <2>4, <2>8 DEF SplitInv, t
<1>11. CASE c # Failed /\ ~(c < e)
  <2>1. c \in 0 .. n /\ c >= e /\ s.pos <= c /\ Reaches(q, c)
    BY <1>1, <1>6, <1>7, <1>8, <1>11
  <2>2. \A i \in b .. c - 1 : i \notin EndsOf(q)
    BY <1>8, <1>11
  <2>3. CASE s.at = "first"
    <3>1. t = SplitAt(s.rule, "split", c, c, s.startX, s.end, s.before, s.type, s.pieces)
      BY <1>1, <1>4, <1>11, <2>3 DEF SplitAt
    <3>2. /\ t.rule = s.rule /\ t.at = "split" /\ t.pos = c /\ t.start = c /\ t.startX = s.startX
          /\ t.end = s.end /\ t.pieces = s.pieces
          /\ t = SplitAt(t.rule, t.at, t.pos, t.start, t.startX, t.end, t.before, t.type, t.pieces)
      BY <3>1, SplitFields
    <3>3. SplitFrame(t)
      BY <1>1, <2>1, <3>2 DEF SplitFrame, q, n, e
    <3>4. s.startX = 0 /\ s.pieces = <<>> /\ NoEnds(q, e)
      BY <1>2, <2>3 DEF AtFirst, q, e
    <3>5. NoEnds(q, c)
      <4> SUFFICES ASSUME NEW i \in 0 .. c - 1 PROVE i \notin EndsOf(q)
        BY DEF NoEnds
      <4>1. i \in 0 .. e - 1 \/ i \in b .. c - 1
        BY <1>1, <1>4, <1>7, <2>1
      <4> QED
        BY <2>2, <3>4, <4>1 DEF NoEnds
    <3>6. AtSplit(t)
      BY <2>1, <3>2, <3>4, <3>5 DEF AtSplit, q
    <3>7. SplitMeans(t)
      BY <3>2, <3>6 DEF SplitMeans
    <3> QED
      BY <3>3, <3>7 DEF SplitInv, t
  <2>4. CASE s.at = "later"
    <3>1. /\ s.startX <= s.pos /\ NoTyped(q, s.type, s.startX, e)
          /\ HasCut(q, s.type, s.pieces, s.startX)
      BY <1>3, <2>4 DEF AtLater, q, e
    <3>2. /\ x \in c .. n /\ (x < n => q[x + 1] = s.type)
          /\ \A i \in c .. x - 1 : q[i + 1] # s.type
      <4>1. /\ x \in c .. n /\ (x < n => q[x + 1] \in {s.type})
            /\ \A i \in c .. x - 1 : q[i + 1] \notin {s.type}
        BY <1>1, <2>1, WhereIs DEF n, x
      <4> QED
        BY <4>1
    <3>3. \A i \in s.startX .. x - 1 : i \notin TypedEnds(q, s.type)
      <4> TAKE i \in s.startX .. x - 1
      <4>1. i \in s.startX .. e - 1 \/ i \in b .. c - 1 \/ i \in c .. x - 1
        BY <1>1, <1>4, <1>7, <2>1, <3>2
      <4>2. i \in b .. c - 1 => i \notin TypedEnds(q, s.type)
        BY <2>2 DEF TypedEnds
      <4>3. i \in c .. x - 1 => i \notin TypedEnds(q, s.type)
        BY <3>2 DEF TypedEnds
      <4> QED
        BY <3>1, <4>1, <4>2, <4>3 DEF NoTyped
    <3>4. CASE x = n
      <4>1. t = SplitAt(s.rule, "done", s.pos, s.start, s.startX, s.end, s.before, s.type, all)
        BY <1>1, <1>4, <1>11, <2>4, <3>4 DEF SplitAt
      <4>2. /\ t.rule = s.rule /\ t.at = "done" /\ t.pos = s.pos /\ t.start = s.start /\ t.startX = s.startX
            /\ t.end = s.end /\ t.pieces = all
            /\ t = SplitAt(t.rule, t.at, t.pos, t.start, t.startX, t.end, t.before, t.type, t.pieces)
        BY <4>1, SplitFields
      <4>3. SplitFrame(t)
        BY <1>1, <4>2 DEF SplitFrame, q, n, e
      <4>4. all = Pieces(q)
        <5>1. PICK k : CutAt(q, s.type, s.pieces, k, s.startX)
          BY <3>1 DEF HasCut
        <5>2. \A i \in s.startX .. Len(q) - 1 : i \notin TypedEnds(q, s.type)
          BY <3>3, <3>4 DEF n
        <5> QED
          BY <1>1, <5>1, <5>2, LastCut DEF n, all
      <4>5. SplitMeans(t)
        BY <4>2, <4>4 DEF SplitMeans, q
      <4> QED
        BY <4>3, <4>5 DEF SplitInv, t
    <3>5. CASE x # n
      <4>1. t = SplitAt(s.rule, "later", c, c, s.startX, x, s.before, s.type, s.pieces)
        BY <1>1, <1>4, <1>11, <2>4, <3>5 DEF SplitAt, Next2
      <4>2. /\ t.rule = s.rule /\ t.at = "later" /\ t.pos = c /\ t.start = c /\ t.startX = s.startX
            /\ t.end = x /\ t.type = s.type /\ t.pieces = s.pieces
            /\ t = SplitAt(t.rule, t.at, t.pos, t.start, t.startX, t.end, t.before, t.type, t.pieces)
        BY <4>1, SplitFields
      <4>3. x \in 0 .. n /\ x < n /\ c <= x /\ s.startX <= c
        BY <1>1, <2>1, <3>1, <3>2, <3>5
      <4>4. SplitFrame(t)
        BY <1>1, <2>1, <4>2, <4>3 DEF SplitFrame, q, n, e
      <4>5. NoTyped(q, s.type, s.startX, x)
        BY <3>3 DEF NoTyped
      <4>6. q[x + 1] = s.type
        BY <3>2, <4>3
      <4>7. AtLater(t)
        BY <2>1, <3>1, <4>2, <4>3, <4>5, <4>6 DEF AtLater, q, n
      <4>8. SplitMeans(t)
        BY <4>2, <4>7 DEF SplitMeans
      <4> QED
        BY <4>4, <4>8 DEF SplitInv, t
    <3> QED
      BY <3>4, <3>5
  <2> QED
    BY <1>1, <2>3, <2>4
<1> QED
  BY <1>9, <1>10, <1>11

\* Every step.
LEMMA SplitGoesOn ==
  ASSUME SplitInv, (Split \/ PieceEnds \/ Bracket \/ CutFurther) \/ UNCHANGED splitter
  PROVE  SplitInv'
<1>1. CASE UNCHANGED splitter
  BY <1>1 DEF SplitInv
<1> QED
  BY <1>1, SplitKeeps, PieceEndsKeeps, BracketKeeps, CutFurtherKeeps

\* What the invariant says of the pieces and of the types.
LEMMA SplitsRight ==
  ASSUME SplitInv
  PROVE  /\ SplitsAtSeparators
         /\ splitter.at \in {"split", "first", "later", "cut", "throws", "done", "idle"}
         /\ {splitter.start, splitter.startX, splitter.pos, splitter.end} \subseteq 0 .. Len(splitter.rule)
<1>1. SplitsAtSeparators
  BY Zenon DEF SplitInv, SplitMeans, SplitsAtSeparators
<1> QED
  BY <1>1 DEF SplitInv, SplitFrame

-----------------------------------------------------------------------------
(* How a list of indexes is written. *)

\* A sequence that stands in a rule, after position p.
Stands(q, w, p) == \A j \in 1 .. Len(w) : q[p + j] = w[j]

\* Two words in a row stand in a text one after the other,
LEMMA StandsSplit ==
  ASSUME NEW q, NEW X, NEW a \in Seq(X), NEW b \in Seq(X), NEW p \in Nat, Stands(q, a \o b, p)
  PROVE  Stands(q, a, p) /\ Stands(q, b, p + Len(a))
<1> DEFINE w == a \o b
           m == Len(a)
           n == Len(b)
<1>1. /\ Len(w) = m + n /\ m \in Nat /\ n \in Nat
      /\ \A i \in 1 .. m + n : w[i] = IF i <= m THEN a[i] ELSE b[i - m]
  BY ConcatProperties
<1> HIDE DEF w, m, n
<1>2. \A j \in 1 .. m + n : q[p + j] = w[j]
  BY <1>1 DEF Stands, w
<1>3. ASSUME NEW j \in 1 .. m PROVE q[p + j] = a[j]
  <2>1. j \in 1 .. m + n /\ j <= m
    BY <1>1
  <2> QED
    BY <1>1, <1>2, <2>1
<1>4. ASSUME NEW j \in 1 .. n PROVE q[(p + m) + j] = b[j]
  <2> DEFINE i == m + j
  <2>1. i \in 1 .. m + n /\ ~(i <= m) /\ i - m = j /\ (p + m) + j = p + i
    BY <1>1
  <2> HIDE DEF i
  <2> QED
    BY <1>1, <1>2, <2>1
<1> QED
  BY <1>3, <1>4 DEF Stands, m, n

\* Sequences in a row: each stands after those before.
InARow(q, s, r, p) ==
    /\ r[0] = p
    /\ \A k \in 1 .. Len(s) : r[k] = r[k - 1] + Len(s[k]) /\ Stands(q, s[k], r[k - 1])
    /\ \A k \in 0 .. Len(s) : r[k] \in Nat

\* and so do many.
LEMMA StandsInARow ==
  ASSUME NEW q, NEW X, NEW s \in Seq(Seq(X)), NEW p \in Nat, Stands(q, FlattenSeq(s), p)
  PROVE  \E r : InARow(q, s, r, p) /\ r[Len(s)] = p + Len(FlattenSeq(s))
<1> DEFINE n == Len(s)
<1>1. PICK f \in [0 .. n -> Seq(X)] : Grown(f, s, n) /\ FlattenSeq(s) = f[n]
  BY FlattenGrows
<1>2. n \in Nat /\ f[0] = <<>> /\ \A k \in 1 .. n : f[k] = f[k - 1] \o s[k] /\ s[k] \in Seq(X)
  <2>1. n \in Nat /\ \A k \in 1 .. n : s[k] \in Seq(X)
    OBVIOUS
  <2>2. f[0] = <<>> /\ \A k \in 1 .. n : f[k] = f[k - 1] \o s[k]
    BY <1>1, Zenon DEF Grown
  <2> QED
    BY <2>1, <2>2
<1>3. \A k \in 0 .. n : f[k] \in Seq(X) /\ Len(f[k]) \in Nat
  OBVIOUS
<1> HIDE DEF n
<1> DEFINE U == {j \in Nat : j <= n => Stands(q, f[n - j], p)}
<1>4. 0 \in U
  <2>1. n - 0 = n
    BY <1>2
  <2> QED
    BY <1>1, <2>1
<1>5. ASSUME NEW j \in Nat, j \in U PROVE j + 1 \in U
  <2> SUFFICES ASSUME j + 1 <= n PROVE Stands(q, f[n - (j + 1)], p)
    OBVIOUS
  <2> DEFINE k == n - j
  <2>1. k \in 1 .. n /\ k \in 0 .. n /\ k - 1 \in 0 .. n /\ n - (j + 1) = k - 1 /\ j <= n
    BY <1>2
  <2>2. Stands(q, f[k], p)
    BY <1>5, <2>1
  <2> HIDE DEF k
  <2>3. f[k] = f[k - 1] \o s[k] /\ s[k] \in Seq(X) /\ f[k - 1] \in Seq(X)
    BY <1>2, <1>3, <2>1
  <2>4. Stands(q, f[k - 1], p)
    BY <2>2, <2>3, StandsSplit
  <2> QED
    BY <2>1, <2>4
<1>6. Nat \subseteq U
  <2> HIDE DEF U
  <2> QED
    BY <1>4, <1>5, EveryNumber
<1>7. ASSUME NEW k \in 0 .. n PROVE Stands(q, f[k], p)
  <2> DEFINE j == n - k
  <2>1. j \in Nat /\ j <= n /\ n - j = k
    BY <1>2
  <2>2. j \in U
    BY <1>6, <2>1
  <2> QED
    BY <2>1, <2>2
<1> DEFINE r == [k \in 0 .. n |-> p + Len(f[k])]
<1>8. r[0] = p
  <2>1. 0 \in 0 .. n /\ Len(<<>>) = 0
    BY <1>2
  <2>2. r[0] = p + Len(f[0])
    BY <2>1
  <2>3. Len(f[0]) = 0
    BY <1>2
  <2> HIDE DEF r
  <2> QED
    BY <2>2, <2>3
<1>9. ASSUME NEW k \in 1 .. n PROVE r[k] = r[k - 1] + Len(s[k]) /\ Stands(q, s[k], r[k - 1])
  <2>1. k \in 0 .. n /\ k - 1 \in 0 .. n
    BY <1>2
  <2> DEFINE a == f[k - 1]
             b == s[k]
  <2>2. f[k] = a \o b /\ a \in Seq(X) /\ b \in Seq(X)
    BY <1>2, <1>3, <2>1
  <2>3. r[k] = p + Len(f[k]) /\ r[k - 1] = p + Len(a)
    BY <2>1
  <2>4. Stands(q, f[k], p)
    BY <1>7, <2>1
  <2> HIDE DEF a, b, r
  <2>5. Len(a \o b) = Len(a) + Len(b) /\ Len(a) \in Nat /\ Len(b) \in Nat
    BY <2>2, ConcatProperties
  <2>6. Stands(q, b, p + Len(a))
    BY <2>2, <2>4, StandsSplit
  <2>7. r[k] = r[k - 1] + Len(b)
    BY <2>2, <2>3, <2>5
  <2> QED
    BY <2>3, <2>6, <2>7 DEF b
<1>10. \A k \in 0 .. n : r[k] \in Nat
  BY <1>3
<1>11. r[n] = p + Len(FlattenSeq(s))
  <2>1. n \in 0 .. n
    BY <1>2
  <2> QED
    BY <1>1, <2>1
<1> HIDE DEF r
<1>12. InARow(q, s, r, p)
  BY <1>8, <1>9, <1>10 DEF InARow, n
<1> QED
  BY <1>11, <1>12 DEF n

\* Figures and items, by the positions they stand at.
Size0(v) == IF v < 0 THEN -v ELSE v
FigLen(v) == IF v < 0 THEN 2 ELSE 1
Written(q, v, p) == q[p] = Digits[Size0(v) + 1] /\ (v < 0 => q[p - 1] = "-")

AEnd(index, p) == p + FigLen(index.from)
BEnd(index, p) == AEnd(index, p) + 1 + FigLen(index.to)
SEnd(index, p) == BEnd(index, p) + 1 + FigLen(index.step)
ItemEnd(index, p) ==
    IF index.single THEN AEnd(index, p) ELSE IF index.step = 1 THEN BEnd(index, p) ELSE SEnd(index, p)
ItemWritten(q, index, p) ==
    /\ Written(q, index.from, AEnd(index, p))
    /\ ~index.single =>
        /\ q[AEnd(index, p) + 1] = ":" /\ Written(q, index.to, BEnd(index, p))
        /\ index.step # 1 => q[BEnd(index, p) + 1] = ":" /\ Written(q, index.step, SEnd(index, p))
IsIndex(index) ==
    \/ \E n \in -3 .. 3 : index = Single(n)
    \/ \E a \in -3 .. 3 : \E b \in -3 .. 3 : \E step \in -3 .. 3 : index = RangeOf(a, b, step)

\* The parts of an index.
LEMMA IndexFields ==
  ASSUME NEW index, IsIndex(index)
  PROVE  /\ index.from \in -3 .. 3
         /\ index.single => index = Single(index.from)
         /\ ~index.single => /\ index.to \in -3 .. 3 /\ index.step \in -3 .. 3
                             /\ index = RangeOf(index.from, index.to, index.step)
<1>1. ASSUME NEW n \in -3 .. 3, index = Single(n)
      PROVE  index.from \in -3 .. 3 /\ index.single /\ index = Single(index.from)
  <2>1. index.from = n /\ index.single = TRUE
    BY <1>1 DEF Single
  <2> QED
    BY <1>1, <2>1
<1>2. ASSUME NEW a \in -3 .. 3, NEW b \in -3 .. 3, NEW step \in -3 .. 3, index = RangeOf(a, b, step)
      PROVE  /\ index.from \in -3 .. 3 /\ ~index.single /\ index.to \in -3 .. 3 /\ index.step \in -3 .. 3
             /\ index = RangeOf(index.from, index.to, index.step)
  <2>1. index.from = a /\ index.to = b /\ index.step = step /\ index.single = FALSE
    BY <1>2 DEF RangeOf
  <2> QED
    BY <1>2, <2>1
<1>3. CASE \E n \in -3 .. 3 : index = Single(n)
  <2>1. PICK n \in -3 .. 3 : index = Single(n)
    BY <1>3
  <2>2. index.from \in -3 .. 3 /\ index.single /\ index = Single(index.from)
    BY <1>1, <2>1
  <2> QED
    BY <2>2, Zenon
<1>4. CASE \E a \in -3 .. 3 : \E b \in -3 .. 3 : \E step \in -3 .. 3 : index = RangeOf(a, b, step)
  <2>1. PICK a \in -3 .. 3 : \E b \in -3 .. 3 : \E step \in -3 .. 3 : index = RangeOf(a, b, step)
    BY <1>4
  <2>2. PICK b \in -3 .. 3 : \E step \in -3 .. 3 : index = RangeOf(a, b, step)
    BY <2>1
  <2>3. PICK step \in -3 .. 3 : index = RangeOf(a, b, step)
    BY <2>2
  <2>4. /\ index.from \in -3 .. 3 /\ ~index.single /\ index.to \in -3 .. 3 /\ index.step \in -3 .. 3
        /\ index = RangeOf(index.from, index.to, index.step)
    BY <1>2, <2>3
  <2> QED
    BY <2>4, Zenon
<1> QED
  BY <1>3, <1>4 DEF IsIndex

Letters == ToSet(Digits) \union {"x", "-", ":", ",", "[", "]", "!", "."}
\* The letters a list of indexes is written with.
LEMMA LettersAre ==
  ASSUME NEW X, X = Letters
  PROVE  /\ "x" \in X /\ "-" \in X /\ ":" \in X /\ "," \in X /\ "[" \in X /\ "]" \in X /\ "!" \in X /\ "." \in X
         /\ ToSet(Digits) \subseteq X
BY DEF Letters

\* What is read of a digit is its number, and no separator is one.
LEMMA DigitIs ==
  /\ \A m \in 0 .. 3 : /\ Digits[m + 1] \in Letters /\ Digits[m + 1] \in ToSet(Digits) /\ Digits[m + 1] # ""
                       /\ Worth(Digits[m + 1]) = m
  /\ \A c \in {":", "-", ",", "[", "]", "!", "."} : c \notin ToSet(Digits)
<1>1. /\ Digits[1] = "0" /\ Digits[2] = "1" /\ Digits[3] = "2" /\ Digits[4] = "3"
      /\ DOMAIN Digits = 1 .. 4
  BY DEF Digits
<1>2. ToSet(Digits) = {"0", "1", "2", "3"}
  <2>1. \A x : x \in ToSet(Digits) <=> \E i \in 1 .. 4 : Digits[i] = x
    BY <1>1 DEF ToSet
  <2>2. \A i \in 1 .. 4 : i = 1 \/ i = 2 \/ i = 3 \/ i = 4
    OBVIOUS
  <2>3. 1 \in 1 .. 4 /\ 2 \in 1 .. 4 /\ 3 \in 1 .. 4 /\ 4 \in 1 .. 4
    OBVIOUS
  <2> HIDE DEF Digits
  <2> QED
    BY <1>1, <2>1, <2>2, <2>3
<1>3. ASSUME NEW m \in 0 .. 3
      PROVE  /\ Digits[m + 1] \in Letters /\ Digits[m + 1] \in ToSet(Digits) /\ Digits[m + 1] # ""
             /\ \A i \in 0 .. 3 : Digits[i + 1] = Digits[m + 1] => i = m
  <2>1. m = 0 \/ m = 1 \/ m = 2 \/ m = 3
    OBVIOUS
  <2>2. Digits[m + 1] \in {"0", "1", "2", "3"}
    BY <1>1, <2>1
  <2>3. ASSUME NEW i \in 0 .. 3, Digits[i + 1] = Digits[m + 1] PROVE i = m
    <3>1. i = 0 \/ i = 1 \/ i = 2 \/ i = 3
      OBVIOUS
    <3> QED
      BY <1>1, <2>1, <2>3, <3>1
  <2>4. Digits[m + 1] \in ToSet(Digits) /\ Digits[m + 1] # ""
    BY <1>2, <2>2
  <2>5. Digits[m + 1] \in Letters
    BY <2>4, LettersAre
  <2> QED
    BY <2>3, <2>4, <2>5
<1>4. ASSUME NEW m \in 0 .. 3 PROVE Worth(Digits[m + 1]) = m
  <2> DEFINE t == Digits[m + 1]
  <2>1. \A n \in 0 .. 3 : Digits[n + 1] = t => n = m
    BY <1>3
  <2>2. Digits[m + 1] = t
    OBVIOUS
  <2> HIDE DEF t
  <2>3. Worth(t) = CHOOSE n \in 0 .. 3 : Digits[n + 1] = t
    BY DEF Worth
  <2>4. Worth(t) \in 0 .. 3 /\ Digits[Worth(t) + 1] = t
    BY <2>2, <2>3
  <2>5. Worth(t) = m
    BY <2>1, <2>4
  <2> QED
    BY <2>5 DEF t
<1>5. \A c \in {":", "-", ",", "[", "]", "!", "."} : c \notin ToSet(Digits)
  BY <1>2
<1> QED
  BY <1>3, <1>4, <1>5

\* A figure is a digit, or a minus and a digit.
LEMMA FigureIs ==
  ASSUME NEW v \in -3 .. 3
  PROVE  /\ Figure(v) \in Seq(Letters) /\ Len(Figure(v)) = FigLen(v) /\ FigLen(v) \in {1, 2}
         /\ \A q : \A p \in Nat : Stands(q, Figure(v), p) => Written(q, v, p + FigLen(v))
<1>1. CASE v < 0
  <2> DEFINE d == Digits[1 - v]
  <2>1. Size0(v) + 1 = 1 - v /\ 0 - v \in 0 .. 3 /\ 1 - v = (0 - v) + 1 /\ FigLen(v) = 2
    BY <1>1 DEF Size0, FigLen
  <2>2. d \in Letters
    BY <2>1, DigitIs
  <2>3. Figure(v) = <<"-", d>>
    BY <1>1 DEF Figure
  <2>4. d = Digits[Size0(v) + 1]
    BY <2>1
  <2> HIDE DEF d
  <2>5. /\ <<"-", d>> \in Seq(Letters) /\ Len(<<"-", d>>) = 2
        /\ <<"-", d>>[1] = "-" /\ <<"-", d>>[2] = d
    <3> DEFINE X == Letters
    <3>1. "-" \in X /\ d \in X
      BY <2>2, LettersAre
    <3> HIDE DEF X
    <3>2. <<"-", d>> \in Seq(X)
      BY <3>1
    <3> QED
      BY <3>2 DEF X
  <2>6. ASSUME NEW q, NEW p \in Nat, Stands(q, Figure(v), p) PROVE Written(q, v, p + FigLen(v))
    <3> DEFINE w == Figure(v)
    <3>1. Len(w) = 2 /\ w[1] = "-" /\ w[2] = d
      BY <2>3, <2>5
    <3> HIDE DEF w
    <3>2. q[p + 1] = "-" /\ q[p + 2] = d
      BY <2>6, <3>1 DEF Stands, w
    <3>3. (p + 2) - 1 = p + 1
      OBVIOUS
    <3> QED
      BY <2>1, <2>4, <3>2, <3>3 DEF Written
  <2> QED
    BY <2>1, <2>3, <2>5, <2>6
<1>2. CASE ~(v < 0)
  <2> DEFINE d == Digits[v + 1]
  <2>1. Size0(v) = v /\ v \in 0 .. 3 /\ FigLen(v) = 1
    BY <1>2 DEF Size0, FigLen
  <2>2. d \in Letters
    BY <2>1, DigitIs
  <2>3. Figure(v) = <<d>>
    BY <1>2 DEF Figure
  <2>4. d = Digits[Size0(v) + 1]
    BY <2>1
  <2> HIDE DEF d
  <2>5. /\ <<d>> \in Seq(Letters) /\ Len(<<d>>) = 1 /\ <<d>>[1] = d
    <3> DEFINE X == Letters
    <3>1. d \in X
      BY <2>2
    <3> HIDE DEF X
    <3>2. <<d>> \in Seq(X)
      BY <3>1
    <3> QED
      BY <3>2 DEF X
  <2>6. ASSUME NEW q, NEW p \in Nat, Stands(q, Figure(v), p) PROVE Written(q, v, p + FigLen(v))
    <3> DEFINE w == Figure(v)
    <3>1. Len(w) = 1 /\ w[1] = d
      BY <2>3, <2>5
    <3> HIDE DEF w
    <3>2. q[p + 1] = d
      BY <2>6, <3>1 DEF Stands, w
    <3> QED
      BY <1>2, <2>1, <2>4, <3>2 DEF Written
  <2> QED
    BY <2>1, <2>3, <2>5, <2>6
<1> QED
  BY <1>1, <1>2

\* An item is one figure, or two or three with colons between them.
LEMMA ItemIs ==
  ASSUME NEW index, IsIndex(index)
  PROVE  /\ Item(index) \in Seq(Letters)
         /\ \A p \in Nat : ItemEnd(index, p) = p + Len(Item(index)) /\ ItemEnd(index, p) \in Nat
         /\ \A q : \A p \in Nat : Stands(q, Item(index), p) => ItemWritten(q, index, p)
<1> DEFINE fa == Figure(index.from)
           fb == Figure(index.to)
           fs == Figure(index.step)
           la == FigLen(index.from)
           lb == FigLen(index.to)
           ls == FigLen(index.step)
           colon == <<":">>
<1>0. colon \in Seq(Letters) /\ Len(colon) = 1 /\ colon[1] = ":"
  <2> DEFINE X == Letters
  <2>1. ":" \in X
    BY LettersAre
  <2> HIDE DEF X
  <2>2. <<":">> \in Seq(X)
    BY <2>1
  <2> QED
    BY <2>2 DEF X
<1>1. /\ index.from \in -3 .. 3
      /\ ~index.single => index.to \in -3 .. 3 /\ index.step \in -3 .. 3
  BY IndexFields
<1>2. /\ fa \in Seq(Letters) /\ Len(fa) = la /\ la \in {1, 2}
      /\ \A q : \A p \in Nat : Stands(q, fa, p) => Written(q, index.from, p + la)
  BY <1>1, FigureIs
<1> HIDE DEF fa, fb, fs, la, lb, ls, colon
<1>3. CASE index.single
  <2>1. Item(index) = fa
    BY <1>3 DEF Item, fa
  <2>2. ASSUME NEW p \in Nat PROVE ItemEnd(index, p) = p + Len(Item(index)) /\ ItemEnd(index, p) \in Nat
    BY <1>2, <1>3, <2>1 DEF ItemEnd, AEnd, la
  <2>3. ASSUME NEW q, NEW p \in Nat, Stands(q, Item(index), p) PROVE ItemWritten(q, index, p)
    <3>1. Written(q, index.from, AEnd(index, p))
      BY <1>2, <2>1, <2>3 DEF AEnd, la
    <3> QED
      BY <1>3, <3>1, Zenon DEF ItemWritten
  <2> QED
    BY <1>2, <2>1, <2>2, <2>3
<1>4. CASE ~index.single
  <2>1. /\ fb \in Seq(Letters) /\ Len(fb) = lb /\ lb \in {1, 2}
        /\ \A q : \A p \in Nat : Stands(q, fb, p) => Written(q, index.to, p + lb)
    BY <1>1, <1>4, FigureIs DEF fb, lb
  <2>2. /\ fs \in Seq(Letters) /\ Len(fs) = ls /\ ls \in {1, 2}
        /\ \A q : \A p \in Nat : Stands(q, fs, p) => Written(q, index.step, p + ls)
    BY <1>1, <1>4, FigureIs DEF fs, ls
  <2> DEFINE ac == fa \o colon
             ab == ac \o fb
             cs == colon \o fs
  <2>3. ac \in Seq(Letters) /\ Len(ac) = la + 1
    BY <1>0, <1>2, ConcatProperties
  <2>4. ab \in Seq(Letters) /\ Len(ab) = la + 1 + lb
    <3> HIDE DEF ac
    <3> QED
      BY <1>2, <2>1, <2>3, ConcatProperties
  <2>5. cs \in Seq(Letters) /\ Len(cs) = 1 + ls
    BY <1>0, <2>2, ConcatProperties
  <2>6. /\ index.step = 1 => Item(index) = ab \o <<>>
        /\ index.step # 1 => Item(index) = ab \o cs
    BY <1>4 DEF Item, fa, fb, fs, colon
  <2>7. ASSUME NEW q, NEW p \in Nat, Stands(q, ab, p)
        PROVE  /\ Written(q, index.from, AEnd(index, p))
               /\ q[AEnd(index, p) + 1] = ":" /\ Written(q, index.to, BEnd(index, p))
    <3> HIDE DEF ac
    <3>1. Stands(q, ac, p) /\ Stands(q, fb, p + (la + 1))
      BY <2>1, <2>3, <2>7, StandsSplit
    <3>2. Stands(q, fa, p) /\ Stands(q, colon, p + la)
      BY <1>0, <1>2, <3>1, StandsSplit DEF ac
    <3>3. AEnd(index, p) = p + la /\ p + la \in Nat /\ p + (la + 1) \in Nat
          /\ BEnd(index, p) = (p + (la + 1)) + lb
      BY <1>2, <2>1 DEF AEnd, BEnd, la, lb
    <3>4. q[(p + la) + 1] = ":"
      <4>1. 1 \in 1 .. Len(colon)
        BY <1>0
      <4> QED
        BY <1>0, <3>2, <4>1 DEF Stands
    <3>5. Written(q, index.from, p + la)
      BY <1>2, <3>2
    <3>6. Written(q, index.to, (p + (la + 1)) + lb)
      BY <2>1, <3>1, <3>3
    <3> QED
      BY <3>3, <3>4, <3>5, <3>6
  <2> HIDE DEF ab, cs
  <2>8. CASE index.step = 1
    <3>1. Item(index) = ab
      BY <2>4, <2>6, <2>8, ConcatEmptySeq
    <3>2. ASSUME NEW p \in Nat PROVE ItemEnd(index, p) = p + Len(Item(index)) /\ ItemEnd(index, p) \in Nat
      <4>1. ItemEnd(index, p) = BEnd(index, p)
        BY <1>4, <2>8 DEF ItemEnd
      <4>2. BEnd(index, p) = p + la + 1 + lb
        BY <1>2, <2>1 DEF BEnd, AEnd, la, lb
      <4> QED
        BY <1>2, <2>1, <2>4, <3>1, <4>1, <4>2
    <3>3. ASSUME NEW q, NEW p \in Nat, Stands(q, Item(index), p) PROVE ItemWritten(q, index, p)
      <4>1. /\ Written(q, index.from, AEnd(index, p))
            /\ q[AEnd(index, p) + 1] = ":" /\ Written(q, index.to, BEnd(index, p))
        BY <2>7, <3>1, <3>3
      <4> QED
        BY <2>8, <4>1, Zenon DEF ItemWritten
    <3> QED
      BY <2>4, <3>1, <3>2, <3>3
  <2>9. CASE index.step # 1
    <3>1. Item(index) = ab \o cs
      BY <2>6, <2>9
    <3>2. ab \o cs \in Seq(Letters) /\ Len(ab \o cs) = la + 1 + lb + 1 + ls
      BY <1>2, <2>1, <2>2, <2>4, <2>5, ConcatProperties
    <3>3. ASSUME NEW p \in Nat PROVE ItemEnd(index, p) = p + Len(Item(index)) /\ ItemEnd(index, p) \in Nat
      <4>1. ItemEnd(index, p) = SEnd(index, p)
        BY <1>4, <2>9 DEF ItemEnd
      <4>2. SEnd(index, p) = p + la + 1 + lb + 1 + ls
        BY <1>2, <2>1, <2>2 DEF SEnd, BEnd, AEnd, la, lb, ls
      <4> QED
        BY <1>2, <2>1, <2>2, <3>1, <3>2, <4>1, <4>2
    <3>4. ASSUME NEW q, NEW p \in Nat, Stands(q, Item(index), p) PROVE ItemWritten(q, index, p)
      <4>0. Stands(q, ab, p) /\ Stands(q, cs, p + Len(ab))
        <5>1. Stands(q, ab \o cs, p)
          BY <3>1, <3>4
        <5>2. ab \in Seq(Letters) /\ cs \in Seq(Letters)
          BY <2>4, <2>5
        <5> QED
          BY <5>1, <5>2, StandsSplit
      <4>1. Stands(q, ab, p) /\ Stands(q, cs, p + (la + 1 + lb))
        BY <2>4, <4>0
      <4>2. /\ Written(q, index.from, AEnd(index, p))
            /\ q[AEnd(index, p) + 1] = ":" /\ Written(q, index.to, BEnd(index, p))
        BY <2>7, <4>1
      <4>3. p + (la + 1 + lb) \in Nat
        BY <1>2, <2>1
      <4>4. Stands(q, colon, p + (la + 1 + lb)) /\ Stands(q, fs, (p + (la + 1 + lb)) + 1)
        BY <1>0, <2>2, <4>1, <4>3, StandsSplit DEF cs
      <4>5. BEnd(index, p) = p + (la + 1 + lb) /\ SEnd(index, p) = ((p + (la + 1 + lb)) + 1) + ls
            /\ (p + (la + 1 + lb)) + 1 \in Nat
        BY <1>2, <2>1, <2>2 DEF SEnd, BEnd, AEnd, la, lb, ls
      <4>6. q[BEnd(index, p) + 1] = ":"
        <5>1. 1 \in 1 .. Len(colon)
          BY <1>0
        <5> QED
          BY <1>0, <4>4, <4>5, <5>1 DEF Stands
      <4>7. Written(q, index.step, SEnd(index, p))
        BY <2>2, <4>4, <4>5
      <4> QED
        BY <4>2, <4>6, <4>7, Zenon DEF ItemWritten
    <3> QED
      BY <3>1, <3>2, <3>3, <3>4
  <2> QED
    BY <2>8, <2>9
<1> QED
  BY <1>3, <1>4

\* Where the items of a list stand in what is written for it, after their separators.
HeadOf(list) ==
    IF list.brackets THEN (IF list.exclude THEN <<"x", "[", "!">> ELSE <<"x", "[">>)
    ELSE <<"x", IF list.exclude THEN "!" ELSE ".">>
HeadEnd(list) == IF list.exclude THEN "!" ELSE IF list.brackets THEN "[" ELSE "."
ByOf(list) == IF list.brackets THEN "," ELSE ":"
ItemsLaid(list, q, st) ==
    \A k \in 1 .. Len(list.indexes) :
        /\ ItemWritten(q, list.indexes[k], st[k])
        /\ st[k + 1] = ItemEnd(list.indexes[k], st[k]) + 1
Laid(list, q, st) ==
    /\ \A k \in 1 .. Len(list.indexes) + 1 : st[k] \in Nat /\ st[k] >= 2
    /\ ItemsLaid(list, q, st)
    /\ \A k \in 2 .. Len(list.indexes) : q[st[k]] = ByOf(list)
    /\ q[st[1]] = HeadEnd(list)
    /\ list.brackets => Len(q) = st[Len(list.indexes) + 1] /\ q[Len(q)] = "]"
    /\ ~list.brackets => Len(q) = st[Len(list.indexes) + 1] - 1 /\ q[Len(q)] # "]"

\* A list of indexes has at least one, and ranges only in brackets.
LEMMA ListIs ==
  ASSUME NEW list \in IndexLists
  PROVE  /\ list.brackets \in BOOLEAN /\ list.exclude \in BOOLEAN
         /\ Len(list.indexes) \in Nat \ {0} /\ DOMAIN list.indexes = 1 .. Len(list.indexes)
         /\ \A i \in 1 .. Len(list.indexes) : IsIndex(list.indexes[i]) /\ (~list.brackets => list.indexes[i].single)
<1>1. /\ list.brackets \in BOOLEAN /\ list.exclude \in BOOLEAN
      /\ Len(list.indexes) \in Nat \ {0} /\ DOMAIN list.indexes = 1 .. Len(list.indexes)
  BY TextsAreWhole, Zenon
<1>2. \A i \in DOMAIN list.indexes :
            \/ \E n \in -3 .. 3 : list.indexes[i] = Single(n)
            \/ list.brackets /\ \E a, b, step \in -3 .. 3 : list.indexes[i] = RangeOf(a, b, step)
  BY TextsAreWhole, Zenon
<1>3. ASSUME NEW i \in DOMAIN list.indexes PROVE IsIndex(list.indexes[i])
  BY <1>2, Zenon DEF IsIndex
<1>4. ASSUME NEW i \in DOMAIN list.indexes, ~list.brackets PROVE list.indexes[i].single
  <2>1. PICK n \in -3 .. 3 : list.indexes[i] = Single(n)
    BY <1>2, <1>4, Zenon
  <2>2. Single(n).single = TRUE
    BY DEF Single
  <2> QED
    BY <2>1, <2>2
<1> QED
  BY <1>1, <1>3, <1>4, Zenon

\* Two words make a word.
LEMMA TwoWords ==
  ASSUME NEW X, NEW a \in Seq(X), NEW b \in Seq(X)
  PROVE  a \o b \in Seq(X) /\ Len(a \o b) = Len(a) + Len(b)
BY ConcatProperties

\* Words of one, two and three letters.
LEMMA ShortWords ==
  ASSUME NEW X
  PROVE  /\ \A a \in X : <<a>> \in Seq(X)
         /\ \A a \in X : \A b \in X : <<a, b>> \in Seq(X) /\ <<a, b>>[2] = b /\ Len(<<a, b>>) = 2
         /\ \A a \in X : \A b \in X : \A c \in X : <<a, b, c>> \in Seq(X) /\ <<a, b, c>>[3] = c /\ Len(<<a, b, c>>) = 3
OBVIOUS

\* What stands before the items.
LEMMA HeadIs ==
  ASSUME NEW list \in IndexLists
  PROVE  /\ HeadOf(list) \in Seq(Letters) /\ Len(HeadOf(list)) \in {2, 3}
         /\ HeadOf(list)[Len(HeadOf(list))] = HeadEnd(list)
         /\ <<ByOf(list)>> \in Seq(Letters)
<1> DEFINE X == Letters
<1>1. "x" \in X /\ ":" \in X /\ "," \in X /\ "[" \in X /\ "!" \in X /\ "." \in X
  BY LettersAre
<1> HIDE DEF X
<1>2. list.brackets \in BOOLEAN /\ list.exclude \in BOOLEAN
  BY ListIs
<1>3. <<"x", "[", "!">> \in Seq(X) /\ <<"x", "[">> \in Seq(X) /\ <<"x", "!">> \in Seq(X) /\ <<"x", ".">> \in Seq(X)
      /\ <<",">> \in Seq(X) /\ <<":">> \in Seq(X)
  BY <1>1, ShortWords, Zenon
<1>4. /\ list.brackets /\ list.exclude => HeadOf(list) = <<"x", "[", "!">> /\ HeadEnd(list) = "!"
      /\ list.brackets /\ ~list.exclude => HeadOf(list) = <<"x", "[">> /\ HeadEnd(list) = "["
      /\ ~list.brackets /\ list.exclude => HeadOf(list) = <<"x", "!">> /\ HeadEnd(list) = "!"
      /\ ~list.brackets /\ ~list.exclude => HeadOf(list) = <<"x", ".">> /\ HeadEnd(list) = "."
      /\ list.brackets => ByOf(list) = ","
      /\ ~list.brackets => ByOf(list) = ":"
  BY Zenon DEF HeadOf, HeadEnd, ByOf
<1>5. /\ Len(<<"x", "[", "!">>) = 3 /\ <<"x", "[", "!">>[3] = "!"
      /\ Len(<<"x", "[">>) = 2 /\ <<"x", "[">>[2] = "["
      /\ Len(<<"x", "!">>) = 2 /\ <<"x", "!">>[2] = "!"
      /\ Len(<<"x", ".">>) = 2 /\ <<"x", ".">>[2] = "."
  OBVIOUS
<1> DEFINE h == HeadOf(list)
           e == HeadEnd(list)
           b == ByOf(list)
<1> HIDE DEF h, e, b
<1>6. \/ h = <<"x", "[", "!">> /\ e = "!"
      \/ h = <<"x", "[">> /\ e = "["
      \/ h = <<"x", "!">> /\ e = "!"
      \/ h = <<"x", ".">> /\ e = "."
  BY <1>2, <1>4, Zenon DEF h, e
<1>7. h \in Seq(X) /\ Len(h) \in {2, 3} /\ h[Len(h)] = e
  BY <1>3, <1>5, <1>6
<1>8. b = "," \/ b = ":"
  BY <1>2, <1>4, Zenon DEF b
<1>9. <<b>> \in Seq(X)
  BY <1>3, <1>8
<1> QED
  BY <1>7, <1>9 DEF X, h, e, b

\* What is written for the items, and their words one by one.
ItemsOf(list) == Joined([i \in DOMAIN list.indexes |-> Item(list.indexes[i])], ByOf(list))
ItemWords(list, seqs) ==
    /\ ItemsOf(list) = FlattenSeq(seqs) /\ seqs \in Seq(Seq(Letters)) /\ Len(seqs) = Len(list.indexes)
    /\ seqs[1] = Item(list.indexes[1])
    /\ \A i \in 2 .. Len(list.indexes) : seqs[i] = <<ByOf(list)>> \o Item(list.indexes[i])
LaidFrom(list, q, st, p) ==
    /\ \A k \in 1 .. Len(list.indexes) + 1 : st[k] \in Nat /\ st[k] >= 2
    /\ ItemsLaid(list, q, st)
    /\ \A k \in 2 .. Len(list.indexes) : q[st[k]] = ByOf(list)
    /\ q[st[1]] = HeadEnd(list)
    /\ st[Len(list.indexes) + 1] = p + Len(ItemsOf(list)) + 1

\* The items with what separates them.
LEMMA JoinedIs ==
  ASSUME NEW list \in IndexLists
  PROVE  ItemsOf(list) \in Seq(Letters) /\ \E seqs : ItemWords(list, seqs)
<1> DEFINE n == Len(list.indexes)
           by == <<ByOf(list)>>
           part(i) == Item(list.indexes[i])
           seqs == [i \in 1 .. n |-> IF i = 1 THEN part(i) ELSE by \o part(i)]
<1>1. n \in Nat \ {0} /\ DOMAIN list.indexes = 1 .. n /\ \A i \in 1 .. n : IsIndex(list.indexes[i])
  BY ListIs
<1>2. \A i \in 1 .. n : part(i) \in Seq(Letters)
  BY <1>1, ItemIs
<1>3. by \in Seq(Letters) /\ Len(by) = 1 /\ by[1] = ByOf(list)
  BY HeadIs
<1> DEFINE J == ItemsOf(list)
<1>4. J = FlattenSeq(seqs)
  <2> DEFINE parts == [i \in DOMAIN list.indexes |-> Item(list.indexes[i])]
  <2>1. J = FlattenSeq([i \in DOMAIN parts |-> IF i = 1 THEN parts[i] ELSE by \o parts[i]])
    BY DEF Joined, ItemsOf
  <2>2. DOMAIN parts = 1 .. n /\ \A i \in 1 .. n : parts[i] = part(i)
    BY <1>1
  <2> HIDE DEF parts, part, by, n
  <2>3. [i \in DOMAIN parts |-> IF i = 1 THEN parts[i] ELSE by \o parts[i]] = seqs
    BY <2>2
  <2> QED
    BY <2>1, <2>3
<1> HIDE DEF part, by, n, J
<1>5. \A i \in 1 .. n : by \o part(i) \in Seq(Letters) /\ Len(by \o part(i)) = 1 + Len(part(i))
  <2> TAKE i \in 1 .. n
  <2>1. part(i) \in Seq(Letters)
    BY <1>2
  <2>2. by \o part(i) \in Seq(Letters) /\ Len(by \o part(i)) = Len(by) + Len(part(i))
    BY <1>3, <2>1, TwoWords
  <2> QED
    BY <1>3, <2>2
<1>6. seqs \in Seq(Seq(Letters)) /\ Len(seqs) = n
  <2>1. \A i \in 1 .. n : (IF i = 1 THEN part(i) ELSE by \o part(i)) \in Seq(Letters)
    BY <1>2, <1>5
  <2>2. seqs \in [1 .. n -> Seq(Letters)]
    BY <2>1
  <2> HIDE DEF seqs
  <2> QED
    BY <1>1, <2>2, NumberedSeq
<1>7. /\ seqs[1] = part(1)
      /\ \A i \in 2 .. n : seqs[i] = by \o part(i)
  BY <1>1
<1> HIDE DEF seqs
<1>8. J \in Seq(Letters)
  BY <1>4, <1>6, FlattenTyped
<1>9. seqs[1] = Item(list.indexes[1]) /\ \A i \in 2 .. n : seqs[i] = <<ByOf(list)>> \o Item(list.indexes[i])
  BY <1>7 DEF part, by
<1>10. ItemWords(list, seqs)
  BY <1>4, <1>6, <1>9 DEF ItemWords, J, n
<1> QED
  BY <1>8, <1>10, Zenon DEF J

\* Where each item of a list was laid out.
LEMMA ItemsInARow ==
  ASSUME NEW list \in IndexLists, NEW q, NEW p \in Nat, p >= 2, q[p] = HeadEnd(list),
         Stands(q, ItemsOf(list), p)
  PROVE  \E st : LaidFrom(list, q, st, p)
<1> DEFINE n == Len(list.indexes)
           by == <<ByOf(list)>>
           part(i) == Item(list.indexes[i])
<1>1. n \in Nat \ {0} /\ DOMAIN list.indexes = 1 .. n /\ \A i \in 1 .. n : IsIndex(list.indexes[i])
  BY ListIs
<1>2. \A i \in 1 .. n : part(i) \in Seq(Letters)
  BY <1>1, ItemIs
<1>3. by \in Seq(Letters) /\ Len(by) = 1 /\ by[1] = ByOf(list)
  BY HeadIs
<1> HIDE DEF part, by, n
<1>5. \A i \in 1 .. n : by \o part(i) \in Seq(Letters) /\ Len(by \o part(i)) = 1 + Len(part(i))
  <2> TAKE i \in 1 .. n
  <2>1. part(i) \in Seq(Letters)
    BY <1>2
  <2>2. by \o part(i) \in Seq(Letters) /\ Len(by \o part(i)) = Len(by) + Len(part(i))
    BY <1>3, <2>1, TwoWords
  <2> QED
    BY <1>3, <2>2
<1> DEFINE J == ItemsOf(list)
<1>6. PICK seqs : ItemWords(list, seqs)
  BY JoinedIs, Zenon
<1>4. J = FlattenSeq(seqs) /\ seqs \in Seq(Seq(Letters)) /\ Len(seqs) = n
  BY <1>6 DEF ItemWords, n
<1>7. /\ seqs[1] = part(1)
      /\ \A i \in 2 .. n : seqs[i] = by \o part(i)
  BY <1>6 DEF ItemWords, part, by, n
<1> HIDE DEF J
<1>8. PICK r : InARow(q, seqs, r, p) /\ r[n] = p + Len(J)
  <2>1. Stands(q, FlattenSeq(seqs), p)
    BY <1>4 DEF J
  <2> QED
    BY <1>4, <2>1, StandsInARow
<1>9. /\ r[0] = p /\ \A k \in 1 .. n : r[k] = r[k - 1] + Len(seqs[k]) /\ Stands(q, seqs[k], r[k - 1])
      /\ \A k \in 0 .. n : r[k] \in Nat
  BY <1>4, <1>8 DEF InARow
<1>10. \A k \in 0 .. n : r[k] >= p
  <2> DEFINE U == {j \in Nat : j <= n => r[j] >= p}
  <2>1. 0 \in U
    BY <1>9
  <2>2. ASSUME NEW j \in Nat, j \in U PROVE j + 1 \in U
    <3> SUFFICES ASSUME j + 1 <= n PROVE r[j + 1] >= p
      OBVIOUS
    <3> DEFINE k == j + 1
    <3>1. k \in 1 .. n /\ k - 1 = j /\ j \in 0 .. n /\ j <= n
      BY <1>1
    <3> HIDE DEF k
    <3>2. r[k] = r[k - 1] + Len(seqs[k]) /\ Len(seqs[k]) \in Nat
      <4>1. seqs[k] \in Seq(Letters)
        BY <1>4, <3>1
      <4> QED
        BY <1>9, <3>1, <4>1
    <3>3. r[j] >= p /\ r[j] \in Nat
      BY <1>9, <2>2, <3>1
    <3> QED
      BY <3>1, <3>2, <3>3 DEF k
  <2>3. Nat \subseteq U
    <3> HIDE DEF U
    <3> QED
      BY <2>1, <2>2, EveryNumber
  <2> QED
    BY <2>3
<1> DEFINE st == [k \in 1 .. n + 1 |-> IF k = 1 THEN p ELSE r[k - 1] + 1]
<1>11. st[1] = p /\ (\A k \in 2 .. n + 1 : st[k] = r[k - 1] + 1) /\ (\A k \in 1 .. n : st[k + 1] = r[k] + 1)
  <2>1. 1 \in 1 .. n + 1 /\ (\A k \in 2 .. n + 1 : k \in 1 .. n + 1 /\ k # 1)
        /\ (\A k \in 1 .. n : k + 1 \in 1 .. n + 1 /\ k + 1 # 1 /\ (k + 1) - 1 = k)
    BY <1>1
  <2> QED
    BY <2>1
<1> HIDE DEF st
<1>12. ASSUME NEW k \in 1 .. n + 1 PROVE st[k] \in Nat /\ st[k] >= 2
  <2>1. CASE k = 1
    BY <1>11, <2>1
  <2>2. CASE k # 1
    <3>1. k \in 2 .. n + 1 /\ k - 1 \in 0 .. n
      BY <1>1, <2>2
    <3>2. r[k - 1] \in Nat /\ r[k - 1] >= p
      BY <1>9, <1>10, <3>1
    <3> QED
      BY <1>11, <3>1, <3>2
  <2> QED
    BY <2>1, <2>2
<1>13. ASSUME NEW k \in 1 .. n
       PROVE  /\ ItemWritten(q, list.indexes[k], st[k])
              /\ st[k + 1] = ItemEnd(list.indexes[k], st[k]) + 1
              /\ k # 1 => q[st[k]] = ByOf(list)
  <2> DEFINE index == list.indexes[k]
  <2>1. IsIndex(index)
    BY <1>1
  <2> HIDE DEF index
  <2>2. /\ \A i \in Nat : ItemEnd(index, i) = i + Len(Item(index))
        /\ \A i \in Nat : Stands(q, Item(index), i) => ItemWritten(q, index, i)
    BY <2>1, ItemIs
  <2>3. Item(index) = part(k) /\ part(k) \in Seq(Letters) /\ Len(part(k)) \in Nat
    <3>1. part(k) \in Seq(Letters)
      BY <1>2
    <3> QED
      BY <3>1 DEF part, index
  <2>4. st[k] \in Nat
    BY <1>1, <1>12
  <2>5. st[k + 1] = r[k] + 1 /\ r[k] = r[k - 1] + Len(seqs[k]) /\ Stands(q, seqs[k], r[k - 1])
    BY <1>9, <1>11
  <2>6. CASE k = 1
    <3>1. st[k] = p /\ r[k - 1] = p /\ seqs[k] = part(k)
      BY <1>7, <1>9, <1>11, <2>6
    <3>2. ItemWritten(q, index, st[k])
      BY <2>2, <2>3, <2>4, <2>5, <3>1
    <3>3. ItemEnd(index, st[k]) = p + Len(part(k))
      BY <2>2, <2>3, <2>4, <3>1
    <3> QED
      BY <2>5, <2>6, <3>1, <3>2, <3>3 DEF index
  <2>7. CASE k # 1
    <3>1. k \in 2 .. n /\ k \in 2 .. n + 1 /\ k - 1 \in 0 .. n
      BY <1>1, <2>7
    <3>2. st[k] = r[k - 1] + 1 /\ seqs[k] = by \o part(k) /\ r[k - 1] \in Nat
      BY <1>7, <1>9, <1>11, <3>1
    <3>3. Stands(q, by \o part(k), r[k - 1])
      BY <2>5, <3>2
    <3>4. Stands(q, by, r[k - 1]) /\ Stands(q, part(k), r[k - 1] + Len(by))
      BY <1>3, <2>3, <3>2, <3>3, StandsSplit
    <3>5. Stands(q, Item(index), st[k])
      BY <1>3, <2>3, <3>2, <3>4
    <3>6. q[st[k]] = ByOf(list)
      <4>1. 1 \in 1 .. Len(by)
        BY <1>3
      <4> QED
        BY <1>3, <3>2, <3>4, <4>1 DEF Stands
    <3>7. ItemEnd(index, st[k]) = st[k] + Len(part(k))
      BY <2>2, <2>3, <2>4
    <3>8. r[k] = r[k - 1] + (1 + Len(part(k)))
      BY <1>5, <2>5, <3>2
    <3>9. st[k + 1] = ItemEnd(index, st[k]) + 1
      <4> DEFINE before == r[k - 1]
                 long == Len(part(k))
                 end == ItemEnd(index, st[k])
      <4>1. before \in Nat /\ long \in Nat
        BY <2>3, <3>2
      <4>2. st[k] = before + 1 /\ end = st[k] + long /\ r[k] = before + (1 + long) /\ st[k + 1] = r[k] + 1
        BY <2>5, <3>2, <3>7, <3>8
      <4> HIDE DEF before, long, end
      <4>3. end = (before + 1) + long /\ st[k + 1] = (before + (1 + long)) + 1
        BY <4>2
      <4>4. st[k + 1] = end + 1
        BY <4>1, <4>3
      <4> QED
        BY <4>4 DEF end
    <3> QED
      BY <2>2, <2>4, <3>5, <3>6, <3>9 DEF index
  <2> QED
    BY <2>6, <2>7
<1>14. ItemsLaid(list, q, st)
  BY <1>13 DEF ItemsLaid, n
<1>15. \A k \in 2 .. n : q[st[k]] = ByOf(list)
  <2>1. \A k \in 2 .. n : k \in 1 .. n /\ k # 1
    BY <1>1
  <2> QED
    BY <1>13, <2>1
<1>16. st[n + 1] = p + Len(J) + 1
  BY <1>1, <1>8, <1>11
<1>17. LaidFrom(list, q, st, p)
  BY <1>11, <1>12, <1>14, <1>15, <1>16 DEF LaidFrom, n, J
<1> QED
  BY <1>17, Zenon

\* A word stands in itself.
LEMMA WordStands ==
  ASSUME NEW X, NEW w \in Seq(X)
  PROVE  Stands(w, w, 0)
<1>1. \A j \in 1 .. Len(w) : 0 + j = j
  OBVIOUS
<1> QED
  BY <1>1 DEF Stands

\* What is written for a list is its head, its items and, in brackets, the closing one.
LEMMA LayoutIs ==
  ASSUME NEW list \in IndexLists
  PROVE  /\ \E st : Laid(list, Spelled(list), st)
         /\ Len(Spelled(list)) \in Nat
<1> DEFINE q == Spelled(list)
           h == HeadOf(list)
           w == ItemsOf(list)
           last == <<"]">>
           p == Len(h)
           n == Len(list.indexes)
<1>1. /\ list.brackets => q = (h \o w) \o last
      /\ ~list.brackets => q = h \o w
  BY DEF Spelled, HeadOf, ByOf, ItemsOf
<1>2. h \in Seq(Letters) /\ p \in {2, 3} /\ h[p] = HeadEnd(list)
  BY HeadIs
<1>3. w \in Seq(Letters) /\ Len(w) \in Nat
  <2>1. w \in Seq(Letters)
    BY JoinedIs
  <2> HIDE DEF w
  <2> QED
    BY <2>1
<1>4. last \in Seq(Letters) /\ Len(last) = 1 /\ last[1] = "]"
  <2> DEFINE X == Letters
  <2>1. "]" \in X
    BY LettersAre
  <2> HIDE DEF X
  <2>2. <<"]">> \in Seq(X)
    BY <2>1, ShortWords
  <2> QED
    BY <2>2 DEF X
<1>5. list.brackets \in BOOLEAN /\ n \in Nat \ {0} /\ \A i \in 1 .. n : IsIndex(list.indexes[i])
  BY ListIs
<1> HIDE DEF q, h, last, p
<1>6. h \o w \in Seq(Letters) /\ Len(h \o w) = p + Len(w)
  <2> HIDE DEF w
  <2> QED
    BY <1>2, <1>3, ConcatProperties DEF p
<1>7. /\ Stands(q, h \o w, 0)
      /\ list.brackets => Len(q) = (p + Len(w)) + 1 /\ q[(p + Len(w)) + 1] = "]"
      /\ ~list.brackets => Len(q) = p + Len(w)
  <2> DEFINE a == h \o w
  <2> HIDE DEF a, w
  <2>0. a \in Seq(Letters) /\ Len(a) = p + Len(w)
    BY <1>6 DEF a
  <2>1. CASE list.brackets
    <3>1. q = a \o last
      BY <1>1, <2>1 DEF a
    <3>2. a \o last \in Seq(Letters) /\ Len(a \o last) = Len(a) + 1
      <4> HIDE DEF n
      <4>1. a \in Seq(Letters) /\ last \in Seq(Letters) /\ Len(last) = 1
        BY <1>4, <2>0
      <4>2. a \o last \in Seq(Letters) /\ Len(a \o last) = Len(a) + Len(last)
        BY <4>1, TwoWords
      <4> QED
        BY <4>1, <4>2
    <3>3. Stands(q, a \o last, 0)
      BY <3>1, <3>2, WordStands
    <3>4. Stands(q, a, 0) /\ Stands(q, last, 0 + Len(a))
      <4>1. 0 \in Nat
        OBVIOUS
      <4> QED
        BY <1>4, <2>0, <3>3, <4>1, StandsSplit
    <3>5. q[Len(a) + 1] = "]"
      <4>1. 1 \in 1 .. Len(last) /\ 0 + Len(a) = Len(a)
        BY <1>4, <2>0
      <4> QED
        BY <1>4, <3>4, <4>1 DEF Stands
    <3> QED
      BY <2>0, <2>1, <3>1, <3>2, <3>4, <3>5 DEF a
  <2>2. CASE ~list.brackets
    <3>1. q = a
      BY <1>1, <2>2 DEF a
    <3>2. Stands(q, a, 0)
      BY <2>0, <3>1, WordStands
    <3> QED
      BY <2>0, <2>2, <3>1, <3>2 DEF a
  <2> QED
    BY <2>1, <2>2
<1>8. Stands(q, w, p) /\ q[p] = HeadEnd(list) /\ p \in Nat /\ p >= 2
  <2> HIDE DEF w
  <2>1. 0 \in Nat /\ p \in Nat /\ p >= 2 /\ p \in 1 .. p /\ 0 + p = p
    BY <1>2
  <2>2. Stands(q, h, 0) /\ Stands(q, w, 0 + Len(h))
    BY <1>2, <1>3, <1>7, <2>1, StandsSplit
  <2>3. q[0 + p] = h[p]
    BY <2>1, <2>2 DEF Stands, p
  <2> QED
    BY <1>2, <2>1, <2>2, <2>3 DEF p
<1>9. PICK st : LaidFrom(list, q, st, p)
  BY <1>8, ItemsInARow, Zenon
<1>16. /\ \A k \in 1 .. n + 1 : st[k] \in Nat /\ st[k] >= 2
       /\ ItemsLaid(list, q, st)
       /\ \A k \in 2 .. n : q[st[k]] = ByOf(list)
       /\ q[st[1]] = HeadEnd(list)
       /\ st[n + 1] = p + Len(w) + 1
  BY <1>9 DEF LaidFrom
<1> HIDE DEF w, n
<1>10. list.brackets => Len(q) = st[n + 1] /\ q[Len(q)] = "]"
  BY <1>3, <1>7, <1>8, <1>16
<1>11. ~list.brackets => Len(q) = st[n + 1] - 1
  BY <1>3, <1>7, <1>8, <1>16
<1>12. ASSUME ~list.brackets PROVE q[Len(q)] # "]"
  <2> DEFINE index == list.indexes[n]
  <2>1. IsIndex(index) /\ index.single /\ n \in 1 .. n
    BY <1>5, <1>12, ListIs DEF n
  <2>2. ItemWritten(q, index, st[n]) /\ st[n + 1] = ItemEnd(index, st[n]) + 1
    BY <1>16, <2>1 DEF ItemsLaid, n
  <2> HIDE DEF index
  <2> DEFINE end == AEnd(index, st[n])
  <2>3. Written(q, index.from, end) /\ ItemEnd(index, st[n]) = end
    BY <2>1, <2>2, Zenon DEF ItemWritten, ItemEnd
  <2>4. index.from \in -3 .. 3
    BY <2>1, IndexFields
  <2>5. st[n] \in Nat
    <3>1. n \in 1 .. n + 1
      BY <1>5 DEF n
    <3> QED
      BY <1>16, <3>1
  <2>6. end \in Nat
    BY <2>4, <2>5 DEF AEnd, FigLen
  <2> HIDE DEF end
  <2>7. Len(q) = end
    <3>1. st[n + 1] = end + 1
      BY <2>2, <2>3
    <3> QED
      BY <1>11, <1>12, <2>6, <3>1
  <2>8. q[end] = Digits[Size0(index.from) + 1] /\ Size0(index.from) \in 0 .. 3
    BY <2>3, <2>4 DEF Written, Size0
  <2>9. q[end] \in ToSet(Digits)
    BY <2>8, DigitIs
  <2>10. "]" \notin ToSet(Digits)
    BY DigitIs
  <2> QED
    BY <2>7, <2>9, <2>10
<1>13. Laid(list, q, st)
  BY <1>16, <1>10, <1>11, <1>12 DEF Laid, n
<1>14. Len(q) \in Nat
  BY <1>3, <1>5, <1>7, <1>8
<1> QED
  BY <1>13, <1>14 DEF q

-----------------------------------------------------------------------------
(* How it is read. *)

\* The reader of indexes, by what reading changes of it.
ReaderAt(x, at, len, number, minus, colons, got, sep) ==
    [list |-> x.list, rule |-> x.rule, size |-> x.size, at |-> at, len |-> len, number |-> number,
     minus |-> minus, colons |-> colons, found |-> got, split |-> sep, taken |-> x.taken]
ReaderFrame(x) == x = ReaderAt(x, x.at, x.len, x.number, x.minus, x.colons, x.found, x.split)

\* A reader of these parts has these parts.
LEMMA ReaderFields ==
  ASSUME NEW x, NEW at, NEW len, NEW number, NEW minus, NEW colons, NEW got, NEW sep, NEW r,
         r = ReaderAt(x, at, len, number, minus, colons, got, sep)
  PROVE  /\ r.list = x.list /\ r.rule = x.rule /\ r.size = x.size /\ r.taken = x.taken
         /\ r.at = at /\ r.len = len /\ r.number = number /\ r.colons = colons
         /\ r.found = got /\ r.split = sep
         /\ r.minus = minus
         /\ ReaderFrame(r)
<1>1. /\ r.list = x.list /\ r.rule = x.rule /\ r.size = x.size /\ r.taken = x.taken
      /\ r.at = at /\ r.len = len /\ r.number = number /\ r.colons = colons
      /\ r.found = got /\ r.split = sep
  BY DEF ReaderAt
<1>2. r.minus = minus
  BY DEF ReaderAt
<1>3. r = [list |-> r.list, rule |-> r.rule, size |-> r.size, at |-> r.at, len |-> r.len,
           number |-> r.number, minus |-> r.minus, colons |-> r.colons, found |-> r.found,
           split |-> r.split, taken |-> r.taken]
  BY DEF ReaderAt
<1>4. ReaderFrame(r)
  BY <1>3, Zenon DEF ReaderFrame, ReaderAt
<1> QED
  BY <1>1, <1>2, <1>4

\* What a token changes.
WithLen(r, v) == [r EXCEPT !.len = v]
WithDigit(r, v) == [r EXCEPT !.number = v]
WithSign(r, v) == [r EXCEPT !.minus = v]
WithAt(r, v) == [r EXCEPT !.at = v]
WithColons(r, v) == [r EXCEPT !.colons = v]
WithoutFigure(r, v, w) == [r EXCEPT !.number = v, !.minus = w]
WithItem(r, v, w) == [r EXCEPT !.found = v, !.split = w]
WithRange(r, v, z, w) == [r EXCEPT !.found = v, !.colons = z, !.split = w]

\* A reader with another position,
LEMMA WithLenIs ==
  ASSUME NEW x, NEW at, NEW len, NEW number, NEW minus, NEW colons, NEW got, NEW sep, NEW v
  PROVE  WithLen(ReaderAt(x, at, len, number, minus, colons, got, sep), v)
         = ReaderAt(x, at, v, number, minus, colons, got, sep)
BY DEF ReaderAt, WithLen

\* another digit,
LEMMA WithDigitIs ==
  ASSUME NEW x, NEW at, NEW len, NEW number, NEW minus, NEW colons, NEW got, NEW sep, NEW v
  PROVE  WithDigit(ReaderAt(x, at, len, number, minus, colons, got, sep), v)
         = ReaderAt(x, at, len, v, minus, colons, got, sep)
BY DEF ReaderAt, WithDigit

\* another sign,
LEMMA WithSignIs ==
  ASSUME NEW x, NEW at, NEW len, NEW number, NEW minus, NEW colons, NEW got, NEW sep, NEW v
  PROVE  WithSign(ReaderAt(x, at, len, number, minus, colons, got, sep), v)
         = ReaderAt(x, at, len, number, v, colons, got, sep)
BY DEF ReaderAt, WithSign

\* at another stage,
LEMMA WithAtIs ==
  ASSUME NEW x, NEW at, NEW len, NEW number, NEW minus, NEW colons, NEW got, NEW sep, NEW v
  PROVE  WithAt(ReaderAt(x, at, len, number, minus, colons, got, sep), v)
         = ReaderAt(x, v, len, number, minus, colons, got, sep)
BY DEF ReaderAt, WithAt

\* with more numbers put aside,
LEMMA WithColonsIs ==
  ASSUME NEW x, NEW at, NEW len, NEW number, NEW minus, NEW colons, NEW got, NEW sep, NEW v
  PROVE  WithColons(ReaderAt(x, at, len, number, minus, colons, got, sep), v)
         = ReaderAt(x, at, len, number, minus, v, got, sep)
BY DEF ReaderAt, WithColons

\* with nothing in hand,
LEMMA WithoutFigureIs ==
  ASSUME NEW x, NEW at, NEW len, NEW number, NEW minus, NEW colons, NEW got, NEW sep, NEW v, NEW w
  PROVE  WithoutFigure(ReaderAt(x, at, len, number, minus, colons, got, sep), v, w)
         = ReaderAt(x, at, len, v, w, colons, got, sep)
<1>1. WithoutFigure(ReaderAt(x, at, len, number, minus, colons, got, sep), v, w) = [[ReaderAt(x, at, len, number, minus, colons, got, sep) EXCEPT !.number = v] EXCEPT !.minus = w]
  BY DEF WithoutFigure
<1>2. [ReaderAt(x, at, len, number, minus, colons, got, sep) EXCEPT !.number = v] = ReaderAt(x, at, len, v, minus, colons, got, sep)
  BY DEF ReaderAt
<1>3. [ReaderAt(x, at, len, v, minus, colons, got, sep) EXCEPT !.minus = w] = ReaderAt(x, at, len, v, w, colons, got, sep)
  BY DEF ReaderAt
<1> QED
  BY <1>1, <1>2, <1>3

\* with one more item,
LEMMA WithItemIs ==
  ASSUME NEW x, NEW at, NEW len, NEW number, NEW minus, NEW colons, NEW got, NEW sep, NEW v, NEW w
  PROVE  WithItem(ReaderAt(x, at, len, number, minus, colons, got, sep), v, w)
         = ReaderAt(x, at, len, number, minus, colons, v, w)
<1>1. WithItem(ReaderAt(x, at, len, number, minus, colons, got, sep), v, w) = [[ReaderAt(x, at, len, number, minus, colons, got, sep) EXCEPT !.found = v] EXCEPT !.split = w]
  BY DEF WithItem
<1>2. [ReaderAt(x, at, len, number, minus, colons, got, sep) EXCEPT !.found = v] = ReaderAt(x, at, len, number, minus, colons, v, sep)
  BY DEF ReaderAt
<1>3. [ReaderAt(x, at, len, number, minus, colons, v, sep) EXCEPT !.split = w] = ReaderAt(x, at, len, number, minus, colons, v, w)
  BY DEF ReaderAt
<1> QED
  BY <1>1, <1>2, <1>3

\* and with one more item and nothing put aside.
LEMMA WithRangeIs ==
  ASSUME NEW x, NEW at, NEW len, NEW number, NEW minus, NEW colons, NEW got, NEW sep, NEW v, NEW z, NEW w
  PROVE  WithRange(ReaderAt(x, at, len, number, minus, colons, got, sep), v, z, w)
         = ReaderAt(x, at, len, number, minus, z, v, w)
<1>1. WithRange(ReaderAt(x, at, len, number, minus, colons, got, sep), v, z, w) = [[[ReaderAt(x, at, len, number, minus, colons, got, sep) EXCEPT !.found = v] EXCEPT !.colons = z] EXCEPT !.split = w]
  BY DEF WithRange
<1>2. [ReaderAt(x, at, len, number, minus, colons, got, sep) EXCEPT !.found = v] = ReaderAt(x, at, len, number, minus, colons, v, sep)
  BY DEF ReaderAt
<1>3. [ReaderAt(x, at, len, number, minus, colons, v, sep) EXCEPT !.colons = z] = ReaderAt(x, at, len, number, minus, z, v, sep)
  BY DEF ReaderAt
<1>4. [ReaderAt(x, at, len, number, minus, z, v, sep) EXCEPT !.split = w] = ReaderAt(x, at, len, number, minus, z, v, w)
  BY DEF ReaderAt
<1> QED
  BY <1>1, <1>2, <1>3, <1>4

\* How far a figure was read from its end, and what was read of one.
Unread(x) == x.number = "" /\ x.minus = FALSE
DigitRead(x, v) == x.number = Digits[Size0(v) + 1] /\ x.minus = FALSE
SignRead(x, v) == x.number = Digits[Size0(v) + 1] /\ x.minus = TRUE /\ v < 0

\* A figure that was read has its value.
LEMMA FigureRead ==
  ASSUME NEW v \in -3 .. 3, NEW x
  PROVE  /\ DigitRead(x, v) /\ ~(v < 0) => Read(x) = v /\ x.number # ""
         /\ SignRead(x, v) => Read(x) = v /\ x.number # ""
<1> DEFINE d == Digits[Size0(v) + 1]
           m == Size0(v)
           none == ""
<1>1. m \in 0 .. 3 /\ (v < 0 => -m = v) /\ (~(v < 0) => m = v)
  BY DEF Size0
<1>2. Worth(d) = m /\ d # none
  <2> HIDE DEF m
  <2>1. Digits[m + 1] = d
    BY DEF m
  <2>2. Worth(Digits[m + 1]) = m /\ Digits[m + 1] # ""
    BY <1>1, DigitIs
  <2> HIDE DEF d
  <2> QED
    BY <2>1, <2>2
<1> HIDE DEF d, m, none
<1>3. ASSUME DigitRead(x, v), ~(v < 0) PROVE Read(x) = v /\ x.number # ""
  <2>1. x.number = d /\ x.minus = FALSE
    BY <1>3, Zenon DEF DigitRead, d
  <2>2. x.number # ""
    BY <1>2, <2>1 DEF none
  <2>3. Read(x) = Worth(x.number)
    BY <2>1, <2>2, Zenon DEF Read
  <2>4. Read(x) = m
    BY <1>2, <2>1, <2>3, Zenon
  <2> QED
    BY <1>1, <1>3, <2>2, <2>4
<1>4. ASSUME SignRead(x, v) PROVE Read(x) = v /\ x.number # ""
  <2>1. x.number = d /\ x.minus = TRUE /\ v < 0
    BY <1>4, Zenon DEF SignRead, d
  <2>2. x.number # ""
    BY <1>2, <2>1 DEF none
  <2>3. Read(x) = -Worth(x.number)
    BY <2>1, <2>2, Zenon DEF Read
  <2>4. Read(x) = -m
    BY <1>2, <2>1, <2>3, Zenon
  <2> QED
    BY <1>1, <2>1, <2>2, <2>4
<1> QED
  BY <1>3, <1>4

Numbered(x) == x.number # ""

\* One token: the one before those that were read.
Closed(x) == x.rule[Len(x.rule)] = "]"
NextAt(x) == IF Closed(x) /\ x.len = Len(x.rule) THEN x.len - 1 ELSE x.len
Before(x) == ReaderAt(x, "read", NextAt(x) - 1, x.number, x.minus, x.colons, x.found, x.split)

AfterToken(x, c) ==
    IF c \in ToSet(Digits)
    THEN ReaderAt(x, "read", NextAt(x) - 1, c, x.minus, x.colons, x.found, x.split)
    ELSE IF c = "-"
    THEN ReaderAt(x, "read", NextAt(x) - 1, x.number, TRUE, x.colons, x.found, x.split)
    ELSE IF Closed(x) THEN InBrackets(Before(x), c) ELSE AtTheEnd(Before(x), c)

\* A step reads the letter before the position.
LEMMA IndexTokenRead ==
  ASSUME ReadIndex, ReaderFrame(indexer),
         Len(indexer.rule) \in Nat, indexer.len \in Nat, NextAt(indexer) \in Nat \ {0}
  PROVE  indexer' = AfterToken(indexer, indexer.rule[NextAt(indexer)])
<1> DEFINE x == indexer
           c == x.rule[NextAt(x)]
           len == IF (x.rule[Len(x.rule)] = "]") /\ x.len = Len(x.rule) THEN x.len - 2 ELSE x.len - 1
           y == [x EXCEPT !.len = len]
           token == y.rule[y.len + 1]
           ended == [y EXCEPT !.at = "filter",
                              !.found = IF x.rule[Len(x.rule)] = "]" \/ y.number = "" THEN y.found
                                        ELSE Append(y.found, Single(Read(y)))]
<1>1. indexer' = IF y.len < 0 THEN ended
                 ELSE IF token \in ToSet(Digits) THEN [y EXCEPT !.number = token]
                 ELSE IF token = "-" THEN [y EXCEPT !.minus = TRUE]
                 ELSE IF x.rule[Len(x.rule)] = "]" THEN InBrackets(y, token) ELSE AtTheEnd(y, token)
  BY Zenon DEF ReadIndex
<1>2. indexer.at = "read"
  BY DEF ReadIndex
<1>3. len = NextAt(x) - 1 /\ len \in Nat /\ len + 1 = NextAt(x) /\ ~(len < 0)
  <2>1. Len(x.rule) \in Nat /\ x.len \in Nat /\ NextAt(x) \in Nat \ {0}
    OBVIOUS
  <2>2. NextAt(x) = IF (x.rule[Len(x.rule)] = "]") /\ x.len = Len(x.rule) THEN x.len - 1 ELSE x.len
    BY Zenon DEF NextAt, Closed
  <2> HIDE DEF x
  <2> QED
    BY <2>1, <2>2
<1>4. x = ReaderAt(x, "read", x.len, x.number, x.minus, x.colons, x.found, x.split)
  BY <1>2, Zenon DEF ReaderFrame
<1>5. y = WithLen(x, len)
  BY Zenon DEF WithLen
<1>6. [y EXCEPT !.number = token] = WithDigit(y, token) /\ [y EXCEPT !.minus = TRUE] = WithSign(y, TRUE)
  BY Zenon DEF WithDigit, WithSign
<1> HIDE DEF len, ended, x, y
<1>7. y = ReaderAt(x, "read", len, x.number, x.minus, x.colons, x.found, x.split)
  <2>1. WithLen(ReaderAt(x, "read", x.len, x.number, x.minus, x.colons, x.found, x.split), len)
        = ReaderAt(x, "read", len, x.number, x.minus, x.colons, x.found, x.split)
    BY WithLenIs
  <2> QED
    BY <1>4, <1>5, <2>1, Zenon
<1>8. y.rule = x.rule /\ y.len = len
  BY <1>7 DEF ReaderAt
<1>9. token = c
  <2>1. token = x.rule[len + 1]
    BY <1>8
  <2> QED
    BY <1>3, <2>1
<1>10. y = Before(x)
  BY <1>3, <1>7, Zenon DEF Before
<1> HIDE DEF token, c
<1>11. /\ WithDigit(y, c) = ReaderAt(x, "read", len, c, x.minus, x.colons, x.found, x.split)
       /\ WithSign(y, TRUE) = ReaderAt(x, "read", len, x.number, TRUE, x.colons, x.found, x.split)
  <2> DEFINE z == ReaderAt(x, "read", len, x.number, x.minus, x.colons, x.found, x.split)
             yes == TRUE
  <2> HIDE DEF yes
  <2>1. WithDigit(z, c) = ReaderAt(x, "read", len, c, x.minus, x.colons, x.found, x.split)
    BY WithDigitIs
  <2>2. WithSign(z, yes) = ReaderAt(x, "read", len, x.number, yes, x.colons, x.found, x.split)
    BY WithSignIs
  <2>3. y = z
    BY <1>7
  <2> HIDE DEF z
  <2> QED
    BY <2>1, <2>2, <2>3, Zenon DEF yes
<1>12. indexer' = IF c \in ToSet(Digits) THEN WithDigit(y, c)
                  ELSE IF c = "-" THEN WithSign(y, TRUE)
                  ELSE IF Closed(x) THEN InBrackets(y, c) ELSE AtTheEnd(y, c)
  <2>1. ~(y.len < 0)
    BY <1>3, <1>8
  <2> QED
    BY <1>1, <1>6, <1>9, <2>1, Zenon DEF Closed
<1>13. indexer' = AfterToken(x, c)
  BY <1>3, <1>10, <1>11, <1>12, Zenon DEF AfterToken
<1> QED
  BY <1>13 DEF x, c

\* What ends an item, or the figure before a colon, in brackets.
IndexOf(colons, v) ==
    IF colons = <<>> THEN Single(v)
    ELSE RangeOf(v, colons[Len(colons)], IF Len(colons) = 2 THEN colons[1] ELSE 1)

AfterColon(x, len, v) == ReaderAt(x, "read", len, "", FALSE, Append(x.colons, v), x.found, x.split)
AfterItem(x, len, colons, index) == ReaderAt(x, "read", len, "", FALSE, colons, Append(x.found, index), x.split)
AfterFirst(x, len, colons, index, c) ==
    ReaderAt(x, "filter", len, x.number, x.minus, colons, Append(x.found, index), IF c = "!" THEN "!" ELSE x.split)
AfterComma(x, len, v) == AfterItem(x, len, <<>>, IndexOf(x.colons, v))
AfterBracket(x, len, v, c) == AfterFirst(x, len, <<>>, IndexOf(x.colons, v), c)

AtFigure(x, len, v, y) ==
    /\ Read(x) = v /\ Numbered(x)
    /\ y = ReaderAt(x, "read", len, x.number, x.minus, x.colons, x.found, x.split)

\* What each letter between figures does in brackets.
LEMMA InBracketsIs ==
  ASSUME NEW x, NEW len, NEW v, NEW y, AtFigure(x, len, v, y)
  PROVE  /\ InBrackets(y, ":") = AfterColon(x, len, v)
         /\ InBrackets(y, ",") = AfterComma(x, len, v)
         /\ \A c \in {"[", "!"} : InBrackets(y, c) = AfterBracket(x, len, v, c)
<1>0. /\ Read(x) = v /\ Numbered(x)
      /\ y = ReaderAt(x, "read", len, x.number, x.minus, x.colons, x.found, x.split)
  BY Zenon DEF AtFigure
<1>1. ASSUME NEW c PROVE
        /\ c = ":" => InBrackets(y, c) = AfterColon(x, len, v)
        /\ c = "," => InBrackets(y, c) = AfterComma(x, len, v)
        /\ c \in {"[", "!"} => InBrackets(y, c) = AfterBracket(x, len, v, c)
  <2>1. /\ y.number = x.number /\ y.minus = x.minus /\ y.colons = x.colons /\ y.found = x.found
        /\ y.split = x.split
    BY <1>0 DEF ReaderAt
  <2>2. Read(y) = v
    BY <1>0, <2>1, Zenon DEF Read
  <2> DEFINE index == IndexOf(x.colons, v)
             more == Append(x.found, index)
             sep == IF c = "!" THEN "!" ELSE x.split
             colons == Append(x.colons, v)
             next == WithRange(y, more, <<>>, sep)
  <2>3. /\ c = ":" => InBrackets(y, c) = WithoutFigure(WithColons(y, colons), "", FALSE)
        /\ c = "," => InBrackets(y, c) = WithoutFigure(next, "", FALSE)
        /\ c # ":" /\ c # "," => InBrackets(y, c) = WithAt(next, "filter")
    <3>1. index = IF y.colons = <<>> THEN Single(Read(y))
                  ELSE RangeOf(Read(y), y.colons[Len(y.colons)], IF Len(y.colons) = 2 THEN y.colons[1] ELSE 1)
      BY <2>1, <2>2, Zenon DEF IndexOf
    <3> DEFINE i0 == IF y.colons = <<>> THEN Single(Read(y))
                     ELSE RangeOf(Read(y), y.colons[Len(y.colons)], IF Len(y.colons) = 2 THEN y.colons[1] ELSE 1)
               next0 == WithRange(y, Append(y.found, i0), <<>>, IF c = "!" THEN "!" ELSE y.split)
    <3>2. InBrackets(y, c) = IF c = ":" THEN WithoutFigure(WithColons(y, Append(y.colons, Read(y))), "", FALSE)
                             ELSE IF y.colons = <<>> /\ y.number = "" THEN WithAt(y, "filter")
                             ELSE IF c = "," THEN WithoutFigure(next0, "", FALSE)
                             ELSE WithAt(next0, "filter")
      BY Zenon DEF InBrackets, Cleared, WithoutFigure, WithColons, WithAt, WithRange
    <3>3. next0 = next
      <4> HIDE DEF index
      <4>1. i0 = index
        BY <3>1
      <4> HIDE DEF i0
      <4> QED
        BY <2>1, <4>1, Zenon
    <3>4. Append(y.colons, Read(y)) = colons
      BY <2>1, <2>2, Zenon
    <3> HIDE DEF next0, next, colons
    <3>5. y.number # ""
      BY <1>0, <2>1, Zenon DEF Numbered
    <3>6. c = ":" => c # ","
      OBVIOUS
    <3> QED
      BY <3>2, <3>3, <3>4, <3>5, <3>6, Zenon
  <2> HIDE DEF index, more, sep, colons
  <2> DEFINE none == ""
             no == FALSE
             empty == <<>>
  <2> HIDE DEF none, no, empty
  <2>4. next = ReaderAt(x, "read", len, x.number, x.minus, empty, more, sep)
    <3>1. WithRange(ReaderAt(x, "read", len, x.number, x.minus, x.colons, x.found, x.split), more, empty, sep) = ReaderAt(x, "read", len, x.number, x.minus, empty, more, sep)
      BY WithRangeIs
    <3> QED
      BY <1>0, <3>1, Zenon DEF empty
  <2> HIDE DEF next
  <2>5. WithAt(next, "filter") = ReaderAt(x, "filter", len, x.number, x.minus, empty, more, sep)
    <3>1. WithAt(ReaderAt(x, "read", len, x.number, x.minus, empty, more, sep), "filter") = ReaderAt(x, "filter", len, x.number, x.minus, empty, more, sep)
      BY WithAtIs
    <3> QED
      BY <2>4, <3>1, Zenon
  <2>6. WithoutFigure(next, none, no) = ReaderAt(x, "read", len, none, no, empty, more, sep)
    <3>1. WithoutFigure(ReaderAt(x, "read", len, x.number, x.minus, empty, more, sep), none, no) = ReaderAt(x, "read", len, none, no, empty, more, sep)
      BY WithoutFigureIs
    <3> QED
      BY <2>4, <3>1, Zenon
  <2>7. WithColons(y, colons) = ReaderAt(x, "read", len, x.number, x.minus, colons, x.found, x.split)
    <3>1. WithColons(ReaderAt(x, "read", len, x.number, x.minus, x.colons, x.found, x.split), colons) = ReaderAt(x, "read", len, x.number, x.minus, colons, x.found, x.split)
      BY WithColonsIs
    <3> QED
      BY <1>0, <3>1, Zenon
  <2>8. WithoutFigure(WithColons(y, colons), none, no) = ReaderAt(x, "read", len, none, no, colons, x.found, x.split)
    <3>1. WithoutFigure(ReaderAt(x, "read", len, x.number, x.minus, colons, x.found, x.split), none, no) = ReaderAt(x, "read", len, none, no, colons, x.found, x.split)
      BY WithoutFigureIs
    <3> QED
      BY <2>7, <3>1, Zenon
  <2>9. c = "," => sep = x.split
    <3>1. c = "," => c # "!"
      OBVIOUS
    <3> QED
      BY <3>1, Zenon DEF sep
  <2>10. c \in {"[", "!"} => c # ":" /\ c # ","
    OBVIOUS
  <2>11. c = ":" => InBrackets(y, c) = ReaderAt(x, "read", len, "", FALSE, colons, x.found, x.split)
    BY <2>3, <2>8, Zenon DEF none, no
  <2>12. c = "," => InBrackets(y, c) = ReaderAt(x, "read", len, "", FALSE, <<>>, more, x.split)
    BY <2>3, <2>6, <2>9, Zenon DEF none, no, empty
  <2>13. c \in {"[", "!"} => InBrackets(y, c) = ReaderAt(x, "filter", len, x.number, x.minus, <<>>, more, sep)
    BY <2>3, <2>5, <2>10, Zenon DEF empty
  <2> QED
    BY <2>11, <2>12, <2>13, Zenon DEF colons, more, index, sep, AfterColon, AfterItem, AfterFirst, AfterComma, AfterBracket
<1> QED
  BY <1>1, Zenon

\* The same of a list without brackets.
LEMMA AtTheEndIs ==
  ASSUME NEW x, NEW len, NEW v, NEW y, AtFigure(x, len, v, y)
  PROVE  /\ AtTheEnd(y, ":") = AfterItem(x, len, x.colons, Single(v))
         /\ \A c \in {".", "!"} : AtTheEnd(y, c) = AfterFirst(x, len, x.colons, Single(v), c)
<1>0. /\ Read(x) = v
      /\ y = ReaderAt(x, "read", len, x.number, x.minus, x.colons, x.found, x.split)
  BY Zenon DEF AtFigure
<1>1. ASSUME NEW c PROVE
        /\ c = ":" => AtTheEnd(y, c) = AfterItem(x, len, x.colons, Single(v))
        /\ c \in {".", "!"} => AtTheEnd(y, c) = AfterFirst(x, len, x.colons, Single(v), c)
  <2>1. /\ y.number = x.number /\ y.minus = x.minus /\ y.found = x.found
        /\ y.split = x.split
    BY <1>0 DEF ReaderAt
  <2>2. Read(y) = v
    BY <1>0, <2>1, Zenon DEF Read
  <2> DEFINE more == Append(x.found, Single(v))
             sep == IF c = "!" THEN "!" ELSE x.split
             next == WithItem(y, more, sep)
  <2>3. AtTheEnd(y, c) = IF c = ":" THEN WithoutFigure(next, "", FALSE)
                         ELSE IF c \in {".", "!"} THEN WithAt(next, "filter") ELSE WithoutFigure(y, "", FALSE)
    <3> DEFINE next0 == WithItem(y, Append(y.found, Single(Read(y))), IF c = "!" THEN "!" ELSE y.split)
    <3>1. next0 = next
      BY <2>1, <2>2, Zenon
    <3>2. AtTheEnd(y, c) = IF c = ":" THEN WithoutFigure(next0, "", FALSE)
                           ELSE IF c \in {".", "!"} THEN WithAt(next0, "filter") ELSE WithoutFigure(y, "", FALSE)
      BY Zenon DEF AtTheEnd, Cleared, WithoutFigure, WithAt, WithItem
    <3> HIDE DEF next0, next
    <3> QED
      BY <3>1, <3>2, Zenon
  <2> HIDE DEF more, sep
  <2> DEFINE none == ""
             no == FALSE
  <2> HIDE DEF none, no
  <2>4. next = ReaderAt(x, "read", len, x.number, x.minus, x.colons, more, sep)
    <3>1. WithItem(ReaderAt(x, "read", len, x.number, x.minus, x.colons, x.found, x.split), more, sep) = ReaderAt(x, "read", len, x.number, x.minus, x.colons, more, sep)
      BY WithItemIs
    <3> QED
      BY <1>0, <3>1, Zenon
  <2> HIDE DEF next
  <2>5. WithAt(next, "filter") = ReaderAt(x, "filter", len, x.number, x.minus, x.colons, more, sep)
    <3>1. WithAt(ReaderAt(x, "read", len, x.number, x.minus, x.colons, more, sep), "filter") = ReaderAt(x, "filter", len, x.number, x.minus, x.colons, more, sep)
      BY WithAtIs
    <3> QED
      BY <2>4, <3>1, Zenon
  <2>6. WithoutFigure(next, none, no) = ReaderAt(x, "read", len, none, no, x.colons, more, sep)
    <3>1. WithoutFigure(ReaderAt(x, "read", len, x.number, x.minus, x.colons, more, sep), none, no) = ReaderAt(x, "read", len, none, no, x.colons, more, sep)
      BY WithoutFigureIs
    <3> QED
      BY <2>4, <3>1, Zenon
  <2>7. c = ":" => sep = x.split
    <3>1. c = ":" => c # "!"
      OBVIOUS
    <3> QED
      BY <3>1, Zenon DEF sep
  <2>8. c \in {".", "!"} => c # ":"
    OBVIOUS
  <2>9. c = ":" => AtTheEnd(y, c) = ReaderAt(x, "read", len, "", FALSE, x.colons, more, x.split)
    BY <2>3, <2>6, <2>7, Zenon DEF none, no
  <2>10. c \in {".", "!"} => AtTheEnd(y, c) = ReaderAt(x, "filter", len, x.number, x.minus, x.colons, more, sep)
    BY <2>3, <2>5, <2>8, Zenon
  <2> QED
    BY <2>9, <2>10, Zenon DEF more, sep, AfterItem, AfterFirst
<1> QED
  BY <1>1, Zenon

\* The figures of an index, counted from its first, and the numbers that were put aside when
\* one of them is read.
FigureOf(index, j) == IF j = 1 THEN index.from ELSE IF j = 2 THEN index.to ELSE index.step
EndOf(index, p, j) == IF j = 1 THEN AEnd(index, p) ELSE IF j = 2 THEN BEnd(index, p) ELSE SEnd(index, p)
LastOf(index) == IF index.single THEN 1 ELSE IF index.step = 1 THEN 2 ELSE 3
ColonsOf(index, j) ==
    IF j = LastOf(index) THEN <<>>
    ELSE IF j + 1 = LastOf(index) THEN <<FigureOf(index, j + 1)>>
    ELSE <<FigureOf(index, j + 2), FigureOf(index, j + 1)>>

\* Where the figures of an item stand.
LEMMA FigureStands ==
  ASSUME NEW index, IsIndex(index), NEW j \in 1 .. LastOf(index), NEW p \in Nat, NEW q, ItemWritten(q, index, p)
  PROVE  /\ FigureOf(index, j) \in -3 .. 3 /\ Written(q, FigureOf(index, j), EndOf(index, p, j))
         /\ EndOf(index, p, j) \in Nat /\ EndOf(index, p, j) - FigLen(FigureOf(index, j)) >= p
         /\ EndOf(index, p, j) <= ItemEnd(index, p) /\ ItemEnd(index, p) \in Nat
         /\ j = 1 => EndOf(index, p, j) - FigLen(FigureOf(index, j)) = p
         /\ j # 1 => /\ q[EndOf(index, p, j) - FigLen(FigureOf(index, j))] = ":"
                     /\ EndOf(index, p, j - 1) = EndOf(index, p, j) - FigLen(FigureOf(index, j)) - 1
<1> DEFINE a == AEnd(index, p)
           b == BEnd(index, p)
           s == SEnd(index, p)
           la == FigLen(index.from)
           lb == FigLen(index.to)
           ls == FigLen(index.step)
<1>1. a = p + la /\ b = (a + 1) + lb /\ s = (b + 1) + ls
  BY DEF AEnd, BEnd, SEnd
<1>2. /\ index.from \in -3 .. 3 /\ la \in {1, 2}
      /\ Written(q, index.from, a)
  <2>1. index.from \in -3 .. 3
    BY IndexFields
  <2>2. la \in {1, 2}
    BY FigureIs, <2>1
  <2>3. Written(q, index.from, a)
    BY Zenon DEF ItemWritten
  <2> QED
    BY <2>1, <2>2, <2>3
<1>3. ASSUME ~index.single
      PROVE  /\ index.to \in -3 .. 3 /\ lb \in {1, 2} /\ index.step \in -3 .. 3 /\ ls \in {1, 2}
             /\ q[a + 1] = ":" /\ Written(q, index.to, b)
             /\ index.step # 1 => q[b + 1] = ":" /\ Written(q, index.step, s)
  <2>1. index.to \in -3 .. 3 /\ index.step \in -3 .. 3
    BY <1>3, IndexFields
  <2>2. lb \in {1, 2} /\ ls \in {1, 2}
    BY FigureIs, <2>1
  <2>3. /\ q[a + 1] = ":" /\ Written(q, index.to, b)
        /\ index.step # 1 => q[b + 1] = ":" /\ Written(q, index.step, s)
    BY <1>3, Zenon DEF ItemWritten
  <2> QED
    BY <2>1, <2>2, <2>3
<1> DEFINE last == LastOf(index)
           end == ItemEnd(index, p)
<1>4. \/ index.single /\ last = 1 /\ end = a
      \/ ~index.single /\ index.step = 1 /\ last = 2 /\ end = b
      \/ ~index.single /\ index.step # 1 /\ last = 3 /\ end = s
  BY Zenon DEF LastOf, ItemEnd
<1> DEFINE f == FigureOf(index, j)
           e == EndOf(index, p, j)
           before == EndOf(index, p, j - 1)
<1>5. /\ j = 1 => f = index.from /\ e = a
      /\ j = 2 => f = index.to /\ e = b
      /\ j = 3 => f = index.step /\ e = s
  BY DEF FigureOf, EndOf
<1>6. /\ j = 2 => before = a
      /\ j = 3 => before = b
  BY DEF EndOf
<1>7. j \in 1 .. last
  OBVIOUS
<1> HIDE DEF a, b, s, last, end, f, e, before, la, lb, ls
<1>8. CASE j = 1
  <2>1. f = index.from /\ e = a /\ FigLen(f) = la
    BY <1>5, <1>8 DEF la
  <2>2. a \in Nat /\ a - la = p /\ p >= p
    BY <1>1, <1>2
  <2>3. a <= end /\ end \in Nat
    <3>1. CASE index.single
      BY <1>4, <2>2, <3>1
    <3>2. CASE ~index.single
      BY <1>1, <1>3, <1>4, <2>2, <3>2
    <3> QED
      BY <3>1, <3>2
  <2> QED
    BY <1>2, <1>8, <2>1, <2>2, <2>3 DEF f, e, end
<1>9. CASE j = 2
  <2>1. f = index.to /\ e = b /\ FigLen(f) = lb /\ before = a
    BY <1>5, <1>6, <1>9 DEF lb
  <2>2. ~index.single
    BY <1>4, <1>7, <1>9
  <2>3. b \in Nat /\ b - lb = a + 1 /\ a + 1 >= p /\ a = b - lb - 1
    BY <1>1, <1>2, <1>3, <2>2
  <2>4. b <= end /\ end \in Nat
    BY <1>1, <1>3, <1>4, <2>2, <2>3
  <2>5. q[b - lb] = ":"
    BY <1>3, <2>2, <2>3
  <2>6. f \in -3 .. 3 /\ Written(q, f, e)
    BY <1>3, <2>1, <2>2
  <2>7. e \in Nat /\ e - FigLen(f) >= p /\ e <= end /\ q[e - FigLen(f)] = ":" /\ before = e - FigLen(f) - 1
    BY <2>1, <2>3, <2>4, <2>5
  <2> QED
    BY <1>9, <2>4, <2>6, <2>7 DEF f, e, end, before
<1>10. CASE j = 3
  <2>1. f = index.step /\ e = s /\ FigLen(f) = ls /\ before = b
    BY <1>5, <1>6, <1>10 DEF ls
  <2>2. ~index.single /\ index.step # 1 /\ end = s
    BY <1>4, <1>7, <1>10
  <2>3. s \in Nat /\ s - ls = b + 1 /\ b + 1 >= p /\ b = s - ls - 1
    BY <1>1, <1>2, <1>3, <2>2
  <2>4. s <= end /\ end \in Nat
    BY <2>2, <2>3
  <2>5. q[s - ls] = ":"
    BY <1>3, <2>2, <2>3
  <2>6. f \in -3 .. 3 /\ Written(q, f, e)
    BY <1>3, <2>1, <2>2
  <2>7. e \in Nat /\ e - FigLen(f) >= p /\ e <= end /\ q[e - FigLen(f)] = ":" /\ before = e - FigLen(f) - 1
    BY <2>1, <2>3, <2>4, <2>5
  <2> QED
    BY <1>10, <2>4, <2>6, <2>7 DEF f, e, end, before
<1>11. j = 1 \/ j = 2 \/ j = 3
  BY <1>4, <1>7
<1> QED
  BY <1>8, <1>9, <1>10, <1>11

\* Short lists grow.
LEMMA AppendsAre ==
  /\ \A a : Append(<<>>, a) = <<a>>
  /\ \A a : \A b : Append(<<a>>, b) = <<a, b>>
<1>1. ASSUME NEW a PROVE Append(<<>>, a) = <<a>>
  OBVIOUS
<1>2. ASSUME NEW a, NEW b PROVE Append(<<a>>, b) = <<a, b>>
  <2> DEFINE u == <<a>>
             v == Append(u, b)
             w == <<a, b>>
             X == {a, b}
  <2>0. u \in Seq(X)
    OBVIOUS
  <2>1. Len(u) = 1 /\ u[1] = a
    OBVIOUS
  <2>2. w \in Seq(X) /\ Len(w) = 2 /\ w[1] = a /\ w[2] = b
    OBVIOUS
  <2>3. b \in X
    OBVIOUS
  <2> HIDE DEF u, w, X
  <2>4. Len(v) = Len(u) + 1 /\ v[Len(u) + 1] = b /\ v \in Seq(X)
    BY <2>0, <2>3
  <2>5. v[1] = u[1]
    <3>1. 1 \in 1 .. Len(u)
      BY <2>1
    <3> QED
      BY <2>0, <2>3, <3>1
  <2> HIDE DEF v
  <2>6. Len(v) = 2 /\ v[1] = a /\ v[2] = b
    BY <2>1, <2>4, <2>5
  <2>7. \A i \in 1 .. 2 : v[i] = w[i]
    BY <2>2, <2>6
  <2> QED
    BY <2>2, <2>4, <2>6, <2>7, SeqEqual DEF u, v, w
<1> QED
  BY <1>1, <1>2

\* The numbers put aside are those of the figures behind, and make the index together.
LEMMA ColonsAre ==
  ASSUME NEW index, IsIndex(index)
  PROVE  /\ LastOf(index) \in {1, 2, 3} /\ EndOf(index, 0, LastOf(index)) = ItemEnd(index, 0)
         /\ \A p : EndOf(index, p, LastOf(index)) = ItemEnd(index, p)
         /\ ColonsOf(index, LastOf(index)) = <<>>
         /\ \A j \in 2 .. LastOf(index) : Append(ColonsOf(index, j), FigureOf(index, j)) = ColonsOf(index, j - 1)
         /\ IndexOf(ColonsOf(index, 1), index.from) = index
         /\ index.single => LastOf(index) = 1 /\ Single(index.from) = index
<1> DEFINE last == LastOf(index)
<1>1. \/ index.single /\ last = 1
      \/ ~index.single /\ index.step = 1 /\ last = 2
      \/ ~index.single /\ index.step # 1 /\ last = 3
  BY Zenon DEF LastOf
<1>2. ASSUME NEW p PROVE EndOf(index, p, last) = ItemEnd(index, p)
  <2> HIDE DEF last
  <2>1. CASE index.single /\ last = 1
    BY <2>1 DEF EndOf, ItemEnd
  <2>2. CASE ~index.single /\ index.step = 1 /\ last = 2
    BY <2>2 DEF EndOf, ItemEnd
  <2>3. CASE ~index.single /\ index.step # 1 /\ last = 3
    BY <2>3 DEF EndOf, ItemEnd
  <2> QED
    BY <1>1, <2>1, <2>2, <2>3
<1>3. ColonsOf(index, last) = <<>>
  BY DEF ColonsOf
<1>4. /\ index.single => index = Single(index.from)
      /\ ~index.single => index = RangeOf(index.from, index.to, index.step)
  BY IndexFields
<1>5. CASE index.single /\ last = 1
  <2>1. ColonsOf(index, 1) = <<>>
    BY <1>3, <1>5
  <2>2. IndexOf(ColonsOf(index, 1), index.from) = Single(index.from)
    BY <2>1, Zenon DEF IndexOf
  <2>3. \A j \in 2 .. last : FALSE
    BY <1>5
  <2> QED
    BY <1>2, <1>3, <1>4, <1>5, <2>2, <2>3
<1>6. CASE ~index.single /\ index.step = 1 /\ last = 2
  <2> DEFINE to == index.to
             cs == ColonsOf(index, 1)
  <2>1. cs = <<to>> /\ FigureOf(index, 2) = to
    <3> HIDE DEF last
    <3> QED
      BY <1>6 DEF ColonsOf, FigureOf, last
  <2>2. ColonsOf(index, 2) = <<>>
    BY <1>3, <1>6
  <2>3. \A j \in 2 .. last : j = 2 /\ j - 1 = 1
    BY <1>6
  <2>4. Append(<<>>, to) = <<to>>
    OBVIOUS
  <2>5. IndexOf(cs, index.from) = RangeOf(index.from, to, 1)
    <3> HIDE DEF cs, to
    <3>1. Len(cs) = 1 /\ cs[1] = to /\ cs # <<>>
      BY <2>1
    <3>2. cs[Len(cs)] = to /\ Len(cs) # 2
      BY <3>1
    <3> QED
      BY <3>1, <3>2, Zenon DEF IndexOf
  <2>6. ASSUME NEW j \in 2 .. last PROVE Append(ColonsOf(index, j), FigureOf(index, j)) = ColonsOf(index, j - 1)
    <3>1. j = 2 /\ j - 1 = 1
      BY <2>3
    <3> HIDE DEF last, cs, to
    <3>2. Append(ColonsOf(index, 2), FigureOf(index, 2)) = cs
      BY <2>1, <2>2, <2>4
    <3> QED
      BY <3>1, <3>2 DEF cs
  <2>7. IndexOf(cs, index.from) = index
    BY <1>4, <1>6, <2>5
  <2> HIDE DEF to
  <2> QED
    BY <1>2, <1>3, <1>6, <2>6, <2>7
<1>7. CASE ~index.single /\ index.step # 1 /\ last = 3
  <2> DEFINE to == index.to
             step == index.step
             cs == ColonsOf(index, 1)
             ds == ColonsOf(index, 2)
  <2>1. cs = <<step, to>> /\ ds = <<step>> /\ FigureOf(index, 2) = to /\ FigureOf(index, 3) = step
    <3> HIDE DEF last
    <3> QED
      BY <1>7 DEF ColonsOf, FigureOf, last
  <2>2. ColonsOf(index, 3) = <<>>
    BY <1>3, <1>7
  <2>3. \A j \in 2 .. last : (j = 2 /\ j - 1 = 1) \/ (j = 3 /\ j - 1 = 2)
    BY <1>7
  <2> HIDE DEF to, step
  <2>4. Append(<<>>, step) = <<step>> /\ Append(<<step>>, to) = <<step, to>>
    BY AppendsAre, Zenon
  <2>5. IndexOf(cs, index.from) = RangeOf(index.from, to, step)
    <3> HIDE DEF cs
    <3>1. Len(cs) = 2 /\ cs[1] = step /\ cs[2] = to /\ cs # <<>>
      BY <2>1
    <3>2. cs[Len(cs)] = to
      BY <3>1
    <3> QED
      BY <3>1, <3>2, Zenon DEF IndexOf
  <2>6. ASSUME NEW j \in 2 .. last PROVE Append(ColonsOf(index, j), FigureOf(index, j)) = ColonsOf(index, j - 1)
    <3>1. (j = 2 /\ j - 1 = 1) \/ (j = 3 /\ j - 1 = 2)
      BY <2>3
    <3> HIDE DEF last, cs, ds
    <3>2. Append(ColonsOf(index, 2), FigureOf(index, 2)) = cs /\ Append(ColonsOf(index, 3), FigureOf(index, 3)) = ds
      BY <2>1, <2>2, <2>4 DEF ds
    <3> QED
      BY <3>1, <3>2 DEF cs, ds
  <2>7. IndexOf(cs, index.from) = index
    BY <1>4, <1>7, <2>5 DEF to, step
  <2> QED
    BY <1>2, <1>3, <1>7, <2>6, <2>7
<1> QED
  BY <1>1, <1>5, <1>6, <1>7

\* The indexes that were read, from the last on.
Backwards(list, f, m) ==
    /\ f \in Seq({list.indexes[i] : i \in 1 .. Len(list.indexes)}) /\ Len(f) = m
    /\ \A j \in 1 .. m : f[j] = list.indexes[Len(list.indexes) + 1 - j]

\* The items found are the last ones, backwards, and one more then.
LEMMA BackwardsGoesOn ==
  ASSUME NEW list, Len(list.indexes) \in Nat, NEW k \in 1 .. Len(list.indexes), NEW f,
         Backwards(list, f, Len(list.indexes) - k)
  PROVE  Backwards(list, Append(f, list.indexes[k]), Len(list.indexes) - k + 1)
<1> DEFINE n == Len(list.indexes)
           X == {list.indexes[i] : i \in 1 .. n}
           index == list.indexes[k]
           m == n - k
           g == Append(f, index)
<1>1. f \in Seq(X) /\ Len(f) = m /\ \A j \in 1 .. m : f[j] = list.indexes[n + 1 - j]
  BY DEF Backwards
<1>2. index \in X /\ m \in Nat /\ (n + 1) - (m + 1) = k
  OBVIOUS
<1>3. g \in Seq(X) /\ Len(g) = m + 1 /\ g[m + 1] = index /\ \A j \in 1 .. m : g[j] = f[j]
  <2> HIDE DEF X, m
  <2> QED
    BY <1>1, <1>2
<1>4. ASSUME NEW j \in 1 .. m + 1 PROVE g[j] = list.indexes[n + 1 - j]
  <2>1. CASE j = m + 1
    BY <1>2, <1>3, <2>1
  <2>2. CASE j # m + 1
    <3>1. j \in 1 .. m
      BY <1>2, <2>2
    <3> QED
      BY <1>1, <1>3, <3>1
  <2> QED
    BY <2>1, <2>2
<1> HIDE DEF g
<1> QED
  BY <1>3, <1>4 DEF Backwards, g

\* What the reader knows: it stands in a figure of an item, and read all that is behind.
FigAt(x, u, v, end) ==
    \/ u = end /\ Unread(x)
    \/ u = end - 1 /\ DigitRead(x, v)
    \/ u = end - 2 /\ SignRead(x, v)
ReadingAt(x, index, p, j) ==
    /\ j \in 1 .. LastOf(index)
    /\ x.colons = ColonsOf(index, j)
    /\ FigAt(x, NextAt(x), FigureOf(index, j), EndOf(index, p, j))
ReadingItem(x, st, k) ==
    /\ k \in 1 .. Len(x.list.indexes)
    /\ Backwards(x.list, x.found, Len(x.list.indexes) - k)
    /\ \E j : ReadingAt(x, x.list.indexes[k], st[k], j)
ReadingList(x, st) == Laid(x.list, x.rule, st) /\ \E k : ReadingItem(x, st, k)
IsReading(x) == x.split = "." /\ x.len \in Nat /\ \E st : ReadingList(x, st)
IsToFilter(x) ==
    /\ Backwards(x.list, x.found, Len(x.list.indexes))
    /\ x.split = IF x.list.exclude THEN "!" ELSE "."

IndexMeans(x) ==
    /\ x.at = "read" => IsReading(x)
    /\ x.at = "filter" => IsToFilter(x)
    /\ x.at = "done" => x.taken = Meant(x.list, x.size)
IndexInv ==
    /\ ReaderFrame(indexer)
    /\ indexer.at \in {"read", "filter", "done", "idle"}
    /\ indexer.size \in Nat /\ indexer.taken \subseteq 0 .. indexer.size - 1
    /\ indexer.at # "idle" => indexer.list \in IndexLists /\ indexer.rule = Spelled(indexer.list)
    /\ IndexMeans(indexer)

\* Items stand before the end of the list.
LEMMA LaidUp ==
  ASSUME NEW list \in IndexLists, NEW q, NEW st, Laid(list, q, st)
  PROVE  \A k \in 1 .. Len(list.indexes) : st[k + 1] <= st[Len(list.indexes) + 1]
<1> DEFINE n == Len(list.indexes)
           U == {d \in Nat : d < n => st[n + 1 - d] <= st[n + 1]}
<1>1. n \in Nat \ {0} /\ \A i \in 1 .. n : IsIndex(list.indexes[i])
  BY ListIs
<1>2. \A k \in 1 .. n + 1 : st[k] \in Nat
  BY DEF Laid
<1> HIDE DEF n
<1>3. ASSUME NEW k \in 1 .. n PROVE st[k] <= st[k + 1]
  <2> DEFINE index == list.indexes[k]
  <2>1. IsIndex(index) /\ ItemWritten(q, index, st[k]) /\ st[k + 1] = ItemEnd(index, st[k]) + 1 /\ st[k] \in Nat
    <3>1. k \in 1 .. n + 1
      BY <1>1
    <3> QED
      BY <1>1, <1>2, <3>1 DEF Laid, ItemsLaid, n
  <2> HIDE DEF index
  <2>2. ItemEnd(index, st[k]) = st[k] + Len(Item(index)) /\ ItemEnd(index, st[k]) \in Nat /\ Item(index) \in Seq(Letters)
    BY <2>1, ItemIs
  <2>3. Len(Item(index)) \in Nat
    BY <2>2
  <2> QED
    BY <2>1, <2>2, <2>3
<1>4. 0 \in U
  <2>1. n + 1 - 0 = n + 1 /\ n + 1 \in 1 .. n + 1
    BY <1>1
  <2>2. st[n + 1] \in Nat
    BY <1>2, <2>1
  <2> QED
    BY <2>1, <2>2
<1>5. ASSUME NEW d \in Nat, d \in U PROVE d + 1 \in U
  <2> SUFFICES ASSUME d + 1 < n PROVE st[n + 1 - (d + 1)] <= st[n + 1]
    OBVIOUS
  <2> DEFINE k == n + 1 - (d + 1)
  <2>1. k \in 1 .. n /\ k + 1 = n + 1 - d /\ d < n /\ k \in 1 .. n + 1 /\ k + 1 \in 1 .. n + 1 /\ n + 1 \in 1 .. n + 1
    BY <1>1
  <2>2. st[k] <= st[k + 1]
    BY <1>3, <2>1
  <2>3. st[n + 1 - d] <= st[n + 1]
    BY <1>5, <2>1
  <2>4. st[k] \in Nat /\ st[k + 1] \in Nat /\ st[n + 1] \in Nat
    BY <1>2, <2>1
  <2> HIDE DEF k
  <2>5. st[k + 1] <= st[n + 1]
    BY <2>1, <2>3
  <2>6. st[k] <= st[n + 1]
    BY <2>2, <2>4, <2>5
  <2> QED
    BY <2>6 DEF k
<1>6. Nat \subseteq U
  <2> HIDE DEF U
  <2> QED
    BY <1>4, <1>5, EveryNumber
<1>7. ASSUME NEW k \in 1 .. n PROVE st[k + 1] <= st[n + 1]
  <2> DEFINE d == n - k
  <2>1. d \in Nat /\ d < n /\ n + 1 - d = k + 1
    BY <1>1
  <2>2. d \in U
    BY <1>6, <2>1
  <2> HIDE DEF d
  <2>3. st[n + 1 - d] <= st[n + 1]
    BY <2>1, <2>2
  <2> QED
    BY <2>1, <2>3
<1> QED
  BY <1>7 DEF n

\* A reader that stands in a figure is reading.
LEMMA StillReading ==
  ASSUME NEW y, NEW st, Laid(y.list, y.rule, st), y.split = ".", y.len \in Nat, Len(y.rule) \in Nat,
         y.len < Len(y.rule), NEW k \in 1 .. Len(y.list.indexes),
         Backwards(y.list, y.found, Len(y.list.indexes) - k),
         NEW j \in 1 .. LastOf(y.list.indexes[k]), y.colons = ColonsOf(y.list.indexes[k], j),
         FigAt(y, y.len, FigureOf(y.list.indexes[k], j), EndOf(y.list.indexes[k], st[k], j))
  PROVE  IsReading(y)
<1>1. NextAt(y) = y.len
  <2>1. y.len # Len(y.rule)
    OBVIOUS
  <2> QED
    BY <2>1, Zenon DEF NextAt
<1>2. ReadingAt(y, y.list.indexes[k], st[k], j)
  BY <1>1, Zenon DEF ReadingAt
<1>3. ReadingItem(y, st, k)
  BY <1>2, Zenon DEF ReadingItem
<1>4. ReadingList(y, st)
  BY <1>3, Zenon DEF ReadingList
<1> QED
  BY <1>4, Zenon DEF IsReading

\* After a token the reader goes on with the same list, or is done with it.
Follows(x, y) ==
    /\ ReaderFrame(y) /\ y.list = x.list /\ y.rule = x.rule /\ y.size = x.size /\ y.taken = x.taken
    /\ \/ y.at = "read" /\ IsReading(y)
       \/ y.at = "filter" /\ IsToFilter(y)

\* A reader that goes on to a figure, of the same item or the one before, keeps the invariant,
LEMMA ReadsOn ==
  ASSUME NEW x, NEW st, Laid(x.list, x.rule, st), Len(x.rule) \in Nat, x.split = ".",
         NEW len \in Nat, len < Len(x.rule), NEW number, NEW minus, NEW colons, NEW got,
         NEW y, y = ReaderAt(x, "read", len, number, minus, colons, got, x.split),
         NEW k \in 1 .. Len(x.list.indexes), Backwards(x.list, got, Len(x.list.indexes) - k),
         NEW j \in 1 .. LastOf(x.list.indexes[k]), colons = ColonsOf(x.list.indexes[k], j),
         FigAt(y, len, FigureOf(x.list.indexes[k], j), EndOf(x.list.indexes[k], st[k], j))
  PROVE  Follows(x, y)
<1>1. /\ y.list = x.list /\ y.rule = x.rule /\ y.size = x.size /\ y.taken = x.taken
      /\ y.at = "read" /\ y.len = len /\ y.colons = colons /\ y.found = got /\ y.split = x.split
      /\ ReaderFrame(y)
  BY ReaderFields
<1>2. IsReading(y)
  <2>1. Laid(y.list, y.rule, st) /\ y.split = "." /\ y.len \in Nat /\ Len(y.rule) \in Nat /\ y.len < Len(y.rule)
        /\ k \in 1 .. Len(y.list.indexes) /\ Backwards(y.list, y.found, Len(y.list.indexes) - k)
        /\ j \in 1 .. LastOf(y.list.indexes[k]) /\ y.colons = ColonsOf(y.list.indexes[k], j)
        /\ FigAt(y, y.len, FigureOf(y.list.indexes[k], j), EndOf(y.list.indexes[k], st[k], j))
    BY <1>1
  <2> QED
    BY <2>1, StillReading
<1> QED
  BY <1>1, <1>2, Zenon DEF Follows

\* and so does one that has come to the head of the list.
LEMMA ReadsAll ==
  ASSUME NEW x, NEW len, NEW number, NEW minus, NEW colons, NEW got, NEW sep,
         NEW y, y = ReaderAt(x, "filter", len, number, minus, colons, got, sep),
         Backwards(x.list, got, Len(x.list.indexes)), sep = IF x.list.exclude THEN "!" ELSE "."
  PROVE  Follows(x, y)
<1>1. /\ y.list = x.list /\ y.rule = x.rule /\ y.size = x.size /\ y.taken = x.taken
      /\ y.at = "filter" /\ y.found = got /\ y.split = sep
      /\ ReaderFrame(y)
  BY ReaderFields
<1>2. IsToFilter(y)
  BY <1>1, Zenon DEF IsToFilter
<1> QED
  BY <1>1, <1>2, Zenon DEF Follows

\* The tokens that are no figures.
LEMMA OtherTokens ==
  /\ "-" \notin ToSet(Digits)
  /\ \A c \in {":", ",", "[", "!", "."} : c \notin ToSet(Digits) /\ c # "-"
<1>1. "-" \notin ToSet(Digits)
  BY DigitIs
<1>2. \A c \in {":", ",", "[", "!", "."} : c \notin ToSet(Digits)
  BY DigitIs
<1>3. \A c \in {":", ",", "[", "!", "."} : c # "-"
  OBVIOUS
<1> QED
  BY <1>1, <1>2, <1>3

\* Where a figure begins or an item does, the token before it is known.
LEMMA FigureEnds ==
  ASSUME NEW list \in IndexLists, NEW q, NEW st, Laid(list, q, st), NEW k \in 1 .. Len(list.indexes),
         NEW j \in 1 .. LastOf(list.indexes[k]), NEW u,
         u = EndOf(list.indexes[k], st[k], j) - FigLen(FigureOf(list.indexes[k], j))
  PROVE  /\ j # 1 => q[u] = ":" /\ list.brackets
         /\ j = 1 => u = st[k]
         /\ j = 1 /\ k = 1 => q[u] = HeadEnd(list)
         /\ j = 1 /\ k # 1 => q[u] = ByOf(list)
<1> DEFINE index == list.indexes[k]
           p == st[k]
<1>1. /\ IsIndex(index) /\ (~list.brackets => index.single)
      /\ Len(list.indexes) \in Nat \ {0}
  BY ListIs
<1>2. p \in Nat /\ ItemWritten(q, index, p)
  <2>1. k \in 1 .. Len(list.indexes) + 1
    BY <1>1
  <2> QED
    BY <2>1 DEF Laid, ItemsLaid
<1>3. /\ j = 1 => u = p
      /\ j # 1 => q[u] = ":"
  <2> HIDE DEF index, p
  <2>1. j \in 1 .. LastOf(index) /\ u = EndOf(index, p, j) - FigLen(FigureOf(index, j))
    BY DEF index, p
  <2> QED
    BY <1>1, <1>2, <2>1, FigureStands
<1>4. ~list.brackets => j = 1
  <2>1. index.single => LastOf(index) = 1
    BY <1>1, ColonsAre
  <2>2. LastOf(index) = 1 => j = 1
    BY <1>1, ColonsAre
  <2> QED
    BY <1>1, <2>1, <2>2, Zenon
<1>5. k # 1 => k \in 2 .. Len(list.indexes)
  BY <1>1
<1>6. q[st[1]] = HeadEnd(list) /\ \A i \in 2 .. Len(list.indexes) : q[st[i]] = ByOf(list)
  BY DEF Laid
<1>7. list.brackets \in BOOLEAN
  BY ListIs
<1> HIDE DEF index
<1>8. j = 1 /\ k = 1 => q[u] = HeadEnd(list)
  BY <1>3, <1>6
<1>9. j = 1 /\ k # 1 => q[u] = ByOf(list)
  BY <1>3, <1>5, <1>6
<1> QED
  BY <1>3, <1>4, <1>7, <1>8, <1>9, Zenon

\* What the reader stands in, by name.
StandsIn(x, st, k, j) ==
    /\ x.list \in IndexLists /\ Laid(x.list, x.rule, st) /\ Len(x.rule) \in Nat
    /\ x.split = "." /\ x.len \in Nat
    /\ k \in 1 .. Len(x.list.indexes) /\ j \in 1 .. LastOf(x.list.indexes[k])
    /\ Backwards(x.list, x.found, Len(x.list.indexes) - k)
    /\ x.colons = ColonsOf(x.list.indexes[k], j)
    /\ FigAt(x, NextAt(x), FigureOf(x.list.indexes[k], j), EndOf(x.list.indexes[k], st[k], j))

\* What the place of a reader says of the letters around it.
LEMMA PlaceIs ==
  ASSUME NEW x, NEW st, NEW k, NEW j, StandsIn(x, st, k, j),
         NEW index, index = x.list.indexes[k], NEW v, v = FigureOf(index, j), NEW e, e = EndOf(index, st[k], j)
  PROVE  /\ IsIndex(index) /\ v \in -3 .. 3 /\ Written(x.rule, v, e) /\ e \in Nat /\ st[k] \in Nat
         /\ e - FigLen(v) >= 2 /\ e <= Len(x.rule) /\ FigLen(v) \in {1, 2}
         /\ (v < 0 => FigLen(v) = 2) /\ (~(v < 0) => FigLen(v) = 1)
         /\ NextAt(x) \in Nat \ {0} /\ NextAt(x) <= Len(x.rule) /\ NextAt(x) <= e /\ e - 2 <= NextAt(x)
<1> DEFINE n == Len(x.list.indexes)
           p == st[k]
           u == NextAt(x)
           len == Len(x.rule)
<1>1. n \in Nat \ {0} /\ \A i \in 1 .. n : IsIndex(x.list.indexes[i])
  BY ListIs DEF StandsIn
<1>2. k \in 1 .. n /\ k \in 1 .. n + 1 /\ n + 1 \in 1 .. n + 1 /\ k + 1 \in 1 .. n + 1 /\ len \in Nat
  BY <1>1 DEF StandsIn
<1>3. IsIndex(index)
  BY <1>1, <1>2
<1>4. p \in Nat /\ p >= 2 /\ ItemWritten(x.rule, index, p) /\ st[k + 1] = ItemEnd(index, p) + 1
      /\ st[n + 1] \in Nat
  BY <1>2 DEF StandsIn, Laid, ItemsLaid
<1>5. j \in 1 .. LastOf(index)
  BY DEF StandsIn
<1> HIDE DEF p
<1>6. /\ v \in -3 .. 3 /\ Written(x.rule, v, e) /\ e \in Nat /\ e - FigLen(v) >= p
      /\ e <= ItemEnd(index, p) /\ ItemEnd(index, p) \in Nat
  BY <1>3, <1>4, <1>5, FigureStands DEF p
<1>7. FigLen(v) \in {1, 2} /\ (v < 0 => FigLen(v) = 2) /\ (~(v < 0) => FigLen(v) = 1)
  BY <1>6 DEF FigLen
<1>8. st[k + 1] <= st[n + 1]
  BY <1>2, LaidUp DEF StandsIn
<1>9. st[n + 1] - 1 <= len
  <2>1. x.list.brackets \in BOOLEAN
    BY ListIs DEF StandsIn
  <2>2. Len(x.rule) = st[n + 1] \/ Len(x.rule) = st[n + 1] - 1
    BY <2>1, Zenon DEF StandsIn, Laid
  <2> QED
    BY <1>4, <2>2
<1>10. e <= len
  BY <1>2, <1>4, <1>6, <1>8, <1>9
<1>11. \/ u = e
       \/ u = e - 1
       \/ u = e - 2 /\ v < 0
  <2>1. FigAt(x, u, v, e)
    BY DEF StandsIn
  <2> HIDE DEF u
  <2> QED
    BY <2>1, Zenon DEF FigAt, SignRead
<1> HIDE DEF u, len
<1>12. u \in Nat \ {0} /\ u <= len /\ u <= e /\ e - 2 <= u
  BY <1>2, <1>4, <1>6, <1>7, <1>10, <1>11
<1> QED
  BY <1>3, <1>4, <1>6, <1>7, <1>10, <1>12 DEF u, len, p

\* A digit or a sign.
LEMMA FigureTaken ==
  ASSUME NEW x, NEW st, NEW k, NEW j, StandsIn(x, st, k, j),
         NEW v, v = FigureOf(x.list.indexes[k], j), NEW e, e = EndOf(x.list.indexes[k], st[k], j),
         \/ NextAt(x) = e /\ Unread(x)
         \/ NextAt(x) = e - 1 /\ DigitRead(x, v) /\ v < 0
  PROVE  Follows(x, AfterToken(x, x.rule[NextAt(x)]))
<1> DEFINE u == NextAt(x)
           c == x.rule[u]
           y == AfterToken(x, c)
           n == Len(x.list.indexes)
<1>1. /\ v \in -3 .. 3 /\ Written(x.rule, v, e) /\ e \in Nat /\ e <= Len(x.rule) /\ u \in Nat \ {0} /\ u <= Len(x.rule)
  BY PlaceIs
<1>2. /\ Laid(x.list, x.rule, st) /\ Len(x.rule) \in Nat /\ x.split = "."
      /\ k \in 1 .. n /\ j \in 1 .. LastOf(x.list.indexes[k]) /\ Backwards(x.list, x.found, n - k)
      /\ x.colons = ColonsOf(x.list.indexes[k], j)
  BY DEF StandsIn
<1>3. u - 1 \in Nat /\ u - 1 < Len(x.rule)
  BY <1>1, <1>2
<1> DEFINE d == Digits[Size0(v) + 1]
<1>4. CASE u = e /\ Unread(x)
  <2>1. c = d
    BY <1>1, <1>4 DEF Written
  <2>2. d \in ToSet(Digits)
    <3>1. Size0(v) \in 0 .. 3
      BY <1>1 DEF Size0
    <3> QED
      BY <3>1, DigitIs
  <2> HIDE DEF u, c, d, n
  <2>3. y = ReaderAt(x, "read", u - 1, d, x.minus, x.colons, x.found, x.split)
    BY <2>1, <2>2, Zenon DEF AfterToken, u
  <2>4. DigitRead(y, v)
    <3> HIDE DEF y
    <3>1. y.number = d /\ y.minus = x.minus
      BY <2>3, ReaderFields
    <3> QED
      BY <1>4, <3>1, Zenon DEF Unread, DigitRead, d
  <2> HIDE DEF y
  <2>5. FigAt(y, u - 1, v, e)
    BY <1>4, <2>4, Zenon DEF FigAt
  <2>6. Follows(x, y)
    BY <1>2, <1>3, <2>3, <2>5, ReadsOn DEF n
  <2> QED
    BY <2>6 DEF y, c, u
<1>5. CASE u = e - 1 /\ DigitRead(x, v) /\ v < 0
  <2>1. c = "-"
    BY <1>1, <1>5 DEF Written
  <2>2. u - 1 = e - 2
    BY <1>1, <1>5
  <2> HIDE DEF u, c, d, n
  <2> DEFINE yes == TRUE
  <2>3. y = ReaderAt(x, "read", u - 1, x.number, yes, x.colons, x.found, x.split)
    BY <2>1, OtherTokens, Zenon DEF AfterToken, u
  <2>4. SignRead(y, v)
    <3> HIDE DEF y, yes
    <3>1. y.number = x.number /\ y.minus = yes
      BY <2>3, ReaderFields
    <3> QED
      BY <1>5, <3>1, Zenon DEF DigitRead, SignRead, yes
  <2> HIDE DEF y, yes
  <2>5. FigAt(y, u - 1, v, e)
    BY <2>2, <2>4, Zenon DEF FigAt
  <2>6. Follows(x, y)
    BY <1>2, <1>3, <2>3, <2>5, ReadsOn DEF n
  <2> QED
    BY <2>6 DEF y, c, u
<1> QED
  BY <1>4, <1>5

\* The token before a figure that was read.
LEMMA NoFigureToken ==
  ASSUME NEW x, NEW c, c \in {":", ",", "[", "!", "."}
  PROVE  /\ Closed(x) => AfterToken(x, c) = InBrackets(Before(x), c)
         /\ ~Closed(x) => AfterToken(x, c) = AtTheEnd(Before(x), c)
<1>1. c \notin ToSet(Digits) /\ c # "-"
  BY OtherTokens
<1> QED
  BY <1>1, Zenon DEF AfterToken

\* Whether the rule ends with a bracket.
LEMMA ClosedIs ==
  ASSUME NEW x, NEW st, NEW k, NEW j, StandsIn(x, st, k, j)
  PROVE  Closed(x) <=> x.list.brackets
<1>1. x.list.brackets \in BOOLEAN
  BY ListIs DEF StandsIn
<1> QED
  BY <1>1, Zenon DEF StandsIn, Laid, Closed

\* A colon within an item: the figure before it is next.
LEMMA ColonRead ==
  ASSUME NEW x, NEW st, NEW k, NEW j, StandsIn(x, st, k, j), j # 1,
         NEW v, v = FigureOf(x.list.indexes[k], j), NEW e, e = EndOf(x.list.indexes[k], st[k], j),
         NextAt(x) = e - FigLen(v), Read(x) = v, Numbered(x)
  PROVE  Follows(x, AfterToken(x, x.rule[NextAt(x)]))
<1> DEFINE u == NextAt(x)
           c == x.rule[u]
           y == AfterToken(x, c)
           index == x.list.indexes[k]
           n == Len(x.list.indexes)
           i == j - 1
           colons == ColonsOf(index, i)
           none == ""
           no == FALSE
<1>1. /\ IsIndex(index) /\ st[k] \in Nat /\ u \in Nat \ {0} /\ u <= Len(x.rule)
  BY PlaceIs
<1>2. /\ Laid(x.list, x.rule, st) /\ Len(x.rule) \in Nat /\ x.split = "." /\ x.list \in IndexLists
      /\ k \in 1 .. n /\ j \in 1 .. LastOf(index) /\ Backwards(x.list, x.found, n - k)
      /\ x.colons = ColonsOf(index, j)
  BY DEF StandsIn
<1>3. u - 1 \in Nat /\ u - 1 < Len(x.rule)
  BY <1>1, <1>2
<1>4. c = ":" /\ x.list.brackets
  BY <1>2, FigureEnds
<1>5. Closed(x)
  BY <1>4, ClosedIs
<1>6. j \in 2 .. LastOf(index) /\ i \in 1 .. LastOf(index)
  <2>1. LastOf(index) \in {1, 2, 3}
    BY <1>1, ColonsAre
  <2> HIDE DEF index
  <2> QED
    BY <1>2, <2>1
<1>7. Append(x.colons, v) = colons
  BY <1>1, <1>2, <1>6, ColonsAre
<1>8. u - 1 = EndOf(index, st[k], i)
  <2>1. ItemWritten(x.rule, index, st[k])
    BY <1>2 DEF Laid, ItemsLaid
  <2>2. EndOf(index, st[k], j - 1) = EndOf(index, st[k], j) - FigLen(FigureOf(index, j)) - 1
    BY <1>1, <1>2, <2>1, FigureStands
  <2> QED
    BY <2>2
<1>9. y = InBrackets(Before(x), c)
  <2> HIDE DEF u
  <2>1. c \in {":", ",", "[", "!", "."}
    BY <1>4
  <2> QED
    BY <1>5, <2>1, NoFigureToken
<1> HIDE DEF y, c, colons
<1>10. y = ReaderAt(x, "read", u - 1, "", FALSE, colons, x.found, x.split)
  <2> DEFINE before == Before(x)
  <2>1. AtFigure(x, u - 1, v, before)
    BY Zenon DEF AtFigure, Before
  <2> HIDE DEF before, u
  <2>2. InBrackets(before, ":") = AfterColon(x, u - 1, v)
    BY <2>1, InBracketsIs, Zenon
  <2> QED
    BY <1>4, <1>7, <1>9, <2>2, Zenon DEF before, AfterColon
<1>11. y = ReaderAt(x, "read", u - 1, none, no, colons, x.found, x.split)
  BY <1>10, Zenon
<1> HIDE DEF none, no, u, index, n, i
<1>12. Unread(y)
  <2>1. y.number = none /\ y.minus = no
    BY <1>11, ReaderFields
  <2> QED
    BY <2>1, Zenon DEF Unread, none, no
<1>13. FigAt(y, u - 1, FigureOf(index, i), EndOf(index, st[k], i))
  BY <1>8, <1>12, Zenon DEF FigAt
<1>14. Follows(x, y)
  BY <1>2, <1>3, <1>6, <1>11, <1>13, ReadsOn DEF n, index, colons
<1> QED
  BY <1>14 DEF y, c, u

\* What is before an item of its own: the rest of the items, or the head.
LEMMA IndexMade ==
  ASSUME NEW x, NEW st, NEW k, StandsIn(x, st, k, 1), NEW v, v = FigureOf(x.list.indexes[k], 1),
         NEW index, index = x.list.indexes[k]
  PROVE  /\ IndexOf(x.colons, v) = index
         /\ ~x.list.brackets => Single(v) = index /\ x.colons = <<>>
         /\ Backwards(x.list, Append(x.found, index), Len(x.list.indexes) - k + 1)
<1>1. /\ x.list \in IndexLists /\ k \in 1 .. Len(x.list.indexes) /\ x.colons = ColonsOf(index, 1)
      /\ Backwards(x.list, x.found, Len(x.list.indexes) - k)
  BY DEF StandsIn
<1>2. IsIndex(index) /\ (~x.list.brackets => index.single) /\ Len(x.list.indexes) \in Nat
  BY <1>1, ListIs
<1>3. v = index.from
  BY DEF FigureOf
<1>4. IndexOf(x.colons, v) = index
  BY <1>1, <1>2, <1>3, ColonsAre
<1>5. ~x.list.brackets => Single(v) = index
  BY <1>2, <1>3, ColonsAre
<1>6. ~x.list.brackets => x.colons = <<>>
  <2>1. ~x.list.brackets => LastOf(index) = 1
    BY <1>2, ColonsAre
  <2>2. ColonsOf(index, LastOf(index)) = <<>>
    BY <1>2, ColonsAre
  <2> QED
    BY <1>1, <2>1, <2>2, Zenon
<1>7. Backwards(x.list, Append(x.found, index), Len(x.list.indexes) - k + 1)
  BY <1>1, <1>2, BackwardsGoesOn
<1> QED
  BY <1>4, <1>5, <1>6, <1>7, Zenon

\* An item that is not the first: the one before it is next.
LEMMA ItemRead ==
  ASSUME NEW x, NEW st, NEW k, StandsIn(x, st, k, 1), k # 1,
         NEW v, v = FigureOf(x.list.indexes[k], 1), NEW e, e = EndOf(x.list.indexes[k], st[k], 1),
         NextAt(x) = e - FigLen(v), Read(x) = v, Numbered(x)
  PROVE  Follows(x, AfterToken(x, x.rule[NextAt(x)]))
<1> DEFINE u == NextAt(x)
           c == x.rule[u]
           y == AfterToken(x, c)
           index == x.list.indexes[k]
           n == Len(x.list.indexes)
           i == k - 1
           former == x.list.indexes[i]
           colons == <<>>
           got == Append(x.found, index)
           none == ""
           no == FALSE
<1>1. /\ st[k] \in Nat /\ u \in Nat \ {0} /\ u <= Len(x.rule)
  BY PlaceIs
<1>2. /\ Laid(x.list, x.rule, st) /\ Len(x.rule) \in Nat /\ x.split = "." /\ x.list \in IndexLists
      /\ k \in 1 .. n /\ 1 \in 1 .. LastOf(index) /\ Backwards(x.list, x.found, n - k)
  BY DEF StandsIn
<1>3. u - 1 \in Nat /\ u - 1 < Len(x.rule)
  BY <1>1, <1>2
<1>4. c = ByOf(x.list) /\ u = st[k]
  BY <1>2, FigureEnds
<1>5. n \in Nat \ {0} /\ \A m \in 1 .. n : IsIndex(x.list.indexes[m])
  BY <1>2, ListIs
<1>6. i \in 1 .. n /\ i + 1 = k /\ n - i = n - k + 1 /\ i \in 1 .. n + 1
  BY <1>2, <1>5
<1>7. IsIndex(former) /\ st[k] = ItemEnd(former, st[i]) + 1 /\ st[i] \in Nat
  BY <1>2, <1>5, <1>6 DEF Laid, ItemsLaid
<1>8. ItemEnd(former, st[i]) \in Nat
  BY <1>7, ItemIs
<1> DEFINE last == LastOf(former)
<1>9. last \in 1 .. last /\ EndOf(former, st[i], last) = ItemEnd(former, st[i]) /\ ColonsOf(former, last) = colons
  <2>1. last \in {1, 2, 3} /\ EndOf(former, st[i], last) = ItemEnd(former, st[i]) /\ ColonsOf(former, last) = colons
    BY <1>7, ColonsAre
  <2> HIDE DEF last, former
  <2> QED
    BY <2>1
<1>10. u - 1 = EndOf(former, st[i], last)
  BY <1>4, <1>7, <1>8, <1>9
<1>11. /\ IndexOf(x.colons, v) = index
       /\ ~x.list.brackets => Single(v) = index /\ x.colons = colons
       /\ Backwards(x.list, got, n - k + 1)
  BY IndexMade
<1>12. Closed(x) <=> x.list.brackets
  BY ClosedIs
<1>13. (x.list.brackets => c = ",") /\ (~x.list.brackets => c = ":")
  BY <1>4, Zenon DEF ByOf
<1>14. c = "," \/ c = ":"
  BY <1>13, Zenon
<1>15. c \in {":", ",", "[", "!", "."}
  <2> HIDE DEF c
  <2> QED
    BY <1>14
<1>16. y = AfterItem(x, u - 1, colons, index)
  <2> DEFINE before == Before(x)
  <2>1. AtFigure(x, u - 1, v, before)
    BY Zenon DEF AtFigure, Before
  <2>2. /\ Closed(x) => y = InBrackets(before, c)
        /\ ~Closed(x) => y = AtTheEnd(before, c)
    BY <1>15, NoFigureToken
  <2> HIDE DEF before, u, colons, none, no, y, c
  <2>3. InBrackets(before, ",") = AfterComma(x, u - 1, v)
    BY <2>1, InBracketsIs, Zenon
  <2>4. AtTheEnd(before, ":") = AfterItem(x, u - 1, x.colons, Single(v))
    BY <2>1, AtTheEndIs, Zenon
  <2>5. AfterComma(x, u - 1, v) = AfterItem(x, u - 1, colons, index)
    BY <1>11, Zenon DEF AfterComma, colons
  <2>6. CASE x.list.brackets
    BY <1>12, <1>13, <2>2, <2>3, <2>5, <2>6, Zenon
  <2>7. CASE ~x.list.brackets
    BY <1>11, <1>12, <1>13, <2>2, <2>4, <2>7, Zenon
  <2> QED
    BY <2>6, <2>7, Zenon
<1>17. y = ReaderAt(x, "read", u - 1, none, no, colons, got, x.split)
  <2> HIDE DEF y
  <2> QED
    BY <1>16, Zenon DEF AfterItem
<1> HIDE DEF none, no, u, index, n, i, colons, got, y, c, last, former
<1>18. Unread(y)
  <2>1. y.number = none /\ y.minus = no
    BY <1>17, ReaderFields
  <2> QED
    BY <2>1, Zenon DEF Unread, none, no
<1>19. FigAt(y, u - 1, FigureOf(former, last), EndOf(former, st[i], last))
  BY <1>10, <1>18, Zenon DEF FigAt
<1>20. Backwards(x.list, got, n - i) /\ colons = ColonsOf(former, last)
  BY <1>6, <1>9, <1>11
<1>21. /\ last \in 1 .. LastOf(x.list.indexes[i]) /\ colons = ColonsOf(x.list.indexes[i], last)
       /\ FigAt(y, u - 1, FigureOf(x.list.indexes[i], last), EndOf(x.list.indexes[i], st[i], last))
  BY <1>9, <1>19, <1>20 DEF last, former
<1>22. Follows(x, y)
  BY <1>2, <1>3, <1>6, <1>17, <1>20, <1>21, ReadsOn DEF n
<1> QED
  BY <1>22 DEF y, c, u

\* The first item: all were read.
LEMMA FirstRead ==
  ASSUME NEW x, NEW st, StandsIn(x, st, 1, 1),
         NEW v, v = FigureOf(x.list.indexes[1], 1), NEW e, e = EndOf(x.list.indexes[1], st[1], 1),
         NextAt(x) = e - FigLen(v), Read(x) = v, Numbered(x)
  PROVE  Follows(x, AfterToken(x, x.rule[NextAt(x)]))
<1> DEFINE u == NextAt(x)
           c == x.rule[u]
           y == AfterToken(x, c)
           index == x.list.indexes[1]
           n == Len(x.list.indexes)
           colons == <<>>
           got == Append(x.found, index)
           sep == IF c = "!" THEN "!" ELSE x.split
<1>1. /\ st[1] \in Nat /\ u \in Nat \ {0} /\ u <= Len(x.rule)
  BY PlaceIs
<1>2. /\ Laid(x.list, x.rule, st) /\ x.split = "." /\ x.list \in IndexLists
      /\ 1 \in 1 .. n /\ 1 \in 1 .. LastOf(index)
  BY DEF StandsIn
<1>4. c = HeadEnd(x.list)
  BY <1>2, FigureEnds
<1>5. n \in Nat \ {0} /\ x.list.exclude \in BOOLEAN /\ x.list.brackets \in BOOLEAN
  BY <1>2, ListIs
<1>11. /\ IndexOf(x.colons, v) = index
       /\ ~x.list.brackets => Single(v) = index /\ x.colons = colons
       /\ Backwards(x.list, got, n - 1 + 1)
  BY IndexMade
<1>12. Closed(x) <=> x.list.brackets
  BY ClosedIs
<1>13. /\ x.list.exclude => c = "!"
       /\ ~x.list.exclude /\ x.list.brackets => c = "["
       /\ ~x.list.exclude /\ ~x.list.brackets => c = "."
  BY <1>4, Zenon DEF HeadEnd
<1>14. \/ c = "!" /\ x.list.exclude
       \/ c = "[" /\ x.list.brackets /\ ~x.list.exclude
       \/ c = "." /\ ~x.list.brackets /\ ~x.list.exclude
  BY <1>5, <1>13, Zenon
<1>15. c \in {":", ",", "[", "!", "."} /\ (x.list.brackets => c \in {"[", "!"}) /\ (~x.list.brackets => c \in {".", "!"})
  <2> HIDE DEF c
  <2>1. c = "!" => c \in {":", ",", "[", "!", "."} /\ c \in {"[", "!"} /\ c \in {".", "!"}
    OBVIOUS
  <2>2. c = "[" => c \in {":", ",", "[", "!", "."} /\ c \in {"[", "!"}
    OBVIOUS
  <2>3. c = "." => c \in {":", ",", "[", "!", "."} /\ c \in {".", "!"}
    OBVIOUS
  <2> QED
    BY <1>14, <2>1, <2>2, <2>3, Zenon
<1>16. y = AfterFirst(x, u - 1, colons, index, c)
  <2> DEFINE before == Before(x)
  <2>1. AtFigure(x, u - 1, v, before)
    BY Zenon DEF AtFigure, Before
  <2>2. /\ Closed(x) => y = InBrackets(before, c)
        /\ ~Closed(x) => y = AtTheEnd(before, c)
    BY <1>15, NoFigureToken
  <2> HIDE DEF before, u, colons, y, c
  <2>3. c \in {"[", "!"} => InBrackets(before, c) = AfterBracket(x, u - 1, v, c)
    BY <2>1, InBracketsIs, Zenon
  <2>4. c \in {".", "!"} => AtTheEnd(before, c) = AfterFirst(x, u - 1, x.colons, Single(v), c)
    BY <2>1, AtTheEndIs, Zenon
  <2>5. AfterBracket(x, u - 1, v, c) = AfterFirst(x, u - 1, colons, index, c)
    BY <1>11, Zenon DEF AfterBracket, colons
  <2>6. CASE x.list.brackets
    BY <1>12, <1>15, <2>2, <2>3, <2>5, <2>6, Zenon
  <2>7. CASE ~x.list.brackets
    BY <1>11, <1>12, <1>15, <2>2, <2>4, <2>7, Zenon
  <2> QED
    BY <2>6, <2>7, Zenon
<1>17. y = ReaderAt(x, "filter", u - 1, x.number, x.minus, colons, got, sep)
  <2> HIDE DEF y
  <2> QED
    BY <1>16, Zenon DEF AfterFirst
<1>18. sep = IF x.list.exclude THEN "!" ELSE "."
  <2> HIDE DEF c
  <2>1. c = "[" => c # "!"
    OBVIOUS
  <2>2. c = "." => c # "!"
    OBVIOUS
  <2> QED
    BY <1>2, <1>14, <2>1, <2>2, Zenon
<1>19. Backwards(x.list, got, n)
  <2>1. n - 1 + 1 = n
    BY <1>5
  <2> QED
    BY <1>11, <2>1
<1> HIDE DEF u, index, colons, got, y, c, sep
<1>20. Follows(x, y)
  BY <1>17, <1>18, <1>19, ReadsAll
<1> QED
  BY <1>20 DEF y, c, u

\* One token, whatever it is.
LEMMA TokenFollows ==
  ASSUME NEW x, NEW st, NEW k, NEW j, StandsIn(x, st, k, j)
  PROVE  Follows(x, AfterToken(x, x.rule[NextAt(x)]))
<1> DEFINE index == x.list.indexes[k]
           v == FigureOf(index, j)
           e == EndOf(index, st[k], j)
           y == AfterToken(x, x.rule[NextAt(x)])
<1>1. /\ v \in -3 .. 3 /\ e \in Nat /\ (v < 0 => FigLen(v) = 2) /\ (~(v < 0) => FigLen(v) = 1)
      /\ NextAt(x) \in Nat
  BY PlaceIs
<1>2. FigAt(x, NextAt(x), v, e)
  BY DEF StandsIn
<1> HIDE DEF y
<1>3. ASSUME \/ NextAt(x) = e /\ Unread(x)
             \/ NextAt(x) = e - 1 /\ DigitRead(x, v) /\ v < 0
      PROVE  Follows(x, y)
  BY <1>3, FigureTaken DEF y
<1>4. ASSUME NextAt(x) = e - FigLen(v), Read(x) = v, Numbered(x)
      PROVE  Follows(x, y)
  <2>1. CASE j # 1
    BY <1>4, <2>1, ColonRead DEF y
  <2>2. CASE j = 1 /\ k # 1
    <3>1. StandsIn(x, st, k, 1)
      BY <2>2
    <3>2. /\ k # 1 /\ v = FigureOf(x.list.indexes[k], 1) /\ e = EndOf(x.list.indexes[k], st[k], 1)
      BY <2>2
    <3> HIDE DEF v, e, index
    <3> QED
      BY <1>4, <3>1, <3>2, ItemRead DEF y
  <2>3. CASE j = 1 /\ k = 1
    <3>1. StandsIn(x, st, 1, 1)
      BY <2>3
    <3>2. /\ v = FigureOf(x.list.indexes[1], 1) /\ e = EndOf(x.list.indexes[1], st[1], 1)
      BY <2>3
    <3> HIDE DEF v, e, index
    <3> QED
      BY <1>4, <3>1, <3>2, FirstRead DEF y
  <2> QED
    BY <2>1, <2>2, <2>3, Zenon
<1> HIDE DEF v, e, index
<1>5. ASSUME NextAt(x) = e, Unread(x) PROVE Follows(x, y)
  BY <1>3, <1>5, Zenon
<1>6. ASSUME NextAt(x) = e - 1, DigitRead(x, v) PROVE Follows(x, y)
  <2>1. CASE v < 0
    BY <1>3, <1>6, <2>1, Zenon
  <2>2. CASE ~(v < 0)
    <3>1. NextAt(x) = e - FigLen(v)
      BY <1>1, <1>6, <2>2
    <3>2. Read(x) = v /\ Numbered(x)
      <4>1. Read(x) = v /\ x.number # ""
        BY <1>1, <1>6, <2>2, FigureRead
      <4> QED
        BY <4>1, Zenon DEF Numbered
    <3> QED
      BY <1>4, <3>1, <3>2, Zenon
  <2> QED
    BY <2>1, <2>2, Zenon
<1>7. ASSUME NextAt(x) = e - 2, SignRead(x, v) PROVE Follows(x, y)
  <2>1. v < 0
    BY <1>7, Zenon DEF SignRead
  <2>2. NextAt(x) = e - FigLen(v)
    BY <1>1, <1>7, <2>1
  <2>3. Read(x) = v /\ Numbered(x)
    <3>1. Read(x) = v /\ x.number # ""
      BY <1>1, <1>7, FigureRead
    <3> QED
      BY <3>1, Zenon DEF Numbered
  <2> QED
    BY <1>4, <2>2, <2>3, Zenon
<1>8. Follows(x, y)
  BY <1>2, <1>5, <1>6, <1>7, Zenon DEF FigAt
<1> QED
  BY <1>8 DEF y

\* A reader that reads stands in a figure.
LEMMA ReaderStands ==
  ASSUME IndexInv, indexer.at = "read"
  PROVE  \E st : \E k : \E j : StandsIn(indexer, st, k, j)
<1> DEFINE x == indexer
<1>1. x.list \in IndexLists /\ x.rule = Spelled(x.list) /\ IsReading(x)
  <2>1. x.at # "idle"
    OBVIOUS
  <2> QED
    BY <2>1, Zenon DEF IndexInv, IndexMeans
<1>2. x.split = "." /\ x.len \in Nat
  BY <1>1, Zenon DEF IsReading
<1>3. PICK st : ReadingList(x, st)
  BY <1>1, Zenon DEF IsReading
<1>4. Laid(x.list, x.rule, st)
  BY <1>3, Zenon DEF ReadingList
<1>5. PICK k : ReadingItem(x, st, k)
  BY <1>3, Zenon DEF ReadingList
<1>6. PICK j : ReadingAt(x, x.list.indexes[k], st[k], j)
  BY <1>5, Zenon DEF ReadingItem
<1>7. Len(x.rule) \in Nat
  <2>1. Len(Spelled(x.list)) \in Nat
    BY <1>1, LayoutIs
  <2> QED
    BY <1>1, <2>1, Zenon
<1> HIDE DEF x
<1>8. StandsIn(x, st, k, j)
  BY <1>1, <1>2, <1>4, <1>5, <1>6, <1>7, Zenon DEF StandsIn, ReadingItem, ReadingAt
<1> QED
  BY <1>8, Zenon DEF x

\* One more letter is read.
LEMMA ReadIndexKeeps ==
  ASSUME IndexInv, ReadIndex
  PROVE  IndexInv'
<1> DEFINE x == indexer
           y == AfterToken(x, x.rule[NextAt(x)])
<1>1. indexer.at = "read"
  BY Zenon DEF ReadIndex
<1>2. PICK st : \E k : \E j : StandsIn(x, st, k, j)
  BY <1>1, ReaderStands
<1>3. PICK k : \E j : StandsIn(x, st, k, j)
  BY <1>2
<1>4. PICK j : StandsIn(x, st, k, j)
  BY <1>3
<1>5. Follows(x, y)
  BY <1>4, TokenFollows
<1>6. NextAt(x) \in Nat \ {0}
  BY <1>4, PlaceIs
<1>7. indexer' = y
  <2>1. ReaderFrame(indexer) /\ Len(indexer.rule) \in Nat /\ indexer.len \in Nat
    BY <1>4, Zenon DEF IndexInv, StandsIn
  <2> QED
    BY <1>6, <2>1, IndexTokenRead
<1>8. /\ x.list \in IndexLists /\ x.rule = Spelled(x.list) /\ x.size \in Nat /\ x.taken \subseteq 0 .. x.size - 1
  BY <1>1 DEF IndexInv
<1> HIDE DEF y
<1>9. /\ ReaderFrame(y) /\ y.list = x.list /\ y.rule = x.rule /\ y.size = x.size /\ y.taken = x.taken
      /\ \/ y.at = "read" /\ IsReading(y)
         \/ y.at = "filter" /\ IsToFilter(y)
  BY <1>5, Zenon DEF Follows
<1> HIDE DEF x
<1>10. /\ y.size \in Nat /\ y.taken \subseteq 0 .. y.size - 1
       /\ y.list \in IndexLists /\ y.rule = Spelled(y.list)
  BY <1>8, <1>9
<1>11. y.at \in {"read", "filter", "done", "idle"} /\ y.at # "idle" /\ IndexMeans(y)
  <2>1. CASE y.at = "read" /\ IsReading(y)
    <3>1. y.at # "filter" /\ y.at # "done" /\ y.at # "idle" /\ y.at \in {"read", "filter", "done", "idle"}
      BY <2>1
    <3> QED
      BY <2>1, <3>1, Zenon DEF IndexMeans
  <2>2. CASE y.at = "filter" /\ IsToFilter(y)
    <3>1. y.at # "read" /\ y.at # "done" /\ y.at # "idle" /\ y.at \in {"read", "filter", "done", "idle"}
      BY <2>2
    <3> QED
      BY <2>2, <3>1, Zenon DEF IndexMeans
  <2> QED
    BY <1>9, <2>1, <2>2, Zenon
<1>12. /\ ReaderFrame(y) /\ y.at \in {"read", "filter", "done", "idle"}
       /\ y.size \in Nat /\ y.taken \subseteq 0 .. y.size - 1
       /\ (y.at # "idle" => y.list \in IndexLists /\ y.rule = Spelled(y.list))
       /\ IndexMeans(y)
  BY <1>9, <1>10, <1>11, Zenon
<1> QED
  BY <1>7, <1>12 DEF IndexInv

\* What the filter leaves of the reader.
WithTaken(r, v) == [r EXCEPT !.taken = v]

\* A reader that has taken places.
LEMMA WithTakenIs ==
  ASSUME NEW z, ReaderFrame(z), NEW t, NEW y, y = WithTaken(z, t)
  PROVE  /\ ReaderFrame(y) /\ y.list = z.list /\ y.rule = z.rule /\ y.size = z.size
         /\ y.at = z.at /\ y.taken = t
<1> DEFINE r == [list |-> z.list, rule |-> z.rule, size |-> z.size, at |-> z.at, len |-> z.len,
                 number |-> z.number, minus |-> z.minus, colons |-> z.colons, found |-> z.found,
                 split |-> z.split, taken |-> t]
<1>1. z = [list |-> z.list, rule |-> z.rule, size |-> z.size, at |-> z.at, len |-> z.len,
           number |-> z.number, minus |-> z.minus, colons |-> z.colons, found |-> z.found,
           split |-> z.split, taken |-> z.taken]
  BY Zenon DEF ReaderFrame, ReaderAt
<1>2. y = r
  <2>1. ASSUME NEW a, NEW b, NEW c, NEW d, NEW e, NEW f, NEW g, NEW h, NEW i, NEW j, NEW k, NEW l
        PROVE  [[list |-> a, rule |-> b, size |-> c, at |-> d, len |-> e, number |-> f, minus |-> g,
                 colons |-> h, found |-> i, split |-> j, taken |-> k] EXCEPT !.taken = l]
               = [list |-> a, rule |-> b, size |-> c, at |-> d, len |-> e, number |-> f, minus |-> g,
                  colons |-> h, found |-> i, split |-> j, taken |-> l]
    OBVIOUS
  <2>2. WithTaken([list |-> z.list, rule |-> z.rule, size |-> z.size, at |-> z.at, len |-> z.len,
           number |-> z.number, minus |-> z.minus, colons |-> z.colons, found |-> z.found,
           split |-> z.split, taken |-> z.taken], t) = r
    BY <2>1 DEF WithTaken
  <2> QED
    BY <1>1, <2>2, Zenon
<1>3. /\ r.list = z.list /\ r.rule = z.rule /\ r.size = z.size /\ r.at = z.at /\ r.taken = t
  OBVIOUS
<1>4. r = [list |-> r.list, rule |-> r.rule, size |-> r.size, at |-> r.at, len |-> r.len,
           number |-> r.number, minus |-> r.minus, colons |-> r.colons, found |-> r.found,
           split |-> r.split, taken |-> r.taken]
  OBVIOUS
<1> HIDE DEF r
<1>5. ReaderFrame(r)
  BY <1>4, Zenon DEF ReaderFrame, ReaderAt
<1> QED
  BY <1>2, <1>3, <1>5, Zenon

\* The indexes that were read are those of the list, in another order.
NamedBy(q, size) == UNION {Taken(q[i], size) : i \in DOMAIN q}

\* Backwards the same places are named.
LEMMA AllAreNamed ==
  ASSUME NEW list \in IndexLists, NEW f, Backwards(list, f, Len(list.indexes)), NEW size
  PROVE  NamedBy(f, size) = NamedBy(list.indexes, size)
<1> DEFINE n == Len(list.indexes)
           q == list.indexes
           all == {Taken(f[i], size) : i \in DOMAIN f}
           meant == {Taken(q[i], size) : i \in DOMAIN q}
<1>1. n \in Nat \ {0} /\ DOMAIN q = 1 .. n
  BY ListIs
<1>2. DOMAIN f = 1 .. n /\ \A j \in 1 .. n : f[j] = q[n + 1 - j]
  BY <1>1 DEF Backwards
<1> HIDE DEF n, q
<1>3. ASSUME NEW j \in 1 .. n PROVE f[j] = q[n + 1 - j] /\ n + 1 - j \in 1 .. n
  BY <1>1, <1>2
<1>4. ASSUME NEW j \in 1 .. n PROVE q[j] = f[n + 1 - j] /\ n + 1 - j \in 1 .. n
  <2> DEFINE i == n + 1 - j
  <2>1. i \in 1 .. n /\ n + 1 - i = j
    BY <1>1
  <2> HIDE DEF i
  <2>2. q[j] = f[i]
    BY <1>2, <2>1
  <2> QED
    BY <2>1, <2>2 DEF i
<1>5. all = {Taken(f[i], size) : i \in 1 .. n} /\ meant = {Taken(q[i], size) : i \in 1 .. n}
  BY <1>1, <1>2
<1> HIDE DEF all, meant
<1>6. ASSUME NEW t \in all PROVE t \in meant
  <2>1. PICK j \in 1 .. n : t = Taken(f[j], size)
    BY <1>5
  <2> DEFINE i == n + 1 - j
  <2>2. i \in 1 .. n /\ f[j] = q[i]
    BY <1>3
  <2> HIDE DEF i
  <2>3. t = Taken(q[i], size)
    BY <2>1, <2>2, Zenon
  <2> QED
    BY <1>5, <2>2, <2>3
<1>7. ASSUME NEW t \in meant PROVE t \in all
  <2>1. PICK j \in 1 .. n : t = Taken(q[j], size)
    BY <1>5
  <2> DEFINE i == n + 1 - j
  <2>2. i \in 1 .. n /\ q[j] = f[i]
    BY <1>4
  <2> HIDE DEF i
  <2>3. t = Taken(f[i], size)
    BY <2>1, <2>2, Zenon
  <2> QED
    BY <1>5, <2>2, <2>3
<1>8. all = meant
  BY <1>6, <1>7
<1> QED
  BY <1>8, Zenon DEF all, meant, q, NamedBy

\* The places named are taken, or all others.
LEMMA FilterKeeps ==
  ASSUME IndexInv, Filter
  PROVE  IndexInv'
<1> DEFINE x == indexer
           n == x.size
           all == 0 .. n - 1
           named == all \intersect UNION {Taken(x.found[i], n) : i \in DOMAIN x.found}
           asked == all \intersect UNION {Taken(x.list.indexes[i], n) : i \in DOMAIN x.list.indexes}
           t == IF x.split = "!" THEN all \ named ELSE named
           m == IF x.list.exclude THEN all \ asked ELSE asked
           z == WithAt(x, "done")
           y == WithTaken(z, t)
<1>1. indexer.at = "filter" /\ indexer' = [x EXCEPT !.at = "done", !.taken = t]
  BY Zenon DEF Filter
<1>2. indexer' = y
  BY <1>1, Zenon DEF WithAt, WithTaken
<1>3. /\ x.list \in IndexLists /\ x.rule = Spelled(x.list) /\ x.size \in Nat
      /\ ReaderFrame(x) /\ IsToFilter(x)
  <2>1. x.at # "idle"
    BY <1>1
  <2> QED
    BY <1>1, <2>1, Zenon DEF IndexInv, IndexMeans
<1>4. /\ Backwards(x.list, x.found, Len(x.list.indexes))
      /\ x.split = IF x.list.exclude THEN "!" ELSE "."
  BY <1>3, Zenon DEF IsToFilter
<1>5. named = asked
  <2>1. NamedBy(x.found, n) = NamedBy(x.list.indexes, n)
    BY <1>3, <1>4, AllAreNamed
  <2> QED
    BY <2>1, Zenon DEF NamedBy
<1>6. t \subseteq all
  <2> HIDE DEF all
  <2> QED
    OBVIOUS
<1> HIDE DEF named, asked
<1>7. t = m
  <2>1. x.split = "!" <=> x.list.exclude
    <3>1. x.list.exclude \in BOOLEAN
      BY <1>3, ListIs
    <3>2. "!" # "."
      OBVIOUS
    <3> QED
      BY <1>4, <3>1, <3>2, Zenon
  <2> QED
    BY <1>5, <2>1, Zenon
<1>8. m = Meant(x.list, x.size)
  BY Zenon DEF Meant, asked
<1> HIDE DEF t, m, all, n, x, z, y
<1>9. ReaderFrame(z) /\ z.list = x.list /\ z.rule = x.rule /\ z.size = x.size /\ z.at = "done"
  <2> DEFINE done == "done"
  <2> HIDE DEF done
  <2>1. z = ReaderAt(x, done, x.len, x.number, x.minus, x.colons, x.found, x.split)
    <3>1. WithAt(ReaderAt(x, x.at, x.len, x.number, x.minus, x.colons, x.found, x.split), done)
          = ReaderAt(x, done, x.len, x.number, x.minus, x.colons, x.found, x.split)
      BY WithAtIs
    <3> QED
      BY <1>3, <3>1, Zenon DEF ReaderFrame, done, z
  <2>2. z.list = x.list /\ z.rule = x.rule /\ z.size = x.size /\ z.at = done /\ ReaderFrame(z)
    BY <2>1, ReaderFields
  <2> QED
    BY <2>2, Zenon DEF done
<1>10. ReaderFrame(y) /\ y.list = z.list /\ y.rule = z.rule /\ y.size = z.size /\ y.at = z.at /\ y.taken = t
  <2>1. y = WithTaken(z, t)
    BY Zenon DEF y
  <2> QED
    BY <1>9, <2>1, WithTakenIs
<1>11. /\ y.at \in {"read", "filter", "done", "idle"} /\ y.at # "read" /\ y.at # "filter"
  BY <1>9, <1>10
<1>12. IndexMeans(y)
  BY <1>7, <1>8, <1>9, <1>10, <1>11, Zenon DEF IndexMeans
<1>13. y.size \in Nat /\ y.taken \subseteq 0 .. y.size - 1 /\ y.list \in IndexLists /\ y.rule = Spelled(y.list)
  <2>1. y.size = x.size /\ y.taken = t /\ y.list = x.list /\ y.rule = x.rule
    BY <1>9, <1>10, Zenon
  <2>2. y.list \in IndexLists /\ y.rule = Spelled(y.list) /\ y.size \in Nat
    BY <1>3, <2>1, Zenon
  <2>3. all = 0 .. x.size - 1
    BY DEF all, n
  <2> QED
    BY <1>6, <2>1, <2>2, <2>3
<1>14. /\ ReaderFrame(y) /\ y.at \in {"read", "filter", "done", "idle"}
       /\ y.size \in Nat /\ y.taken \subseteq 0 .. y.size - 1
       /\ (y.at # "idle" => y.list \in IndexLists /\ y.rule = Spelled(y.list))
       /\ IndexMeans(y)
  BY <1>10, <1>11, <1>12, <1>13, Zenon
<1> QED
  BY <1>2, <1>14 DEF IndexInv

\* The reader starts behind the last figure.
LEMMA ReaderFound ==
  ASSUME NEW list \in IndexLists, NEW q, q = Spelled(list), NEW x, x.list = list, x.rule = q,
         x.len = Len(q), Unread(x), x.colons = <<>>, x.found = <<>>, x.split = "."
  PROVE  IsReading(x)
<1> DEFINE n == Len(list.indexes)
           index == list.indexes[n]
           j == LastOf(index)
<1>1. PICK st : Laid(list, q, st)
  BY LayoutIs
<1>2. Len(q) \in Nat
  BY LayoutIs
<1>3. /\ n \in Nat \ {0} /\ list.brackets \in BOOLEAN
      /\ \A i \in 1 .. n : IsIndex(list.indexes[i])
  BY ListIs
<1>4. n \in 1 .. n /\ n + 1 \in 1 .. n + 1 /\ n \in 1 .. n + 1 /\ n - n = 0
  BY <1>3
<1>5. IsIndex(index)
  BY <1>3, <1>4
<1>6. /\ st[n] \in Nat /\ st[n] >= 2 /\ st[n + 1] \in Nat /\ st[n + 1] >= 2
      /\ st[n + 1] = ItemEnd(index, st[n]) + 1
      /\ (list.brackets => Len(q) = st[n + 1] /\ q[Len(q)] = "]")
      /\ (~list.brackets => Len(q) = st[n + 1] - 1 /\ q[Len(q)] # "]")
  BY <1>1, <1>4 DEF Laid, ItemsLaid
<1>7. /\ j \in 1 .. j /\ EndOf(index, st[n], j) = ItemEnd(index, st[n]) /\ ColonsOf(index, j) = <<>>
  <2>1. j \in {1, 2, 3} /\ EndOf(index, st[n], j) = ItemEnd(index, st[n]) /\ ColonsOf(index, j) = <<>>
    BY <1>5, ColonsAre
  <2> HIDE DEF j, index
  <2> QED
    BY <2>1
<1>8. ItemEnd(index, st[n]) \in Nat
  BY <1>5, <1>6, ItemIs DEF Laid
<1>9. NextAt(x) = st[n + 1] - 1
  <2>1. Closed(x) <=> list.brackets
    BY <1>3, <1>6, Zenon DEF Closed
  <2>2. NextAt(x) = IF Closed(x) THEN x.len - 1 ELSE x.len
    BY Zenon DEF NextAt
  <2>3. CASE list.brackets
    BY <1>6, <2>1, <2>2, <2>3
  <2>4. CASE ~list.brackets
    BY <1>6, <2>1, <2>2, <2>4
  <2> QED
    BY <2>3, <2>4
<1>10. NextAt(x) = EndOf(index, st[n], j)
  BY <1>6, <1>7, <1>8, <1>9
<1>11. Backwards(list, x.found, n - n)
  <2>1. \A i \in 1 .. 0 : x.found[i] = list.indexes[n + 1 - i]
    OBVIOUS
  <2>2. x.found \in Seq({list.indexes[i] : i \in 1 .. Len(list.indexes)}) /\ Len(x.found) = 0
    OBVIOUS
  <2> HIDE DEF n
  <2> QED
    BY <1>4, <2>1, <2>2 DEF Backwards, n
<1> HIDE DEF n, index, j
<1>12. FigAt(x, NextAt(x), FigureOf(index, j), EndOf(index, st[n], j))
  BY <1>10, Zenon DEF FigAt
<1>13. ReadingAt(x, index, st[n], j)
  BY <1>7, <1>12, Zenon DEF ReadingAt, j
<1>14. ReadingItem(x, st, n)
  BY <1>4, <1>11, <1>13, Zenon DEF ReadingItem, n, index
<1>15. ReadingList(x, st)
  BY <1>1, <1>14, Zenon DEF ReadingList
<1>16. x.len \in Nat
  BY <1>2
<1> QED
  BY <1>15, <1>16, Zenon DEF IsReading

\* Where a list of indexes begins to be read.
LEMMA IndexStarts ==
  ASSUME NEW list, NEW size \in Nat, NEW at, IndexStart(list, size, at),
         at = "idle" \/ (at = "read" /\ list \in IndexLists)
  PROVE  IndexInv
<1> DEFINE none == ""
           no == FALSE
           empty == <<>>
           x == indexer
           rule == Spelled(list)
<1>1. indexer = [list |-> list, rule |-> rule, size |-> size, at |-> at,
               len |-> Len(rule), number |-> none,
               minus |-> no, colons |-> empty, found |-> empty, split |-> ".", taken |-> {}]
  BY Zenon DEF IndexStart
<1> HIDE DEF none, no, empty, rule, x
<1>2. /\ x.list = list /\ x.rule = rule /\ x.size = size /\ x.at = at
      /\ x.len = Len(rule) /\ x.number = none /\ x.colons = empty /\ x.found = empty
      /\ x.split = "." /\ x.taken = {}
  BY <1>1 DEF x
<1>3. x.minus = no
  BY <1>1 DEF x
<1>4. x = [list |-> x.list, rule |-> x.rule, size |-> x.size, at |-> x.at, len |-> x.len,
           number |-> x.number, minus |-> x.minus, colons |-> x.colons, found |-> x.found,
           split |-> x.split, taken |-> x.taken]
  BY <1>1 DEF x
<1>5. ReaderFrame(x)
  BY <1>4, Zenon DEF ReaderFrame, ReaderAt
<1>6. x.size \in Nat /\ x.taken \subseteq 0 .. x.size - 1
  BY <1>2
<1>7. CASE at = "idle"
  <2>1. x.at \in {"read", "filter", "done", "idle"} /\ x.at # "read" /\ x.at # "filter" /\ x.at # "done" /\ x.at = "idle"
    BY <1>2, <1>7
  <2>2. IndexMeans(x)
    BY <2>1, Zenon DEF IndexMeans
  <2> QED
    BY <1>5, <1>6, <2>1, <2>2, Zenon DEF IndexInv, x
<1>8. CASE at = "read" /\ list \in IndexLists
  <2>1. x.at \in {"read", "filter", "done", "idle"} /\ x.at # "idle" /\ x.at # "filter" /\ x.at # "done"
    BY <1>2, <1>8
  <2>2. Unread(x)
    BY <1>2, <1>3, Zenon DEF Unread, none, no
  <2>3. rule = Spelled(list) /\ x.colons = <<>> /\ x.found = <<>>
    BY <1>2, Zenon DEF rule, empty
  <2>4. IsReading(x)
    BY <1>2, <1>8, <2>2, <2>3, ReaderFound
  <2>5. IndexMeans(x)
    BY <2>1, <2>4, Zenon DEF IndexMeans
  <2>6. x.list \in IndexLists /\ x.rule = Spelled(x.list)
    BY <1>2, <1>8, <2>3, Zenon
  <2> QED
    BY <1>5, <1>6, <2>1, <2>5, <2>6, Zenon DEF IndexInv, x
<1> QED
  BY <1>7, <1>8

\* Every step.
LEMMA IndexGoesOn ==
  ASSUME IndexInv, (ReadIndex \/ Filter) \/ UNCHANGED indexer
  PROVE  IndexInv'
<1>1. CASE ReadIndex
  BY <1>1, ReadIndexKeeps
<1>2. CASE Filter
  BY <1>2, FilterKeeps
<1>3. CASE UNCHANGED indexer
  BY <1>3, Zenon DEF IndexInv
<1> QED
  BY <1>1, <1>2, <1>3

\* What the invariant says of the places taken and of the types.
LEMMA IndexesRight ==
  ASSUME IndexInv
  PROVE  /\ IndexesAreRead
         /\ indexer.at \in {"read", "filter", "done", "idle"}
         /\ indexer.taken \subseteq 0 .. indexer.size - 1
BY Zenon DEF IndexInv, IndexMeans, IndexesAreRead

\* The two together.
TextInv == SplitInv /\ IndexInv

\* Both at the start,
LEMMA TextStarts ==
  ASSUME TextInit
  PROVE  TextInv
<1>1. Sizes \subseteq Nat /\ 0 \in Nat
  BY TextsAreWhole
<1>2. ASSUME NEW r \in Rules, SplitStart(r, "split"), IndexStart(NoList, 0, "idle") PROVE TextInv
  <2>1. SplitInv
    <3>1. r \in Seq(ToSet(r))
      BY TextsAreWhole
    <3> QED
      BY <1>2, <3>1, SplitStarts
  <2>2. IndexInv
    BY <1>1, <1>2, IndexStarts
  <2> QED
    BY <2>1, <2>2 DEF TextInv
<1>3. ASSUME SplitStart(<<>>, "idle"), NEW l \in IndexLists, NEW n \in Sizes, IndexStart(l, n, "read") PROVE TextInv
  <2>1. SplitInv
    <3>1. <<>> \in Seq(ToSet(<<>>))
      OBVIOUS
    <3> QED
      BY <1>3, <3>1, SplitStarts
  <2>2. IndexInv
    BY <1>1, <1>3, IndexStarts
  <2> QED
    BY <2>1, <2>2 DEF TextInv
<1> QED
  BY <1>2, <1>3, Zenon DEF TextInit

\* in every step,
LEMMA TextGoesOn ==
  ASSUME TextInv, [TextNext]_textVars
  PROVE  TextInv'
<1>1. CASE (Split \/ PieceEnds \/ Bracket \/ CutFurther) /\ UNCHANGED indexer
  <2>1. SplitInv'
    BY <1>1, SplitGoesOn, Zenon DEF TextInv
  <2>2. IndexInv'
    BY <1>1, IndexGoesOn DEF TextInv
  <2> QED
    BY <2>1, <2>2, Zenon DEF TextInv
<1>2. CASE (ReadIndex \/ Filter) /\ UNCHANGED splitter
  <2>1. SplitInv'
    BY <1>2, SplitGoesOn, Zenon DEF TextInv
  <2>2. IndexInv'
    BY <1>2, IndexGoesOn DEF TextInv
  <2> QED
    BY <2>1, <2>2, Zenon DEF TextInv
<1>3. CASE UNCHANGED textVars
  <2>1. UNCHANGED splitter /\ UNCHANGED indexer
    BY <1>3 DEF textVars
  <2>2. SplitInv'
    BY <2>1, SplitGoesOn, Zenon DEF TextInv
  <2>3. IndexInv'
    BY <2>1, IndexGoesOn DEF TextInv
  <2> QED
    BY <2>2, <2>3, Zenon DEF TextInv
<1> QED
  BY <1>1, <1>2, <1>3, Zenon DEF TextNext

\* and what their invariants say together.
LEMMA TextsAreRight ==
  ASSUME TextInv
  PROVE  TextTypeOK /\ SplitsAtSeparators /\ IndexesAreRead
BY SplitsRight, IndexesRight, Zenon DEF TextInv, TextTypeOK

-----------------------------------------------------------------------------
(* All parts together. *)

\* Rules that are cut and lists of indexes that are read.
LEMMA TextInService ==
  /\ ServiceInit => TextInv
  /\ TextInv /\ [ServiceNext]_serviceVars => TextInv'
<1>1. ServiceInit => TextInv
  <2> SUFFICES ASSUME ServiceInit
               PROVE  TextInv
    OBVIOUS
  <2>1. TextInit \/ TextAtRest
    BY DEF ServiceInit
  <2>2. CASE TextAtRest
    <3>1. SplitInv
      <4> DEFINE none == <<>>
      <4>1. none \in Seq(ToSet(none))
        BY DEF ToSet
      <4>2. SplitStart(none, "idle")
        BY <2>2 DEF TextAtRest
      <4> HIDE DEF none
      <4> QED
        BY <4>1, <4>2, SplitStarts
    <3>2. IndexInv
      <4>1. IndexStart(NoList, 0, "idle")
        BY <2>2 DEF TextAtRest
      <4> QED
        BY <4>1, IndexStarts
    <3> QED
      BY <3>1, <3>2 DEF TextInv
  <2> QED
    BY <2>1, <2>2, TextStarts
<1>2. ServiceNext => TextNext \/ UNCHANGED textVars
  BY DEF ServiceNext
<1>3. UNCHANGED serviceVars => UNCHANGED textVars
  BY DEF serviceVars
<1>4. [ServiceNext]_serviceVars => [TextNext]_textVars
  BY <1>2, <1>3
<1> QED
  BY <1>1, <1>4, TextGoesOn

\* The list, a validation and a stream.
LEMMA ListInService ==
  /\ ServiceInit => ListServiceInv
  /\ ListServiceInv /\ [ServiceNext]_serviceVars => ListServiceInv'
<1>1. ServiceInit => ListServiceInv
  <2> SUFFICES ASSUME ServiceInit
               PROVE  ListServiceInv
    OBVIOUS
  <2>1. ListServiceInit \/ ListAtRest
    BY DEF ServiceInit
  <2>2. [k \in Kinds |-> 0] \in [Kinds -> Nat]
    OBVIOUS
  <2>3. ListAtRest => ListBegins /\ ValidationInit /\ StreamInit
    BY <2>2 DEF ListAtRest, ListBegins
  <2> QED
    BY <2>1, <2>3, InitListService, ListServiceStarts
<1>2. ServiceNext => ListServiceNext \/ UNCHANGED listServiceVars
  BY DEF ServiceNext
<1>3. UNCHANGED serviceVars => UNCHANGED listServiceVars
  BY DEF serviceVars
<1>4. [ServiceNext]_serviceVars => [ListServiceNext]_listServiceVars
  BY <1>2, <1>3
<1> QED
  BY <1>1, <1>4, StepListService

\* The grading of a source.
LEMMA GradeInService ==
  /\ ServiceInit => GInv
  /\ GInv /\ [ServiceNext]_serviceVars => GInv'
<1>1. ServiceInit => GInv
  <2> SUFFICES ASSUME ServiceInit
               PROVE  GInv
    OBVIOUS
  <2>1. GradeInit \/ GradeStart({}, 0)
    BY DEF ServiceInit
  <2>2. 0 \in 0 .. PoolMax
    BY GradeConstants
  <2> QED
    BY <2>1, <2>2, GradeStarts DEF GradeInit
<1>2. ServiceNext => GradeNext \/ UNCHANGED gradeVars
  BY DEF ServiceNext
<1>3. UNCHANGED serviceVars => UNCHANGED gradeVars
  BY DEF serviceVars
<1>4. [ServiceNext]_serviceVars => [GradeNext]_gradeVars
  BY <1>2, <1>3
<1> QED
  BY <1>1, <1>4, GradeGoesOn

\* A search for other sources.
LEMMA SeekInService ==
  /\ ServiceInit => SeekInv
  /\ SeekInv /\ [ServiceNext]_serviceVars => SeekInv'
<1>1. ServiceInit => SeekInv
  <2> SUFFICES ASSUME ServiceInit
               PROVE  SeekInv
    OBVIOUS
  <2>1. SeekInit \/ SeekAtRest
    BY DEF ServiceInit
  <2>2. CASE SeekAtRest
    <3> DEFINE nothing == [author |-> FALSE, sources |-> <<>>]
    <3>1. nothing \in [author : BOOLEAN, sources : Seq(Inquiries)] /\ nothing.sources = <<>>
      BY EmptySeq
    <3>2. SeekStart(nothing, "closed")
      BY <2>2 DEF SeekAtRest
    <3> HIDE DEF nothing
    <3> QED
      BY <3>1, <3>2, SeekStarts
  <2> QED
    BY <2>1, <2>2, InitSeek
<1>2. ServiceNext => SeekNext \/ UNCHANGED seekVars
  BY DEF ServiceNext
<1>3. UNCHANGED serviceVars => UNCHANGED seekVars
  BY DEF serviceVars
<1>4. [ServiceNext]_serviceVars => [SeekNext]_seekVars
  BY <1>2, <1>3
<1> QED
  BY <1>1, <1>4, StepSeek

\* Whatever is at work, all parts stay within their types.
THEOREM ServiceTypeCorrect == ServiceSpec => []ServiceTypeOK
<1> DEFINE Inv == /\ ListServiceInv /\ GInv /\ TextInv /\ RuleInv /\ CssInv /\ StepInv /\ JsonInv
                  /\ SeekInv
<1>1. ServiceInit => Inv
  BY ListInService, GradeInService, TextInService, RulesInService, CssInService, StepsInService,
     JsonInService, SeekInService
<1>2. Inv /\ [ServiceNext]_serviceVars => Inv'
  BY ListInService, GradeInService, TextInService, RulesInService, CssInService, StepsInService,
     JsonInService, SeekInService
<1>3. Inv => ServiceTypeOK
  <2> SUFFICES ASSUME Inv
               PROVE  ServiceTypeOK
    OBVIOUS
  <2>1. ListTypeOK /\ ValidationTypeOK /\ StreamTypeOK
    BY ListsTyped
  <2>2. GradeTypeOK
    BY GradesTyped
  <2>3. SeekTypeOK
    BY DEF SeekInv
  <2> QED
    BY <2>1, <2>2, <2>3, TextsAreRight, RulesHold, CssTyped, StepsTyped, JsonTyped
       DEF ServiceTypeOK
<1> HIDE DEF Inv
<1> QED
  BY <1>1, <1>2, <1>3, PTL DEF ServiceSpec

\* Whatever rule is read or applied, it finds what it says: it is cut where it says and its
\* indexes are those written (rule_analyzer.h:29), selectors and paths lead where they mean to
\* (css_engine.h:27), and what other threads cached changes no answer (engine_utils.cpp:875).
THEOREM RulesFollow == ServiceSpec => []RulesAreFollowed
<1> DEFINE Inv == TextInv /\ RuleInv /\ CssInv /\ StepInv /\ JsonInv
<1>1. ServiceInit => Inv
  BY TextInService, RulesInService, CssInService, StepsInService, JsonInService
<1>2. Inv /\ [ServiceNext]_serviceVars => Inv'
  BY TextInService, RulesInService, CssInService, StepsInService, JsonInService
<1>3. Inv => RulesAreFollowed
  BY TextsAreRight, RulesHold, SelectorsFind, PathsLead, SinglesAreExact, JsonsFollowed
     DEF RulesAreFollowed
<1> HIDE DEF Inv
<1> QED
  BY <1>1, <1>2, <1>3, PTL DEF ServiceSpec

\* What is proved of a list, a search for other sources and a grade on their own, holds in the
\* service: whoever works at the list next to whom, requests use the source they were asked for
\* (engine_core.cpp:1140), give list and selection back (engine_core.cpp:886), and keep list and
\* table in agreement (engine_core.cpp:128); reports (engine_validate.cpp:567), streams
\* (routes_search.cpp:86), candidates (engine_auto_source.cpp:124) and grades say what happened.
THEOREM SourcesServe == ServiceSpec => [](/\ FetchedFromRequested /\ SelectionInRange
                                          /\ LockedRequestsLeaveNoTrace /\ ListMatchesTable
                                          /\ ReportsAreTrue /\ StreamIsTrue
                                          /\ CandidatesAreTold /\ GradesAreTrue)
<1> DEFINE Inv == ListServiceInv /\ SeekInv /\ GInv
           Good == /\ FetchedFromRequested /\ SelectionInRange
                   /\ LockedRequestsLeaveNoTrace /\ ListMatchesTable
                   /\ ReportsAreTrue /\ StreamIsTrue
                   /\ CandidatesAreTold /\ GradesAreTrue
<1>1. ServiceInit => Inv
  BY ListInService, SeekInService, GradeInService
<1>2. Inv /\ [ServiceNext]_serviceVars => Inv'
  BY ListInService, SeekInService, GradeInService
<1>3. Inv => Good
  <2>1. GInv => GradesAreTrue
    BY GradesAgree DEF GradesAreTrue
  <2>2. SeekInv => CandidatesAreTold
    BY CandidatesAgree
  <2> QED
    BY <2>1, <2>2, FetchesDirected, SelectionStays, TraceGone, TableMatches, ReportsAgree,
       StreamsAgree
<1> HIDE DEF Inv
<1> QED
  BY <1>1, <1>2, <1>3, PTL DEF ServiceSpec
=============================================================================
