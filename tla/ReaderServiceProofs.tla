------------------------ MODULE ReaderServiceProofs ------------------------
(***************************************************************************)
(* For any book, any number of readers and of download workers: a reader   *)
(* is shown the text of the chapter it asked for, a download counts each   *)
(* missing chapter once, and a book marked full has every chapter stored.  *)
(* For any site, any feeds and any screen: the walks through pages lose    *)
(* and repeat nothing, the feeds' rows agree with what was fetched, and    *)
(* what was proved of a screen holds while it stands next to the other     *)
(* parts.                                                                  *)
(***************************************************************************)
EXTENDS ReaderService, ViewModelsProofs, WellFoundedInduction

-----------------------------------------------------------------------------
(* Natural numbers. *)

\* A set of natural numbers has a least element.
LEMMA LeastNat ==
  ASSUME NEW T, T \subseteq Nat, T # {}
  PROVE  \E x \in T : \A y \in T : x <= y
<1> DEFINE R == {s \in Nat \X Nat : s[1] < s[2]}
<1>1. OpToRel(<, Nat) = R
  BY DEF OpToRel
<1>2. IsWellFoundedOn(R, Nat)
  BY <1>1, NatLessThanWellFounded
<1>3. PICK x \in T : \A y \in T : <<y, x>> \notin R
  <2> HIDE DEF R
  <2> QED
    BY <1>2, WFMin
<1> QED
  <2>1. \A y \in T : ~(y < x)
    BY <1>3
  <2> QED
    BY <2>1

\* A set that holds 0 and the successor of each of its elements holds all natural numbers.
LEMMA AllNat ==
  ASSUME NEW T, 0 \in T, \A n \in Nat : n \in T => n + 1 \in T
  PROVE  Nat \subseteq T
<1> SUFFICES ASSUME Nat \ T # {} PROVE FALSE
  OBVIOUS
<1>1. PICK x \in Nat \ T : \A y \in Nat \ T : x <= y
  BY LeastNat
<1>2. x # 0 /\ x - 1 \in Nat
  BY <1>1
<1>3. x - 1 \in T
  BY <1>1, <1>2
<1> QED
  BY <1>1, <1>2, <1>3

-----------------------------------------------------------------------------
(* FlattenSeq. *)

\* The equation of its recursive function on the first n sequences.
Joined(s, f, i) == IF i = 1 THEN s[i] ELSE f[i - 1] \o s[i]
Flattens(s, n, f) ==
    f = [i \in 1 .. n |-> f[i]] /\ \A i \in 1 .. n : f[i] = Joined(s, f, i)

\* At most one function satisfies it ...
LEMMA FlattensOnce ==
  ASSUME NEW s, NEW n \in Nat, NEW f, NEW g, Flattens(s, n, f), Flattens(s, n, g)
  PROVE  f = g
<1> DEFINE D == {i \in 1 .. n : f[i] # g[i]}
<1>1. f = [i \in 1 .. n |-> f[i]] /\ g = [i \in 1 .. n |-> g[i]]
  BY DEF Flattens
<1>2. CASE D = {}
  BY <1>1, <1>2
<1>3. CASE D # {}
  <2>0. D \subseteq Nat
    OBVIOUS
  <2>1. PICK x \in D : \A y \in D : x <= y
    <3> HIDE DEF D
    <3> QED
      BY <1>3, <2>0, LeastNat
  <2>2. x # 1 => x - 1 \in 1 .. n /\ x - 1 \notin D
    BY <2>1
  <2>3. x # 1 => f[x - 1] = g[x - 1]
    BY <2>2
  <2>4. f[x] = g[x]
    <3>1. x \in 1 .. n
      BY <2>1
    <3>2. f[x] = IF x = 1 THEN s[x] ELSE f[x - 1] \o s[x]
      BY <3>1 DEF Flattens, Joined
    <3>3. g[x] = IF x = 1 THEN s[x] ELSE g[x - 1] \o s[x]
      BY <3>1 DEF Flattens, Joined
    <3> QED
      BY <2>3, <3>2, <3>3
  <2> QED
    BY <2>1, <2>4
<1> QED
  BY <1>2, <1>3

\* ... and one does.
LEMMA FlattensExists ==
  ASSUME NEW X, NEW s \in Seq(Seq(X))
  PROVE  \A n \in 0 .. Len(s) : \E f \in [1 .. n -> Seq(X)] : Flattens(s, n, f)
<1> DEFINE T == {n \in Nat : n <= Len(s) => \E f \in [1 .. n -> Seq(X)] : Flattens(s, n, f)}
<1>0. Len(s) \in Nat /\ \A i \in 1 .. Len(s) : s[i] \in Seq(X)
  OBVIOUS
<1>1. 0 \in T
  <2> DEFINE e == [i \in 1 .. 0 |-> IF i = 1 THEN s[i] ELSE <<>>]
  <2>1. e \in [1 .. 0 -> Seq(X)]
    OBVIOUS
  <2>2. Flattens(s, 0, e)
    BY DEF Flattens, Joined
  <2> QED
    BY <2>1, <2>2
<1>2. ASSUME NEW n \in Nat, n \in T PROVE n + 1 \in T
  <2> SUFFICES ASSUME n + 1 <= Len(s)
               PROVE  \E f \in [1 .. n + 1 -> Seq(X)] : Flattens(s, n + 1, f)
    OBVIOUS
  <2>1. PICK f \in [1 .. n -> Seq(X)] : Flattens(s, n, f)
    BY <1>2, <1>0
  <2> DEFINE g == [i \in 1 .. n + 1 |-> IF i <= n THEN f[i]
                                        ELSE IF i = 1 THEN s[i] ELSE f[i - 1] \o s[i]]
  <2>2. \A i \in 1 .. n + 1 : g[i] \in Seq(X)
    <3> TAKE i \in 1 .. n + 1
    <3>1. s[i] \in Seq(X)
      BY <1>0
    <3>2. CASE i <= n
      BY <3>2
    <3>3. CASE ~(i <= n) /\ i = 1
      BY <3>1, <3>3
    <3>4. CASE ~(i <= n) /\ i # 1
      <4>1. f[i - 1] \in Seq(X)
        BY <3>4
      <4>2. f[i - 1] \o s[i] \in Seq(X)
        BY <4>1, <3>1, ConcatProperties
      <4> QED
        BY <3>4, <4>2
    <3> QED
      BY <3>2, <3>3, <3>4
  <2>3. \A i \in 1 .. n + 1 : g[i] = IF i = 1 THEN s[i] ELSE g[i - 1] \o s[i]
    <3> TAKE i \in 1 .. n + 1
    <3>1. i # 1 => i - 1 \in 1 .. n + 1 /\ i - 1 <= n
      OBVIOUS
    <3>2. i # 1 => g[i - 1] = f[i - 1]
      BY <3>1
    <3>3. CASE i <= n
      <4>1. f[i] = IF i = 1 THEN s[i] ELSE f[i - 1] \o s[i]
        <5>1. i \in 1 .. n
          BY <3>3
        <5> QED
          BY <2>1, <5>1 DEF Flattens, Joined
      <4> QED
        BY <4>1, <3>2, <3>3
    <3>4. CASE ~(i <= n)
      BY <3>2, <3>4
    <3> QED
      BY <3>3, <3>4
  <2>4. g \in [1 .. n + 1 -> Seq(X)] /\ g = [i \in 1 .. n + 1 |-> g[i]]
    BY <2>2
  <2> HIDE DEF g
  <2>5. Flattens(s, n + 1, g)
    BY <2>3, <2>4 DEF Flattens, Joined
  <2> QED
    BY <2>4, <2>5
<1> HIDE DEF T
<1>3. Nat \subseteq T
  BY <1>1, <1>2, AllNat
<1> QED
  BY <1>0, <1>3 DEF T

\* Its value is the last value of that function.
LEMMA FlattenIs ==
  ASSUME NEW X, NEW s \in Seq(Seq(X)), Len(s) # 0,
         NEW f, Flattens(s, Len(s), f)
  PROVE  FlattenSeq(s) = f[Len(s)]
<1> DEFINE g == CHOOSE h : h = [i \in 1 .. Len(s) |-> IF i = 1 THEN s[i] ELSE h[i - 1] \o s[i]]
<1>1. FlattenSeq(s) = g[Len(s)]
  BY DEF FlattenSeq
<1>2. g = [i \in 1 .. Len(s) |-> IF i = 1 THEN s[i] ELSE g[i - 1] \o s[i]]
  <2>1. f = [i \in 1 .. Len(s) |-> Joined(s, f, i)]
    BY DEF Flattens
  <2> QED
    BY <2>1 DEF Joined
<1>3. Flattens(s, Len(s), g)
  <2> HIDE DEF g
  <2>1. g = [i \in 1 .. Len(s) |-> Joined(s, g, i)]
    BY <1>2 DEF Joined
  <2> QED
    BY <2>1 DEF Flattens
<1> HIDE DEF g
<1>4. f = g
  BY <1>3, FlattensOnce
<1> QED
  BY <1>1, <1>4

\* What is flattened so far, followed by one more sequence.
LEMMA FlattenMore ==
  ASSUME NEW X, NEW s \in Seq(Seq(X)), NEW x \in Seq(X)
  PROVE  /\ FlattenSeq(<<>>) = <<>>
         /\ FlattenSeq(s) \in Seq(X)
         /\ FlattenSeq(Append(s, x)) = FlattenSeq(s) \o x
<1> DEFINE t == Append(s, x)
           n == Len(s)
<1>1. /\ n \in Nat /\ t \in Seq(Seq(X)) /\ Len(t) = n + 1
      /\ \A i \in 1 .. n : t[i] = s[i]
      /\ t[n + 1] = x
  OBVIOUS
<1>2. FlattenSeq(<<>>) = <<>>
  BY DEF FlattenSeq
<1> HIDE DEF t, n
<1>3. PICK f \in [1 .. n + 1 -> Seq(X)] : Flattens(t, n + 1, f)
  BY <1>1, FlattensExists
<1>4. FlattenSeq(t) = f[n + 1] /\ f[n + 1] = IF n + 1 = 1 THEN t[n + 1] ELSE f[n] \o t[n + 1]
  <2>1. n + 1 \in 1 .. n + 1 /\ (n + 1) - 1 = n
    BY <1>1
  <2>2. FlattenSeq(t) = f[n + 1]
    BY <1>1, <1>3, FlattenIs
  <2>3. f[n + 1] = IF n + 1 = 1 THEN t[n + 1] ELSE f[(n + 1) - 1] \o t[n + 1]
    BY <1>1, <1>3, <2>1 DEF Flattens, Joined
  <2> QED
    BY <2>1, <2>2, <2>3
<1>5. CASE n = 0
  <2>1. s = <<>> /\ FlattenSeq(s) = <<>>
    BY <1>5, <1>2 DEF n
  <2>2. FlattenSeq(t) = x
    BY <1>4, <1>5, <1>1
  <2>3. <<>> \o x = x
    OBVIOUS
  <2>4. FlattenSeq(s) \in Seq(X)
    BY <2>1, EmptySeq
  <2> QED
    BY <1>2, <2>1, <2>2, <2>3, <2>4 DEF t
<1>6. CASE n # 0
  <2>1. PICK g \in [1 .. n -> Seq(X)] : Flattens(s, n, g)
    <3>1. n \in 0 .. Len(s)
      BY <1>1 DEF n
    <3> QED
      BY <3>1, FlattensExists
  <2>2. FlattenSeq(s) = g[n] /\ g[n] \in Seq(X)
    <3>1. FlattenSeq(s) = g[Len(s)]
      BY <2>1, <1>6, FlattenIs DEF n
    <3>2. n \in 1 .. n
      BY <1>1, <1>6
    <3> QED
      BY <2>1, <3>1, <3>2 DEF n
  <2> DEFINE h == [i \in 1 .. n |-> f[i]]
  <2>3. \A i \in 1 .. n : h[i] = IF i = 1 THEN s[i] ELSE h[i - 1] \o s[i]
    <3> TAKE i \in 1 .. n
    <3>1. f[i] = IF i = 1 THEN t[i] ELSE f[i - 1] \o t[i]
      <4>1. i \in 1 .. n + 1 /\ n + 1 \in Nat
        BY <1>1
      <4> QED
        BY <1>3, <4>1 DEF Flattens, Joined
    <3>2. i # 1 => i - 1 \in 1 .. n
      BY <1>1
    <3> QED
      BY <3>1, <3>2, <1>1
  <2>4. h = [i \in 1 .. n |-> h[i]]
    OBVIOUS
  <2>5. f[n] = h[n]
    BY <1>6, <1>1
  <2> HIDE DEF h
  <2>6. Flattens(s, n, h)
    BY <2>3, <2>4, <1>1 DEF Flattens, Joined
  <2>7. g = h
    BY <2>1, <2>6, <1>1, FlattensOnce
  <2> QED
    BY <1>1, <1>2, <1>4, <1>6, <2>2, <2>5, <2>7 DEF t
<1> QED
  BY <1>5, <1>6
-----------------------------------------------------------------------------
(* A book. *)

ReaderPlaces == {"idle", "look", "count", "row", "session", "ask", "measure",
                 "replace", "publish", "again", "text", "download", "keep",
                 "answer", "insert", "note", "contents", "forget", "unlist", "erase", "line"}
DownloadPlaces == {"idle", "catalog", "purge", "fetch", "store", "partition", "begin", "work",
                   "shelf", "state"}
TaskPlaces == {"waiting", "asking", "store", "count", "report", "gone"}

Tables == {f \in UNION {[S -> Entries] : S \in SUBSET Nat} : IsFiniteSet(DOMAIN f)}
Texts == Chapters \union {NoText}
Shelves == [on : BOOLEAN, total : Nat, update : BOOLEAN]
States == [on : BOOLEAN, catalog : Nat, stored : Nat, total : Nat, full : BOOLEAN,
           update : BOOLEAN, at : Int]
Jobs == [known : Tables, want : Texts, at : Nat, text : Texts, state : States]
Placed == [index : Nat, entry : Entries]
Downloads == [list : Seq(Placed), next : Nat \ {0}, todo : Seq(Placed),
              cached : Nat, failed : Nat, done : Nat]
TaskStates == [at : TaskPlaces, attempt : Nat, number : Nat]

\* Tables are partial functions.
LEMMA TableFacts ==
  /\ NoEntries \in Tables /\ DOMAIN NoEntries = {} /\ Size(NoEntries) = 0
  /\ \A f \in Tables : /\ DOMAIN f \subseteq Nat /\ IsFiniteSet(DOMAIN f) /\ Size(f) \in Nat
                       /\ \A i \in DOMAIN f : f[i] \in Entries
                       /\ f # NoEntries => DOMAIN f # {} /\ Size(f) > 0
<1>1. NoEntries \in Tables /\ DOMAIN NoEntries = {} /\ Size(NoEntries) = 0
  <2>1. NoEntries \in [{} -> Entries] /\ DOMAIN NoEntries = {}
    BY DEF NoEntries
  <2>2. {} \in SUBSET Nat
    OBVIOUS
  <2> HIDE DEF NoEntries
  <2> QED
    BY <2>1, <2>2, FS_EmptySet DEF Tables, Size
<1>2. ASSUME NEW f \in Tables
      PROVE  /\ DOMAIN f \subseteq Nat /\ IsFiniteSet(DOMAIN f) /\ Size(f) \in Nat
             /\ \A i \in DOMAIN f : f[i] \in Entries
             /\ f # NoEntries => DOMAIN f # {} /\ Size(f) > 0
  <2>1. PICK S \in SUBSET Nat : f \in [S -> Entries]
    BY DEF Tables
  <2>2. IsFiniteSet(DOMAIN f)
    BY DEF Tables
  <2>3. f # NoEntries => DOMAIN f # {}
    BY <2>1 DEF NoEntries
  <2>4. Size(f) \in Nat /\ (Size(f) = 0 <=> DOMAIN f = {})
    BY <2>2, FS_CardinalityType, FS_EmptySet DEF Size
  <2> QED
    BY <2>1, <2>2, <2>3, <2>4
<1> QED
  BY <1>1, <1>2

\* A finite table of entries.
LEMMA TableIs ==
  ASSUME NEW S, S \subseteq Nat, IsFiniteSet(S), NEW f \in [S -> Entries]
  PROVE  f \in Tables
  BY DEF Tables

\* A row is put into a table.
LEMMA TablePut ==
  ASSUME NEW f \in Tables, NEW i \in Nat, NEW e \in Entries
  PROVE  LET g == [j \in DOMAIN f \union {i} |-> IF j = i THEN e ELSE f[j]]
         IN  g \in Tables /\ g # NoEntries
<1> DEFINE g == [j \in DOMAIN f \union {i} |-> IF j = i THEN e ELSE f[j]]
<1>1. DOMAIN f \subseteq Nat /\ IsFiniteSet(DOMAIN f) /\ \A j \in DOMAIN f : f[j] \in Entries
  BY TableFacts
<1>2. IsFiniteSet(DOMAIN f \union {i})
  BY <1>1, FS_AddElement
<1>3. g \in [DOMAIN f \union {i} -> Entries]
  BY <1>1
<1>4. g \in Tables
  BY <1>1, <1>2, <1>3, TableIs
<1>5. i \in DOMAIN g
  OBVIOUS
<1> QED
  BY <1>4, <1>5, TableFacts

\* Rows of a catalog.
LEMMA RowsOf ==
  ASSUME NEW s \in Seq(Entries)
  PROVE  /\ AsRows(s) \in Tables /\ DOMAIN AsRows(s) = 0 .. Len(s) - 1 /\ Size(AsRows(s)) = Len(s)
         /\ AsRows(s) = NoEntries <=> s = <<>>
<1> DEFINE n == Len(s)
<1>1. n \in Nat /\ \A i \in 0 .. n - 1 : s[i + 1] \in Entries
  <2>1. Len(s) \in Nat /\ \A k \in 1 .. Len(s) : s[k] \in Entries
    OBVIOUS
  <2>2. \A i \in 0 .. n - 1 : i + 1 \in 1 .. Len(s)
    BY <2>1
  <2> QED
    BY <2>1, <2>2
<1>2. IsFiniteSet(0 .. n - 1) /\ Cardinality(0 .. n - 1) = n
  <2>1. 0 \in Int /\ n - 1 \in Int
    BY <1>1
  <2>2. IsFiniteSet(0 .. n - 1) /\ Cardinality(0 .. n - 1) = IF 0 > n - 1 THEN 0 ELSE n - 1 - 0 + 1
    BY <2>1, FS_Interval
  <2> QED
    BY <1>1, <2>2
<1>3. AsRows(s) \in [0 .. n - 1 -> Entries] /\ DOMAIN AsRows(s) = 0 .. n - 1
  BY <1>1 DEF AsRows
<1>4. AsRows(s) \in Tables /\ Size(AsRows(s)) = n
  BY <1>1, <1>2, <1>3, TableIs DEF Size
<1>5. AsRows(s) = NoEntries <=> n = 0
  BY <1>1, <1>3, <1>4, TableFacts
<1>6. n = 0 <=> s = <<>>
  OBVIOUS
<1> QED
  BY <1>3, <1>4, <1>5, <1>6

\* A set of numbers has one of each rank.
LEMMA Ranks ==
  ASSUME NEW S, S \subseteq Nat, IsFiniteSet(S)
  PROVE  /\ \A i \in S : Cardinality({j \in S : j < i}) \in 0 .. Cardinality(S) - 1
         /\ \A i, j \in S : Cardinality({k \in S : k < i}) = Cardinality({k \in S : k < j}) => i = j
         /\ \A n \in 0 .. Cardinality(S) - 1 : \E i \in S : Cardinality({j \in S : j < i}) = n
<1> DEFINE Below(i) == {j \in S : j < i}
           N == Cardinality(S)
           rank == [i \in S |-> Cardinality(Below(i))]
<1>1. N \in Nat
  BY FS_CardinalityType
<1>2. \A i \in S : IsFiniteSet(Below(i)) /\ Cardinality(Below(i)) \in Nat
  BY FS_Subset, FS_CardinalityType
<1>3. \A i \in S : rank[i] \in 0 .. N - 1
  <2> TAKE i \in S
  <2>1. IsFiniteSet(S \ {i}) /\ Cardinality(S \ {i}) = N - 1
    BY FS_RemoveElement
  <2>2. Below(i) \in SUBSET (S \ {i})
    OBVIOUS
  <2>3. Cardinality(Below(i)) <= N - 1
    BY <2>1, <2>2, FS_Subset
  <2> QED
    BY <1>1, <1>2, <2>3
<1>4. \A i, j \in S : i < j => rank[i] < rank[j]
  <2> TAKE i, j \in S
  <2> HAVE i < j
  <2>1. Below(i) \union {i} \in SUBSET Below(j)
    <3>1. \A k \in S : k \in Nat
      OBVIOUS
    <3>2. \A k \in Below(i) : k \in S /\ k < j
      BY <3>1
    <3> QED
      BY <3>2
  <2>2. i \notin Below(i)
    OBVIOUS
  <2>3. IsFiniteSet(Below(i)) /\ IsFiniteSet(Below(j))
    BY <1>2
  <2> HIDE DEF Below
  <2>4. Cardinality(Below(i) \union {i}) = Cardinality(Below(i)) + 1
    BY <2>2, <2>3, FS_AddElement
  <2>5. Cardinality(Below(i) \union {i}) <= Cardinality(Below(j))
    BY <2>1, <2>3, FS_Subset
  <2>6. Cardinality(Below(i)) \in Nat /\ Cardinality(Below(j)) \in Nat
    BY <1>2
  <2> QED
    BY <2>4, <2>5, <2>6
<1>5. \A i, j \in S : rank[i] = rank[j] => i = j
  <2> TAKE i, j \in S
  <2>1. i \in Nat /\ j \in Nat /\ rank[i] \in Nat /\ rank[j] \in Nat
    BY <1>2
  <2> HIDE DEF rank
  <2>2. (i < j => rank[i] < rank[j]) /\ (j < i => rank[j] < rank[i])
    BY <1>4
  <2> QED
    BY <2>1, <2>2
<1>6. IsFiniteSet(0 .. N - 1) /\ Cardinality(0 .. N - 1) = N
  <2>1. 0 \in Int /\ N - 1 \in Int
    BY <1>1
  <2>2. IsFiniteSet(0 .. N - 1) /\ Cardinality(0 .. N - 1) = IF 0 > N - 1 THEN 0 ELSE N - 1 - 0 + 1
    BY <2>1, FS_Interval
  <2> QED
    BY <1>1, <2>2
<1>7. rank \in Injection(S, 0 .. N - 1)
  <2>1. rank \in [S -> 0 .. N - 1]
    BY <1>3
  <2> HIDE DEF rank
  <2> QED
    BY <1>5, <2>1 DEF Injection, IsInjective
<1>8. rank \in Surjection(S, 0 .. N - 1)
  <2> HIDE DEF rank
  <2> QED
    BY <1>6, <1>7, FS_Injection
<1>9. \A n \in 0 .. N - 1 : \E i \in S : rank[i] = n
  <2> HIDE DEF rank
  <2> QED
    BY <1>8 DEF Surjection
<1> QED
  BY <1>3, <1>5, <1>9

\* A download's chapters are those of its catalog.
LEMMA InOrderIs ==
  ASSUME NEW f \in Tables
  PROVE  /\ InOrder(f) \in Seq(Placed) /\ Len(InOrder(f)) = Size(f)
         /\ \A k \in 1 .. Size(f) : /\ InOrder(f)[k].index \in DOMAIN f
                                    /\ InOrder(f)[k].entry = f[InOrder(f)[k].index]
         /\ \A k, m \in 1 .. Size(f) : InOrder(f)[k].index = InOrder(f)[m].index => k = m
         /\ \A i \in DOMAIN f : \E k \in 1 .. Size(f) : InOrder(f)[k].index = i
<1> DEFINE N == Size(f)
           rank == [i \in DOMAIN f |-> Cardinality({j \in DOMAIN f : j < i})]
<1>1. /\ DOMAIN f \subseteq Nat /\ IsFiniteSet(DOMAIN f) /\ N \in Nat
      /\ \A i \in DOMAIN f : f[i] \in Entries
  BY TableFacts
<1>2. /\ \A i \in DOMAIN f : rank[i] \in 0 .. N - 1
      /\ \A i, j \in DOMAIN f : rank[i] = rank[j] => i = j
      /\ \A n \in 0 .. N - 1 : \E i \in DOMAIN f : rank[i] = n
  <2> DEFINE S == DOMAIN f
  <2>1. S \subseteq Nat /\ IsFiniteSet(S) /\ N = Cardinality(S)
    BY <1>1 DEF Size
  <2> HIDE DEF N, S
  <2>2. /\ \A i \in S : Cardinality({j \in S : j < i}) \in 0 .. N - 1
        /\ \A i, j \in S : Cardinality({k \in S : k < i}) = Cardinality({k \in S : k < j}) => i = j
        /\ \A n \in 0 .. N - 1 : \E i \in S : Cardinality({j \in S : j < i}) = n
    BY <2>1, Ranks
  <2> USE DEF S
  <2>3. \A i \in S : rank[i] = Cardinality({j \in S : j < i})
    OBVIOUS
  <2> HIDE DEF rank
  <2> QED
    BY <2>2, <2>3
<1>3. \A k \in 1 .. N : Nth(f, k) \in DOMAIN f /\ rank[Nth(f, k)] = k - 1
  <2> TAKE k \in 1 .. N
  <2>1. k - 1 \in 0 .. N - 1
    BY <1>1
  <2>2. \E i \in DOMAIN f : rank[i] = k - 1
    BY <1>2, <2>1
  <2>3. \E i \in DOMAIN f : Cardinality(Before(f, i)) = k - 1
    BY <2>2 DEF Before
  <2> QED
    BY <2>3 DEF Nth, Before
<1>4. \A k \in 1 .. N : InOrder(f)[k].index = Nth(f, k) /\ InOrder(f)[k].entry = f[Nth(f, k)]
  BY DEF InOrder
<1>5. InOrder(f) = [k \in 1 .. N |-> [index |-> Nth(f, k), entry |-> f[Nth(f, k)]]]
  BY DEF InOrder
<1> HIDE DEF N, rank
<1>6. \A k \in 1 .. N : [index |-> Nth(f, k), entry |-> f[Nth(f, k)]] \in Placed
  BY <1>1, <1>3 DEF Placed
<1>7. InOrder(f) \in Seq(Placed) /\ Len(InOrder(f)) = N
  BY <1>1, <1>5, <1>6
<1>8. \A k, m \in 1 .. N : InOrder(f)[k].index = InOrder(f)[m].index => k = m
  <2> TAKE k, m \in 1 .. N
  <2> HAVE InOrder(f)[k].index = InOrder(f)[m].index
  <2>1. Nth(f, k) = Nth(f, m)
    BY <1>4
  <2>2. k - 1 = m - 1
    BY <1>3, <2>1
  <2> QED
    BY <1>1, <2>2
<1>9. \A i \in DOMAIN f : \E k \in 1 .. N : InOrder(f)[k].index = i
  <2> TAKE i \in DOMAIN f
  <2>1. rank[i] \in 0 .. N - 1
    BY <1>2
  <2> DEFINE k == rank[i] + 1
  <2>2. k \in 1 .. N /\ k - 1 = rank[i]
    BY <1>1, <2>1
  <2> HIDE DEF k
  <2>3. Nth(f, k) = i
    BY <1>2, <1>3, <2>2
  <2> QED
    BY <1>4, <2>2, <2>3
<1> QED
  BY <1>3, <1>4, <1>7, <1>8, <1>9 DEF N

\* A catalog's rows are in the order of its chapters.
LEMMA RowsInOrder ==
  ASSUME NEW s \in Seq(Entries)
  PROVE  LET list == InOrder(AsRows(s))
         IN  /\ Len(list) = Len(s)
             /\ \A k \in 1 .. Len(s) : list[k].index = k - 1 /\ list[k].entry = s[k]
<1> DEFINE f == AsRows(s)
           n == Len(s)
           list == InOrder(f)
<1>1. f \in Tables /\ DOMAIN f = 0 .. n - 1 /\ Size(f) = n /\ n \in Nat
  BY RowsOf
<1>2. /\ Len(list) = n
      /\ \A k \in 1 .. n : list[k].index \in DOMAIN f /\ list[k].entry = f[list[k].index]
  BY <1>1, InOrderIs
<1>3. \A i \in 0 .. n - 1 : Cardinality(Before(f, i)) = i
  <2> TAKE i \in 0 .. n - 1
  <2>1. Before(f, i) = 0 .. i - 1
    BY <1>1 DEF Before
  <2>2. 0 \in Int /\ i - 1 \in Int
    BY <1>1
  <2>3. Cardinality(0 .. i - 1) = IF 0 > i - 1 THEN 0 ELSE i - 1 - 0 + 1
    BY <2>2, FS_Interval
  <2> QED
    BY <2>1, <2>3
<1>4. \A k \in 1 .. n : list[k].index = k - 1
  <2> TAKE k \in 1 .. n
  <2>1. list[k].index = Nth(f, k)
    BY <1>1 DEF InOrder
  <2>2. k - 1 \in 0 .. n - 1
    BY <1>1
  <2>3. k - 1 \in DOMAIN f /\ Cardinality(Before(f, k - 1)) = k - 1
    BY <1>1, <1>3, <2>2
  <2>4. Nth(f, k) \in DOMAIN f /\ Cardinality(Before(f, Nth(f, k))) = k - 1
    BY <2>3 DEF Nth
  <2> QED
    BY <1>1, <1>3, <2>1, <2>4
<1>5. \A k \in 1 .. n : list[k].entry = s[k]
  <2> TAKE k \in 1 .. n
  <2>1. list[k].entry = f[k - 1] /\ k - 1 \in 0 .. n - 1
    BY <1>1, <1>2, <1>4
  <2>2. f[k - 1] = s[(k - 1) + 1]
    BY <2>1 DEF AsRows
  <2>3. (k - 1) + 1 = k
    OBVIOUS
  <2> QED
    BY <2>1, <2>2, <2>3
<1> QED
  BY <1>2, <1>4, <1>5

-----------------------------------------------------------------------------

ShelfInv ==
    /\ shelf \in Shelves /\ rows \in Tables /\ content \in Tables
    /\ rows # NoEntries \/ content # NoEntries => shelf.on
    /\ progress \in Nat \union {-1} /\ (progress >= 0 => shelf.on)
    /\ mem \in States /\ alive \in BOOLEAN /\ dropped \in BOOLEAN
    /\ plan \in [Requests -> Nat]
    /\ \A c \in seen : \E s \in Seq(Entries) : c = AsRows(s)

\* A request's local variables, at each place.
JobFits(where, j) ==
    /\ where \in {"text", "download", "keep"} => j.at \in DOMAIN j.known /\ j.want = j.known[j.at].url
    /\ where \notin {"keep", "answer", "line"} => j.text = NoText
    /\ where \in {"measure", "replace", "publish", "again"} => Legible(j.known)
JobsInv ==
    /\ rpc \in [Readers -> ReaderPlaces] /\ job \in [Readers -> Jobs]
    /\ \A r \in Readers : JobFits(rpc[r], job[r]) /\ (rpc[r] = "unlist" => dropped)

\* The tasks of a download, by where they are.
Waiting == {k \in DOMAIN tasks : tasks[k].at \in {"waiting", "asking", "store"}}
Counting == {k \in DOMAIN tasks : tasks[k].at = "count"}
Reporting == {k \in DOMAIN tasks : tasks[k].at = "report"}

NoneCome == dl.next = 1 /\ dl.todo = <<>> /\ dl.cached = 0 /\ dl.failed = 0 /\ dl.done = 0
Untold == tasks = <<>> /\ reports = NoReports /\ told = 0

\* A download's counters.
CountersInv ==
    /\ dl.cached + dl.failed + Cardinality(Waiting) <= Total
    /\ alive => dl.cached + dl.failed + Cardinality(Waiting) = Total
    /\ dl.done + Cardinality(Counting) = dl.cached + dl.failed
ReportsInv ==
    /\ IsFiniteSet(DOMAIN reports) /\ told = Cardinality(DOMAIN reports)
    /\ \A n \in DOMAIN reports : n \in Nat /\ n <= dl.done /\ n <= reports[n].cached + reports[n].failed
    /\ \A k \in Reporting : tasks[k].number <= dl.done /\ tasks[k].number \notin DOMAIN reports
    /\ \A k, m \in Reporting : tasks[k].number = tasks[m].number => k = m

DownloadInv ==
    /\ dpc \in DownloadPlaces /\ dl \in Downloads
    /\ tasks \in [DOMAIN tasks -> TaskStates]
    /\ \A k, m \in DOMAIN dl.list : dl.list[k].index = dl.list[m].index => k = m
    /\ \A k \in DOMAIN dl.todo : \E m \in 1 .. dl.next - 1 : m <= Total /\ dl.todo[k] = dl.list[m]
    /\ \A k, m \in DOMAIN dl.todo : dl.todo[k].index = dl.todo[m].index => k = m
    /\ dpc \in {"idle", "catalog", "purge", "fetch", "store"} => NoneCome /\ Untold
    /\ dpc = "store" => \A k \in DOMAIN dl.list : dl.list[k].index = k - 1
    /\ dpc \in {"partition", "begin"} =>
         /\ Untold /\ dl.failed = 0 /\ dl.done = dl.cached
         /\ dl.next <= Total + 1 /\ Len(dl.todo) + dl.cached = dl.next - 1
    /\ dpc \in {"begin", "work", "shelf", "state"} => dl.next = Total + 1
    /\ dpc \in {"work", "shelf", "state"} =>
         DOMAIN tasks = DOMAIN dl.todo /\ CountersInv /\ ReportsInv
    /\ dpc \in {"shelf", "state"} => \A k \in DOMAIN tasks : tasks[k].at = "gone"

\* What the download has found or put in its place: the chapters it has come to, that are not
\* still to be downloaded.
Coming == IF dpc \in {"partition", "begin"} THEN DOMAIN dl.todo ELSE Waiting
Placing == {e \in ToSet(dl.list) :
              /\ e.index \in DOMAIN content
              /\ \E m \in 1 .. dl.next - 1 : m <= Total /\ e = dl.list[m]
              /\ \A k \in Coming : dl.todo[k] # e}
PlacedInv == ~dropped /\ alive => dl.cached <= Cardinality(Placing)

\* An entry that the source has returned for this position.
From(i, entry) == \E c \in seen : i \in DOMAIN c /\ entry.url = c[i].url
Derived(f) == \A i \in DOMAIN f : From(i, f[i])
DerivedInv ==
    /\ Derived(rows) /\ Derived(content) /\ \A r \in Readers : Derived(job[r].known)
    /\ \A k \in DOMAIN dl.list : From(dl.list[k].index, dl.list[k].entry)
TextInv == SameOrder => \A r \in Readers : job[r].text \in {job[r].want, NoText}

\* While the source keeps to its catalog.
Sizes == {0} \union {Size(c) : c \in seen}
AllStored == \E c \in seen : c # NoEntries /\ DOMAIN c \subseteq DOMAIN content
TablesSteady ==
    /\ shelf.on /\ shelf.total \in Sizes
    /\ rows = NoEntries \/ rows \in seen
    /\ DOMAIN content \subseteq DOMAIN rows
    /\ mem.full => AllStored
DownloadSteady ==
    /\ dpc # "purge"
    /\ dpc = "store" => \E c \in seen : c # NoEntries /\ dl.list = InOrder(c)
    /\ dpc \in {"partition", "begin", "work", "shelf", "state"} =>
         rows # NoEntries /\ dl.list = InOrder(rows)
JobSteady(where, j) ==
    /\ j.known = NoEntries \/ j.known \in seen
    /\ where \notin {"measure", "replace"} /\ j.known # NoEntries => rows # NoEntries
    /\ where # "again"
    /\ j.state.catalog \in Sizes /\ j.state.stored <= Size(content)
    /\ j.state.full => AllStored
SteadyInv ==
    Steady => TablesSteady /\ DownloadSteady /\ \A r \in Readers : JobSteady(rpc[r], job[r])

ReadingInv == ShelfInv /\ JobsInv /\ DownloadInv /\ PlacedInv /\ DerivedInv /\ TextInv /\ SteadyInv

-----------------------------------------------------------------------------

\* The catalog as the database gives it.
LEMMA CatalogIs ==
  ASSUME ShelfInv
  PROVE  /\ Catalog \in Tables /\ (Catalog # NoEntries => shelf.on)
         /\ Derived(rows) /\ Derived(content) => Derived(Catalog)
         /\ TablesSteady => Catalog = rows
<1> DEFINE made == [i \in DOMAIN content |-> [content[i] EXCEPT !.titled = TRUE]]
<1>1. /\ Catalog = IF Size(content) > RebuildAt /\ (rows = NoEntries \/ 2 * Size(rows) < Size(content))
                   THEN made ELSE rows
      /\ Catalog \in {made, rows}
  BY DEF Catalog
<1>2. /\ content \in Tables /\ DOMAIN content \subseteq Nat /\ IsFiniteSet(DOMAIN content)
      /\ Size(content) \in Nat /\ \A i \in DOMAIN content : content[i] \in Entries
      /\ rows \in Tables /\ DOMAIN rows \subseteq Nat /\ IsFiniteSet(DOMAIN rows) /\ Size(rows) \in Nat
  BY TableFacts DEF ShelfInv
<1>3. \A i \in DOMAIN content : made[i] \in Entries /\ made[i].url = content[i].url
  BY <1>2 DEF Entries
<1>4. made \in [DOMAIN content -> Entries]
  BY <1>3
<1>5. made \in Tables /\ DOMAIN made = DOMAIN content
  BY <1>2, <1>4, TableIs
<1>6. made # NoEntries => content # NoEntries
  BY <1>5, TableFacts
<1>7. Derived(content) => Derived(made)
  BY <1>3 DEF Derived, From
<1> HIDE DEF made
<1>8. TablesSteady => Catalog = rows
  <2> SUFFICES ASSUME TablesSteady, Size(content) > RebuildAt,
                      rows = NoEntries \/ 2 * Size(rows) < Size(content)
               PROVE  FALSE
    BY <1>1
  <2>1. DOMAIN content \in SUBSET DOMAIN rows
    BY DEF TablesSteady
  <2>2. Size(content) <= Size(rows)
    BY <1>2, <2>1, FS_Subset DEF Size
  <2>3. RebuildAt \in Nat
    BY ReadingConstants
  <2>4. rows = NoEntries => Size(rows) = 0
    BY TableFacts
  <2> QED
    BY <1>2, <2>2, <2>3, <2>4
<1> QED
  BY <1>1, <1>2, <1>5, <1>6, <1>7, <1>8 DEF ShelfInv

\* What is never taken back.
LEMMA OnlyMore ==
  ASSUME seen \subseteq seen', dropped => dropped', alive' => alive
  PROVE  /\ Steady' => Steady
         /\ SameOrder' => SameOrder
         /\ \A i, e : From(i, e) => From(i, e)'
         /\ Sizes \subseteq Sizes'
         /\ DOMAIN content \subseteq DOMAIN content' => (AllStored => AllStored')
  BY DEF Steady, SameOrder, From, Sizes, AllStored

\* What comes from a catalog still does when more catalogs have been seen.
LEMMA DerivedMore ==
  ASSUME seen \subseteq seen', NEW f, Derived(f)
  PROVE  \A i \in DOMAIN f : From(i, f[i])'
  BY DEF Derived, From

\* A table with more rows is no smaller.
LEMMA SizeMore ==
  ASSUME NEW f \in Tables, NEW g \in Tables, DOMAIN f \subseteq DOMAIN g
  PROVE  Size(f) <= Size(g)
  BY TableFacts, FS_Subset DEF Size

-----------------------------------------------------------------------------

\* A step that does not touch the download.
LEMMA DownloadStays ==
  ASSUME DownloadInv, PlacedInv, UNCHANGED download, alive' => alive, dropped => dropped',
         dropped' \/ (DOMAIN content \subseteq DOMAIN content' /\ content \in Tables)
  PROVE  DownloadInv' /\ PlacedInv'
<1>1. UNCHANGED <<dpc, dl, tasks, reports, told>>
  BY DEF download
<1>2. DownloadInv'
  <2>1. /\ UNCHANGED <<Waiting, Counting, Reporting, Total>>
        /\ NoneCome = NoneCome' /\ Untold = Untold' /\ ReportsInv = ReportsInv'
    BY <1>1 DEF Waiting, Counting, Reporting, Total, NoneCome, Untold, ReportsInv
  <2>2. CountersInv => CountersInv'
    BY <1>1, <2>1 DEF CountersInv
  <2> QED
    BY <1>1, <2>1, <2>2 DEF DownloadInv
<1>3. PlacedInv'
  <2> SUFFICES ASSUME ~dropped', alive' PROVE dl'.cached <= Cardinality(Placing')
    BY DEF PlacedInv
  <2>1. dl.cached <= Cardinality(Placing)
    BY DEF PlacedInv
  <2>2. Placing \in SUBSET Placing'
    BY <1>1 DEF Placing, Coming, Waiting, Total
  <2>3. IsFiniteSet(ToSet(dl.list)')
    <3>1. dl.list \in Seq(Placed)
      BY DEF DownloadInv, Downloads
    <3> DEFINE n == Len(dl.list)
               pick == [k \in 1 .. n |-> dl.list[k]]
    <3>2. n \in Nat
      BY <3>1
    <3>3. pick \in Surjection(1 .. n, ToSet(dl.list))
      BY <3>1 DEF ToSet, Surjection
    <3>4. IsFiniteSet(1 .. n)
      <4>1. 1 \in Int /\ n \in Int
        BY <3>2
      <4> QED
        BY <4>1, FS_Interval
    <3>5. IsFiniteSet(ToSet(dl.list))
      BY <3>3, <3>4, FS_Surjection
    <3> QED
      BY <1>1, <3>5
  <2>4. IsFiniteSet(Placing')
    <3>1. Placing' \in SUBSET ToSet(dl.list)'
      BY DEF Placing
    <3> QED
      BY <2>3, <3>1, FS_Subset
  <2>5. Cardinality(Placing) <= Cardinality(Placing')
    BY <2>2, <2>4, FS_Subset
  <2>6. Cardinality(Placing) \in Nat /\ Cardinality(Placing') \in Nat
    BY <2>2, <2>4, FS_Subset, FS_CardinalityType
  <2>7. dl.cached \in Nat
    BY DEF DownloadInv, Downloads
  <2> QED
    BY <1>1, <2>1, <2>5, <2>6, <2>7
<1> QED
  BY <1>2, <1>3

\* The rest of the readers wait, while the tables change.
LEMMA RequestKeeps ==
  ASSUME ReadingInv, NEW r \in Readers, NEW where \in ReaderPlaces, NEW j \in Jobs,
         rpc' = [rpc EXCEPT ![r] = where] \/ (rpc' = rpc /\ where = rpc[r]),
         job' = [job EXCEPT ![r] = j] \/ (job' = job /\ j = job[r]),
         UNCHANGED <<alive, download>>, ShelfInv',
         seen \subseteq seen', dropped => dropped',
         dropped' \/ DOMAIN content \subseteq DOMAIN content',
         JobFits(where, j), where = "unlist" => dropped',
         Derived(rows)', Derived(content)', \A i \in DOMAIN j.known : From(i, j.known[i])',
         SameOrder' => j.text \in {j.want, NoText},
         Steady' => /\ TablesSteady' /\ (rows # NoEntries => rows' = rows)
                    /\ \A a \in {where}, k \in {j} : JobSteady(a, k)'
  PROVE  ReadingInv'
<1>1. rpc \in [Readers -> ReaderPlaces] /\ job \in [Readers -> Jobs]
  BY DEF ReadingInv, JobsInv
<1>2. /\ rpc' \in [Readers -> ReaderPlaces] /\ rpc'[r] = where
      /\ \A q \in Readers \ {r} : rpc'[q] = rpc[q]
  BY <1>1
<1>3. /\ job' \in [Readers -> Jobs] /\ job'[r] = j
      /\ \A q \in Readers \ {r} : job'[q] = job[q]
  BY <1>1
<1>4. JobsInv'
  <2> SUFFICES ASSUME NEW q \in Readers PROVE JobFits(rpc'[q], job'[q]) /\ (rpc'[q] = "unlist" => dropped')
    BY <1>2, <1>3 DEF JobsInv
  <2>1. CASE q = r
    BY <1>2, <1>3, <2>1
  <2>2. CASE q # r
    BY <1>2, <1>3, <2>2 DEF ReadingInv, JobsInv
  <2> QED
    BY <2>1, <2>2
<1>5. DownloadInv' /\ PlacedInv'
  BY DownloadStays DEF ReadingInv, ShelfInv
<1>6. DerivedInv'
  <2>1. ASSUME NEW q \in Readers PROVE Derived(job[q].known)'
    <3>1. CASE q = r
      BY <1>3, <3>1 DEF Derived
    <3>2. CASE q # r
      <4>1. PICK f : f = job[q].known
        OBVIOUS
      <4>2. Derived(f)
        BY <4>1 DEF ReadingInv, DerivedInv
      <4>3. \A i \in DOMAIN f : From(i, f[i])'
        BY <4>2, DerivedMore
      <4>4. job'[q].known = f
        BY <1>3, <3>2, <4>1
      <4> QED
        BY <4>3, <4>4 DEF Derived
    <3> QED
      BY <3>1, <3>2
  <2>2. \A k \in DOMAIN dl'.list : From(dl.list[k].index, dl.list[k].entry)'
    BY OnlyMore DEF ReadingInv, DerivedInv, download
  <2> QED
    BY <2>1, <2>2 DEF DerivedInv, download
<1>7. TextInv'
  <2> SUFFICES ASSUME SameOrder', NEW q \in Readers PROVE job'[q].text \in {job'[q].want, NoText}
    BY DEF TextInv
  <2>1. CASE q = r
    BY <1>3, <2>1
  <2>2. CASE q # r
    BY <1>3, <2>2, OnlyMore DEF ReadingInv, TextInv
  <2> QED
    BY <2>1, <2>2
<1>8. SteadyInv'
  <2> SUFFICES ASSUME Steady'
               PROVE  TablesSteady' /\ DownloadSteady' /\ \A q \in Readers : JobSteady(rpc[q], job[q])'
    BY DEF SteadyInv
  <2>1. TablesSteady' /\ (rows # NoEntries => rows' = rows)
    OBVIOUS
  <2>2. /\ Steady /\ Sizes \subseteq Sizes' /\ (AllStored => AllStored')
        /\ DownloadSteady /\ \A q \in Readers : JobSteady(rpc[q], job[q])
    BY OnlyMore DEF ReadingInv, SteadyInv, Steady
  <2>3. DownloadSteady'
    BY <2>1, <2>2 DEF DownloadSteady, download
  <2>4. Size(content) <= Size(content') /\ Size(content) \in Nat /\ Size(content') \in Nat
    BY SizeMore, TableFacts DEF ReadingInv, ShelfInv, Steady
  <2>5. ASSUME NEW q \in Readers PROVE JobSteady(rpc[q], job[q])'
    <3>1. CASE q = r
      <4>1. \A a \in {where}, k \in {j} : JobSteady(a, k)'
        OBVIOUS
      <4> QED
        BY <1>2, <1>3, <3>1, <4>1 DEF JobSteady
    <3>2. CASE q # r
      <4>1. JobSteady(rpc[q], job[q]) /\ rpc'[q] = rpc[q] /\ job'[q] = job[q]
        BY <1>2, <1>3, <2>2, <3>2
      <4>2. job[q].state.stored \in Nat
        BY <1>1 DEF Jobs, States
      <4> QED
        BY <2>1, <2>2, <2>4, <4>1, <4>2 DEF JobSteady
    <3> QED
      BY <3>1, <3>2
  <2> QED
    BY <2>1, <2>3, <2>5
<1> QED
  BY <1>4, <1>5, <1>6, <1>7, <1>8 DEF ReadingInv

\* All readers wait, while the download goes on.
LEMMA DownloadKeeps ==
  ASSUME ReadingInv, UNCHANGED <<rpc, job, dropped>>, alive' => alive,
         seen \subseteq seen', DOMAIN content \subseteq DOMAIN content',
         ShelfInv', DownloadInv', PlacedInv', Derived(rows)', Derived(content)',
         \A k \in DOMAIN dl'.list : From(dl.list[k].index, dl.list[k].entry)',
         Steady' => TablesSteady' /\ DownloadSteady' /\ (rows # NoEntries => rows' = rows)
  PROVE  ReadingInv'
<1>1. JobsInv'
  BY DEF ReadingInv, JobsInv
<1>2. DerivedInv'
  <2>1. ASSUME NEW q \in Readers PROVE Derived(job[q].known)'
    <3>1. Derived(job[q].known)
      BY DEF ReadingInv, DerivedInv
    <3>2. \A i \in DOMAIN job[q].known : From(i, job[q].known[i])'
      BY <3>1, DerivedMore
    <3> QED
      BY <3>2 DEF Derived
  <2> QED
    BY <2>1 DEF DerivedInv
<1>3. TextInv'
  BY OnlyMore DEF ReadingInv, TextInv
<1>4. SteadyInv'
  <2> SUFFICES ASSUME Steady' PROVE \A q \in Readers : JobSteady(rpc[q], job[q])'
    BY DEF SteadyInv
  <2>1. rows # NoEntries => rows' = rows
    OBVIOUS
  <2>2. /\ Steady /\ Sizes \subseteq Sizes' /\ (AllStored => AllStored')
        /\ \A q \in Readers : JobSteady(rpc[q], job[q])
    BY OnlyMore DEF ReadingInv, SteadyInv
  <2>3. Size(content) <= Size(content') /\ Size(content) \in Nat /\ Size(content') \in Nat
    BY SizeMore, TableFacts DEF ReadingInv, ShelfInv
  <2>4. ASSUME NEW q \in Readers PROVE JobSteady(rpc[q], job[q])'
    <3>1. JobSteady(rpc[q], job[q])
      BY <2>2
    <3>2. job[q].state.stored \in Nat
      BY DEF ReadingInv, JobsInv, Jobs, States
    <3> QED
      BY <2>1, <2>2, <2>3, <3>1, <3>2 DEF JobSteady
  <2> QED
    BY <2>4
<1> QED
  BY <1>1, <1>2, <1>3, <1>4 DEF ReadingInv

\* What is known of a request.
LEMMA JobNow ==
  ASSUME ReadingInv, NEW r \in Readers
  PROVE  /\ rpc[r] \in ReaderPlaces /\ job[r] \in Jobs /\ JobFits(rpc[r], job[r])
         /\ rpc \in [Readers -> ReaderPlaces] /\ job \in [Readers -> Jobs]
         /\ \A i \in DOMAIN job[r].known : From(i, job[r].known[i])
         /\ SameOrder => job[r].text \in {job[r].want, NoText}
         /\ Steady => JobSteady(rpc[r], job[r])
         /\ job[r].known \in Tables /\ job[r].want \in Texts /\ job[r].text \in Texts
         /\ job[r].at \in Nat /\ job[r].state \in States
<1>1. rpc \in [Readers -> ReaderPlaces] /\ job \in [Readers -> Jobs] /\ job[r] \in Jobs
  BY DEF ReadingInv, JobsInv
<1>2. /\ rpc[r] \in ReaderPlaces /\ JobFits(rpc[r], job[r])
  BY DEF ReadingInv, JobsInv
<1>3. /\ \A i \in DOMAIN job[r].known : From(i, job[r].known[i])
      /\ SameOrder => job[r].text \in {job[r].want, NoText}
  BY DEF ReadingInv, DerivedInv, TextInv, Derived
<1>4. Steady => JobSteady(rpc[r], job[r])
  BY DEF ReadingInv, SteadyInv
<1>5. /\ job[r].known \in Tables /\ job[r].want \in Texts /\ job[r].text \in Texts
      /\ job[r].at \in Nat /\ job[r].state \in States
  BY <1>1 DEF Jobs
<1> QED
  BY <1>1, <1>2, <1>3, <1>4, <1>5

\* The state of a book that nobody has looked at.
LEMMA NoStateIs ==
  NoState \in States /\ NoState.catalog = 0 /\ NoState.stored = 0 /\ NoState.full = FALSE
<1>1. 0 \in Nat /\ -1 \in Int /\ FALSE \in BOOLEAN
  OBVIOUS
<1> QED
  BY <1>1, Zenon DEF NoState, States

\* A plan that is begun leaves fewer requests of its kind.
LEMMA PlanKept ==
  ASSUME ReadingInv, NEW k \in Requests, Plan(k)
  PROVE  plan' \in [Requests -> Nat]
<1>1. plan \in [Requests -> Nat] /\ plan[k] > 0 /\ plan' = [plan EXCEPT ![k] = @ - 1]
  BY DEF ReadingInv, ShelfInv, Plan
<1> QED
  BY <1>1

\* A request goes on, and the tables stay.
LEMMA QuietRequest ==
  ASSUME ReadingInv, NEW r \in Readers, NEW where \in ReaderPlaces, NEW j \in Jobs,
         rpc' = [rpc EXCEPT ![r] = where] \/ (rpc' = rpc /\ where = rpc[r]),
         job' = [job EXCEPT ![r] = j] \/ (job' = job /\ j = job[r]),
         UNCHANGED <<tablesOf, mem, alive, download, seen, dropped>>,
         plan' \in [Requests -> Nat],
         JobFits(where, j), where # "unlist",
         \A i \in DOMAIN j.known : From(i, j.known[i]),
         SameOrder => j.text \in {j.want, NoText},
         Steady => JobSteady(where, j)
  PROVE  ReadingInv'
<1>1. UNCHANGED <<shelf, rows, content, progress, mem, alive, download, seen, dropped>>
  BY DEF tablesOf
<1>2. ShelfInv'
  BY <1>1 DEF ReadingInv, ShelfInv
<1>3. Derived(rows)' /\ Derived(content)' /\ \A i \in DOMAIN j.known : From(i, j.known[i])'
  BY <1>1 DEF ReadingInv, DerivedInv, Derived, From
<1>4. SameOrder' => j.text \in {j.want, NoText}
  BY <1>1 DEF SameOrder
<1>5. Steady' => Steady /\ TablesSteady'
  BY <1>1 DEF ReadingInv, SteadyInv, Steady, TablesSteady, Sizes, AllStored
<1>6. Steady' => \A a \in {where}, k \in {j} : JobSteady(a, k)'
  BY <1>1, <1>5 DEF JobSteady, Sizes, AllStored
<1> QED
  BY <1>1, <1>2, <1>3, <1>4, <1>5, <1>6, RequestKeeps

\* While the source keeps to its catalog, it is never refused.
LEMMA NeverRefused ==
  ASSUME ReadingInv, Steady, NEW r \in Readers, rpc[r] = "measure"
  PROVE  MayReplace(Size(rows), job[r].known)
<1>1. job[r].known \in seen /\ job[r].known # NoEntries /\ Legible(job[r].known) /\ job[r].known \in Tables
  BY JobNow, TableFacts DEF JobFits, JobSteady, Legible
<1>2. rows = NoEntries \/ rows = job[r].known
  BY <1>1 DEF ReadingInv, SteadyInv, TablesSteady, Steady
<1>3. ~Garbage(job[r].known)
  BY <1>1 DEF Garbage, Legible
<1>4. Size(job[r].known) \in Nat /\ Few \in Nat
  BY <1>1, TableFacts, ReadingConstants
<1>5. CASE rows = NoEntries
  BY <1>4, <1>5, TableFacts DEF MayReplace
<1>6. CASE rows = job[r].known
  <2>1. Size(job[r].known) >= Size(job[r].known) \div 2
    BY <1>4
  <2> QED
    BY <1>3, <1>6, <2>1 DEF MayReplace
<1> QED
  BY <1>2, <1>5, <1>6

\* A request begins, or its catalog is measured.
LEMMA OpenKeeps ==
  ASSUME ReadingInv, NEW r \in Readers, Open(r) \/ Refresh(r) \/ Measure(r)
  PROVE  ReadingInv'
<1>1. PICK where \in {"look", "ask", "replace", "again"} :
        /\ rpc' = [rpc EXCEPT ![r] = where]
        /\ where \in {"look", "ask"} => rpc[r] = "idle"
        /\ where \in {"replace", "again"} => rpc[r] = "measure"
        /\ where = "again" => ~MayReplace(Size(rows), job[r].known)
  BY DEF Open, Refresh, Measure, Starts, Goes
<1>2. plan' \in [Requests -> Nat]
  <2>1. "open" \in Requests /\ "refresh" \in Requests
    BY DEF Requests
  <2>2. plan' = plan \/ Plan("open") \/ Plan("refresh")
    BY DEF Open, Refresh, Measure, Starts
  <2>3. plan \in [Requests -> Nat]
    BY DEF ReadingInv, ShelfInv
  <2> QED
    BY <2>1, <2>2, <2>3, PlanKept
<1>3. job' = job /\ UNCHANGED <<tablesOf, mem, alive, download, seen, dropped>>
  BY DEF Open, Refresh, Measure
<1>4. where \in ReaderPlaces /\ where # "unlist"
  BY DEF ReaderPlaces
<1>5. JobFits(where, job[r])
  BY <1>1, JobNow DEF JobFits
<1>6. Steady => JobSteady(where, job[r])
  <2>1. CASE where = "again"
    BY <1>1, <2>1, NeverRefused
  <2>2. CASE where # "again"
    BY <1>1, <2>2, JobNow DEF JobSteady
  <2> QED
    BY <2>1, <2>2
<1> QED
  BY <1>1, <1>2, <1>3, <1>4, <1>5, <1>6, JobNow, QuietRequest

\* openBookSession counts.
LEMMA CountKeeps ==
  ASSUME ReadingInv, NEW r \in Readers, CountRows(r) \/ CountContents(r) \/ ReadRow(r)
  PROVE  ReadingInv'
<1>1. /\ rpc[r] \in {"count", "contents", "row"}
      /\ UNCHANGED <<tablesOf, mem, alive, download, plan, seen, dropped>>
  BY DEF CountRows, CountContents, ReadRow
<1>2. /\ job[r] \in Jobs /\ job \in [Readers -> Jobs] /\ job[r].state \in States /\ job[r].text = NoText
      /\ Size(rows) \in Nat /\ Size(content) \in Nat /\ progress \in Int /\ shelf \in Shelves
  BY <1>1, JobNow, TableFacts DEF JobFits, ReadingInv, ShelfInv
<1>3. PICK state \in States, where \in {"contents", "row", "session"} :
        /\ rpc' = [rpc EXCEPT ![r] = where]
        /\ job' = [job EXCEPT ![r] = [job[r] EXCEPT !.state = state]]
        /\ Steady => /\ state.catalog \in Sizes /\ state.stored <= Size(content)
                     /\ state.full => AllStored
  <2>1. CASE CountRows(r)
    <3> DEFINE state == [NoState EXCEPT !.catalog = Size(rows)]
    <3>1. rpc' = [rpc EXCEPT ![r] = "contents"] /\ job' = [job EXCEPT ![r] = [job[r] EXCEPT !.state = state]]
      BY <1>2, <2>1 DEF CountRows, Goes
    <3>2. state \in States /\ state.catalog = Size(rows) /\ state.stored = 0 /\ state.full = FALSE
      <4>1. NoState \in States /\ NoState.stored = 0 /\ NoState.full = FALSE
        BY NoStateIs
      <4> HIDE DEF NoState
      <4> QED
        BY <1>2, <4>1 DEF States
    <3>3. Steady => Size(rows) \in Sizes
      BY TableFacts DEF ReadingInv, SteadyInv, TablesSteady, Sizes
    <3> HIDE DEF state
    <3>4. Steady => /\ state.catalog \in Sizes /\ state.stored <= Size(content)
                    /\ state.full => AllStored
      BY <1>2, <3>2, <3>3
    <3> QED
      BY <3>1, <3>2, <3>4
  <2>2. CASE CountContents(r)
    <3> DEFINE state == [job[r].state EXCEPT !.stored = Size(content), !.at = progress]
    <3>1. rpc' = [rpc EXCEPT ![r] = "row"] /\ job' = [job EXCEPT ![r] = [job[r] EXCEPT !.state = state]]
      BY <1>2, <2>2 DEF CountContents, Goes, Jobs
    <3>2. /\ state \in States /\ state.catalog = job[r].state.catalog /\ state.stored = Size(content)
          /\ state.full = job[r].state.full
      BY <1>2 DEF States
    <3>3. Steady => job[r].state.catalog \in Sizes /\ (job[r].state.full => AllStored)
      BY JobNow DEF JobSteady
    <3> HIDE DEF state
    <3>4. Steady => /\ state.catalog \in Sizes /\ state.stored <= Size(content)
                    /\ state.full => AllStored
      BY <1>2, <3>2, <3>3
    <3> QED
      BY <3>1, <3>2, <3>4
  <2>3. CASE ReadRow(r)
    <3> DEFINE old == job[r].state
               total == IF shelf.on /\ shelf.total > 0 THEN shelf.total ELSE old.catalog
               update == shelf.on /\ shelf.update
               full == Fully(total, old.stored)
               state == [old EXCEPT !.on = TRUE, !.total = total, !.update = update, !.full = full]
    <3>1. rpc' = [rpc EXCEPT ![r] = "session"] /\ job' = [job EXCEPT ![r] = [job[r] EXCEPT !.state = state]]
      BY <1>2, <2>3 DEF ReadRow, Goes
    <3>2. old \in States /\ old.stored \in Nat /\ old.catalog \in Nat
      BY <1>2 DEF States
    <3>3. total \in Nat /\ update \in BOOLEAN /\ full \in BOOLEAN
      BY <1>2, <3>2 DEF Shelves, Fully
    <3>4. Steady => old.catalog \in Sizes /\ old.stored <= Size(content) /\ shelf.total \in Sizes
      BY JobNow DEF JobSteady, ReadingInv, SteadyInv, TablesSteady
    <3>5. Steady => total \in Sizes
      BY <3>4
    <3> HIDE DEF old, total, update
    <3>6. ASSUME Steady, full PROVE AllStored
      <4>1. total > 0 /\ old.stored >= total /\ old.stored <= Size(content)
        BY <3>4, <3>6 DEF Fully
      <4>2. PICK c \in seen : total = Size(c)
        BY <3>5, <3>6, <4>1 DEF Sizes
      <4>3. c \in Tables /\ c # NoEntries
        BY <4>1, <4>2, RowsOf, TableFacts DEF ReadingInv, ShelfInv
      <4>4. content # NoEntries
        BY <1>2, <3>2, <3>3, <4>1, TableFacts
      <4>5. DOMAIN content \subseteq DOMAIN rows /\ (rows = NoEntries \/ rows \in seen)
            /\ content \in Tables /\ rows \in Tables
        BY <3>6 DEF ReadingInv, SteadyInv, TablesSteady, ShelfInv
      <4>6. rows # NoEntries
        BY <4>4, <4>5, TableFacts
      <4>7. rows = c
        BY <3>6, <4>3, <4>5, <4>6 DEF Steady
      <4>8. Size(content) >= Size(c)
        BY <1>2, <3>2, <3>3, <4>1, <4>2
      <4>9. IsFiniteSet(DOMAIN c) /\ DOMAIN content \in SUBSET DOMAIN c
        BY <4>3, <4>5, <4>7, TableFacts
      <4>10. Size(content) <= Size(c) /\ (Size(c) = Size(content) => DOMAIN c = DOMAIN content)
        BY <4>9, FS_Subset DEF Size
      <4>11. DOMAIN c = DOMAIN content
        BY <1>2, <4>2, <4>8, <4>10, <3>3
      <4> QED
        BY <4>3, <4>11 DEF AllStored
    <3> HIDE DEF full
    <3>7. /\ state \in States /\ state.catalog = old.catalog /\ state.stored = old.stored
          /\ state.full = full
      BY <3>2, <3>3 DEF States
    <3> HIDE DEF state
    <3> QED
      BY <1>2, <3>1, <3>4, <3>6, <3>7
  <2> QED
    BY <2>1, <2>2, <2>3, <1>1 DEF CountRows, CountContents, ReadRow
<1> DEFINE j == [job[r] EXCEPT !.state = state]
<1>4. /\ j \in Jobs /\ j.known = job[r].known /\ j.text = job[r].text /\ j.want = job[r].want
      /\ j.at = job[r].at /\ j.state = state
  BY <1>2 DEF Jobs
<1>5. where \in ReaderPlaces /\ where # "unlist"
  BY DEF ReaderPlaces
<1> HIDE DEF j
<1>6. JobFits(where, j)
  BY <1>2, <1>4 DEF JobFits
<1>7. Steady => JobSteady(where, j)
  BY <1>1, <1>3, <1>4, JobNow DEF JobSteady
<1>8. (\A i \in DOMAIN j.known : From(i, j.known[i])) /\ (SameOrder => j.text \in {j.want, NoText})
  BY <1>4, JobNow
<1>9. plan' \in [Requests -> Nat] /\ job' = [job EXCEPT ![r] = j]
  BY <1>1, <1>3 DEF ReadingInv, ShelfInv, j
<1> QED
  BY <1>1, <1>3, <1>4, <1>5, <1>6, <1>7, <1>8, <1>9, QuietRequest

\* getContentWithCache: up to the text.
LEMMA ReadKeeps ==
  ASSUME ReadingInv, NEW r \in Readers, Read(r) \/ ReadStored(r) \/ ReadFetched(r) \/ Answer(r)
  PROVE  ReadingInv'
<1>1. /\ job[r] \in Jobs /\ job \in [Readers -> Jobs] /\ job[r].known \in Tables
      /\ job[r].want \in Texts /\ JobFits(rpc[r], job[r]) /\ content \in Tables
  BY JobNow DEF ReadingInv, ShelfInv
<1>2. /\ UNCHANGED <<tablesOf, mem, alive, download, seen, dropped>>
      /\ rpc[r] \in {"idle", "text", "download", "answer"}
  BY DEF Read, ReadStored, ReadFetched, Answer, Starts
<1>3. plan' \in [Requests -> Nat]
  <2>1. "read" \in Requests
    BY DEF Requests
  <2>2. plan' = plan \/ Plan("read")
    BY DEF Read, ReadStored, ReadFetched, Answer, Starts
  <2> QED
    BY <2>1, <2>2, PlanKept DEF ReadingInv, ShelfInv
<1>4. PICK where \in {"text", "answer", "download", "keep", "idle"}, i \in Nat, want \in Texts, text \in Texts :
        /\ rpc' = [rpc EXCEPT ![r] = where]
        /\ job' = [job EXCEPT ![r] = [job[r] EXCEPT !.at = i, !.want = want, !.text = text]]
        /\ where \in {"text", "download", "keep"} =>
             i \in DOMAIN job[r].known /\ want = job[r].known[i].url
        /\ where \notin {"keep", "answer"} => text = NoText
        /\ SameOrder => text \in {want, NoText}
  <2>1. CASE Read(r)
    <3>1. PICK i \in DOMAIN job[r].known :
            job' = [job EXCEPT ![r].at = i, ![r].want = job[r].known[i].url]
      BY <2>1 DEF Read
    <3>2. rpc' = [rpc EXCEPT ![r] = "text"] /\ rpc[r] = "idle"
      BY <2>1 DEF Read, Starts, Goes
    <3>3. job[r].text = NoText
      BY <1>1, <3>2 DEF JobFits
    <3>4. i \in Nat /\ job[r].known[i].url \in Texts /\ NoText \in Texts
      BY <1>1, TableFacts DEF Entries, Texts
    <3>5. job' = [job EXCEPT ![r] = [job[r] EXCEPT !.at = i, !.want = job[r].known[i].url, !.text = NoText]]
      BY <1>1, <3>1, <3>3 DEF Jobs
    <3> QED
      BY <3>2, <3>4, <3>5
  <2>2. CASE ReadStored(r)
    <3>1. /\ rpc[r] = "text" /\ job[r].at \in DOMAIN job[r].known
          /\ job[r].want = job[r].known[job[r].at].url /\ job[r].text = NoText
      BY <1>1, <2>2 DEF ReadStored, JobFits
    <3>2. CASE job[r].at \in DOMAIN content
      <4>1. content[job[r].at].url \in Texts /\ job[r].at \in Nat
        BY <1>1, <3>1, <3>2, TableFacts DEF Entries, Texts
      <4>2. rpc' = [rpc EXCEPT ![r] = "answer"]
        BY <2>2, <3>2 DEF ReadStored, Goes
      <4>3. job' = [job EXCEPT ![r] = [job[r] EXCEPT !.at = job[r].at, !.want = job[r].want,
                                                      !.text = content[job[r].at].url]]
        BY <1>1, <2>2, <3>2 DEF ReadStored, Jobs
      <4>4. SameOrder => content[job[r].at].url = job[r].want
        <5>1. From(job[r].at, job[r].known[job[r].at]) /\ From(job[r].at, content[job[r].at])
          BY <3>1, <3>2, JobNow DEF ReadingInv, DerivedInv, Derived
        <5> QED
          BY <3>1, <5>1 DEF From, SameOrder
      <4> QED
        BY <1>1, <4>1, <4>2, <4>3, <4>4
    <3>3. CASE job[r].at \notin DOMAIN content
      <4>1. job' = job /\ rpc' = [rpc EXCEPT ![r] = "download"]
        BY <2>2, <3>3 DEF ReadStored, Goes
      <4>2. job' = [job EXCEPT ![r] = [job[r] EXCEPT !.at = job[r].at, !.want = job[r].want,
                                                      !.text = NoText]]
        BY <1>1, <3>1, <4>1 DEF Jobs
      <4>3. job[r].at \in Nat /\ NoText \in Texts
        BY JobNow DEF Texts
      <4> QED
        BY <1>1, <3>1, <4>1, <4>2, <4>3
    <3> QED
      BY <3>2, <3>3
  <2>3. CASE ReadFetched(r)
    <3>1. /\ rpc[r] = "download" /\ job[r].at \in DOMAIN job[r].known /\ job[r].at \in Nat
          /\ job[r].want = job[r].known[job[r].at].url /\ NoText \in Texts
      BY <1>1, <2>3, JobNow DEF ReadFetched, JobFits, Texts
    <3>2. PICK where \in {"keep", "answer"}, text \in {job[r].want, NoText} :
            rpc' = [rpc EXCEPT ![r] = where] /\ job' = [job EXCEPT ![r].text = text]
      BY <2>3 DEF ReadFetched, Goes
    <3>3. job' = [job EXCEPT ![r] = [job[r] EXCEPT !.at = job[r].at, !.want = job[r].want, !.text = text]]
      BY <1>1, <3>2 DEF Jobs
    <3> DEFINE want == job[r].want
               i == job[r].at
    <3>4. /\ i \in Nat /\ want \in Texts /\ text \in Texts /\ text \in {want, NoText}
          /\ i \in DOMAIN job[r].known /\ want = job[r].known[i].url
      BY <1>1, <3>1
    <3>5. job' = [job EXCEPT ![r] = [job[r] EXCEPT !.at = i, !.want = want, !.text = text]]
      BY <3>3
    <3> HIDE DEF want, i
    <3> QED
      BY <3>2, <3>4, <3>5
  <2>4. CASE Answer(r)
    <3>1. /\ rpc' = [rpc EXCEPT ![r] = "idle"]
          /\ job' = [job EXCEPT ![r] = [job[r] EXCEPT !.at = 0, !.want = NoText, !.text = NoText]]
      BY <1>1, <2>4 DEF Answer, Goes, Jobs
    <3>2. 0 \in Nat /\ NoText \in Texts
      BY DEF Texts
    <3> QED
      BY <3>1, <3>2
  <2> QED
    BY <2>1, <2>2, <2>3, <2>4
<1> DEFINE j == [job[r] EXCEPT !.at = i, !.want = want, !.text = text]
<1>5. /\ j \in Jobs /\ j.known = job[r].known /\ j.text = text /\ j.want = want
      /\ j.at = i /\ j.state = job[r].state
  BY <1>1 DEF Jobs
<1>6. where \in ReaderPlaces /\ where # "unlist"
  BY DEF ReaderPlaces
<1>7. job' = [job EXCEPT ![r] = j]
  BY <1>4
<1> HIDE DEF j
<1>8. JobFits(where, j)
  BY <1>4, <1>5 DEF JobFits
<1>9. Steady => JobSteady(where, j)
  BY <1>2, <1>4, <1>5, JobNow DEF JobSteady
<1>10. (\A k \in DOMAIN j.known : From(k, j.known[k])) /\ (SameOrder => j.text \in {j.want, NoText})
  BY <1>4, <1>5, JobNow
<1> QED
  BY <1>2, <1>3, <1>4, <1>5, <1>6, <1>7, <1>8, <1>9, <1>10, QuietRequest

\* A line of an export; the position of a reader.
LEMMA ExportChapterKeeps ==
  ASSUME ReadingInv, NEW r \in Readers, ExportChapter(r) \/ Save(r)
  PROVE  ReadingInv'
<1>1. /\ job[r] \in Jobs /\ job \in [Readers -> Jobs] /\ job[r].known \in Tables
      /\ job[r].want \in Texts /\ JobFits(rpc[r], job[r]) /\ content \in Tables
      /\ \A i \in DOMAIN job[r].known : i \in Nat /\ job[r].known[i] \in Entries
      /\ NoText \in Texts /\ job[r].at \in Nat
  BY JobNow, TableFacts DEF ReadingInv, ShelfInv, Texts
<1>2. /\ UNCHANGED <<tablesOf, mem, alive, download, seen, dropped>>
      /\ rpc[r] \in {"idle", "line"}
  BY DEF ExportChapter, Save, Starts
<1>3. plan' \in [Requests -> Nat]
  <2>1. "save" \in Requests
    BY DEF Requests
  <2>2. plan' = plan \/ Plan("save")
    BY DEF ExportChapter, Save, Starts
  <2> QED
    BY <2>1, <2>2, PlanKept DEF ReadingInv, ShelfInv
<1>4. PICK where \in {"line", "idle", "insert", "note"}, i \in Nat, want \in Texts, text \in Texts :
        /\ rpc' = [rpc EXCEPT ![r] = where] \/ (rpc' = rpc /\ where = rpc[r])
        /\ job' = [job EXCEPT ![r] = [job[r] EXCEPT !.at = i, !.want = want, !.text = text]]
        /\ where # "line" => text = NoText
        /\ SameOrder => text \in {want, NoText}
  <2>1. CASE ExportChapter(r)
    <3> DEFINE left == {i \in DOMAIN job[r].known : i >= job[r].at}
    <3>1. CASE left = {}
      <4>1. /\ job' = [job EXCEPT ![r].want = NoText, ![r].text = NoText]
            /\ rpc' = [rpc EXCEPT ![r] = "idle"]
        BY <2>1, <3>1 DEF ExportChapter, Goes
      <4>2. job' = [job EXCEPT ![r] = [job[r] EXCEPT !.at = job[r].at, !.want = NoText, !.text = NoText]]
        BY <1>1, <4>1 DEF Jobs
      <4> QED
        BY <1>1, <4>1, <4>2
    <3>2. CASE left # {}
      <4> DEFINE Line(i) == IF i \in DOMAIN content THEN content[i].url ELSE NoText
      <4>1. PICK i \in left :
              /\ job' = [job EXCEPT ![r].at = i + 1, ![r].want = job[r].known[i].url,
                                    ![r].text = Line(i)]
              /\ rpc' = rpc
        BY <2>1, <3>2 DEF ExportChapter
      <4>2. i \in DOMAIN job[r].known /\ i \in Nat /\ i + 1 \in Nat /\ job[r].known[i].url \in Texts
        BY <1>1 DEF Entries, Texts
      <4>3. Line(i) \in Texts
        BY <1>1, TableFacts DEF Entries, Texts
      <4>4. SameOrder => Line(i) \in {job[r].known[i].url, NoText}
        <5>1. SUFFICES ASSUME SameOrder, i \in DOMAIN content
                       PROVE  content[i].url = job[r].known[i].url
          OBVIOUS
        <5>2. From(i, job[r].known[i]) /\ From(i, content[i])
          BY <4>2, <5>1, JobNow DEF ReadingInv, DerivedInv, Derived
        <5> QED
          BY <5>1, <5>2 DEF From, SameOrder
      <4> DEFINE text == Line(i)
                 want == job[r].known[i].url
      <4>5. job' = [job EXCEPT ![r] = [job[r] EXCEPT !.at = i + 1, !.want = want, !.text = text]]
        BY <1>1, <4>1 DEF Jobs
      <4>6. rpc' = rpc /\ rpc[r] = "line"
        BY <2>1, <4>1 DEF ExportChapter
      <4>7. i + 1 \in Nat /\ want \in Texts /\ text \in Texts /\ (SameOrder => text \in {want, NoText})
        BY <4>2, <4>3, <4>4
      <4> HIDE DEF text, want
      <4> QED
        BY <4>5, <4>6, <4>7
    <3> QED
      BY <3>1, <3>2
  <2>2. CASE Save(r)
    <3>1. PICK i \in DOMAIN job[r].known : job' = [job EXCEPT ![r].at = i]
      BY <2>2 DEF Save
    <3>2. PICK where \in {"insert", "note"} : rpc[r] = "idle" /\ rpc' = [rpc EXCEPT ![r] = where]
      BY <2>2 DEF Save, Starts, Goes
    <3>3. job[r].text = NoText
      BY <1>1, <3>2 DEF JobFits
    <3>4. job' = [job EXCEPT ![r] = [job[r] EXCEPT !.at = i, !.want = job[r].want, !.text = NoText]]
      BY <1>1, <3>1, <3>3 DEF Jobs
    <3>5. i \in Nat
      BY <1>1
    <3> QED
      BY <1>1, <3>2, <3>4, <3>5
  <2> QED
    BY <2>1, <2>2
<1> DEFINE j == [job[r] EXCEPT !.at = i, !.want = want, !.text = text]
<1>5. /\ j \in Jobs /\ j.known = job[r].known /\ j.text = text /\ j.want = want
      /\ j.at = i /\ j.state = job[r].state
  BY <1>1 DEF Jobs
<1>6. where \in ReaderPlaces /\ where # "unlist"
  BY DEF ReaderPlaces
<1>7. job' = [job EXCEPT ![r] = j]
  BY <1>4
<1> HIDE DEF j
<1>8. JobFits(where, j)
  BY <1>4, <1>5 DEF JobFits
<1>9. Steady => JobSteady(where, j)
  BY <1>2, <1>4, <1>5, JobNow DEF JobSteady
<1>10. (\A k \in DOMAIN j.known : From(k, j.known[k])) /\ (SameOrder => j.text \in {j.want, NoText})
  BY <1>4, <1>5, JobNow
<1> QED
  BY <1>2, <1>3, <1>4, <1>5, <1>6, <1>7, <1>8, <1>9, <1>10, QuietRequest

\* A refresh asks the source.
LEMMA FetchCatalogKeeps ==
  ASSUME ReadingInv, NEW r \in Readers, FetchCatalog(r)
  PROVE  ReadingInv'
<1>1. PICK c \in Catalogs :
        /\ seen' = seen \union {AsRows(c)}
        /\ job' = [job EXCEPT ![r].known = AsRows(c)]
        /\ rpc' = [rpc EXCEPT ![r] = IF Legible(AsRows(c)) THEN "measure" ELSE "idle"]
  BY DEF FetchCatalog, Goes
<1>2. rpc[r] = "ask" /\ UNCHANGED <<shelf, rows, content, progress, mem, alive, download, plan, dropped>>
  BY DEF FetchCatalog, tablesOf
<1>3. c \in Seq(Entries)
  BY ReadingConstants
<1>4. PICK f : f = AsRows(c)
  OBVIOUS
<1>5. f \in Tables /\ f \in seen'
  BY <1>1, <1>3, <1>4, RowsOf
<1>6. PICK where \in {"measure", "idle"} :
        where = (IF Legible(f) THEN "measure" ELSE "idle") /\ rpc' = [rpc EXCEPT ![r] = where]
  BY <1>1, <1>4
<1>7. PICK j : j = [job[r] EXCEPT !.known = f]
  OBVIOUS
<1>8. /\ job[r] \in Jobs /\ job \in [Readers -> Jobs] /\ job[r].text = NoText
  BY <1>2, JobNow DEF JobFits
<1>9. /\ j \in Jobs /\ j.known = f /\ j.text = NoText /\ j.state = job[r].state
      /\ job' = [job EXCEPT ![r] = j]
  BY <1>1, <1>4, <1>5, <1>7, <1>8 DEF Jobs
<1>10. where \in ReaderPlaces /\ where # "unlist"
  BY DEF ReaderPlaces
<1>11. JobFits(where, j)
  BY <1>6, <1>9 DEF JobFits
<1>12. ShelfInv'
  BY <1>1, <1>2, <1>3 DEF ReadingInv, ShelfInv
<1>13. seen \subseteq seen' /\ Derived(rows)' /\ Derived(content)'
  <2>1. seen \subseteq seen'
    BY <1>1
  <2> QED
    BY <1>2, <2>1, OnlyMore DEF ReadingInv, DerivedInv, Derived
<1>14. \A i \in DOMAIN j.known : From(i, j.known[i])'
  BY <1>5, <1>9 DEF From
<1>15. ASSUME Steady'
       PROVE  /\ TablesSteady' /\ (rows # NoEntries => rows' = rows)
              /\ \A a \in {where}, k \in {j} : JobSteady(a, k)'
  <2>1. Steady /\ Sizes \subseteq Sizes' /\ (AllStored => AllStored')
    BY <1>2, <1>13, <1>15, OnlyMore
  <2>2. TablesSteady /\ JobSteady("ask", job[r])
    BY <1>2, <2>1, JobNow DEF ReadingInv, SteadyInv
  <2>3. TablesSteady'
    BY <1>1, <1>2, <2>1, <2>2 DEF TablesSteady
  <2>4. f # NoEntries => where = "measure"
    BY <1>5, <1>6, <1>15 DEF Steady
  <2>5. \A a \in {where}, k \in {j} : JobSteady(a, k)'
    BY <1>2, <1>5, <1>9, <2>1, <2>2, <2>4 DEF JobSteady
  <2> QED
    BY <1>2, <2>3, <2>5
<1> QED
  BY <1>2, <1>6, <1>9, <1>10, <1>11, <1>12, <1>13, <1>14, <1>15, RequestKeeps

\* A request goes on, and changes tables or the state in memory.
LEMMA TableRequest ==
  ASSUME ReadingInv, NEW r \in Readers, NEW where \in ReaderPlaces, NEW j \in Jobs,
         rpc' = [rpc EXCEPT ![r] = where] \/ (rpc' = rpc /\ where = rpc[r]),
         job' = [job EXCEPT ![r] = j] \/ (job' = job /\ j = job[r]),
         UNCHANGED <<alive, download, seen>>, ShelfInv', dropped => dropped',
         dropped' \/ DOMAIN content \subseteq DOMAIN content',
         JobFits(where, j), where = "unlist" => dropped',
         \A i \in DOMAIN rows' : From(i, rows'[i]),
         \A i \in DOMAIN content' : From(i, content'[i]),
         \A i \in DOMAIN j.known : From(i, j.known[i]),
         SameOrder => j.text \in {j.want, NoText},
         Steady /\ ~dropped' =>
            /\ TablesSteady' /\ (rows # NoEntries => rows' = rows)
            /\ where # "again" /\ (j.known = NoEntries \/ j.known \in seen)
            /\ where \notin {"measure", "replace"} /\ j.known # NoEntries => rows' # NoEntries
            /\ j.state.catalog \in Sizes /\ j.state.stored <= Size(content)
            /\ j.state.full => AllStored
  PROVE  ReadingInv'
<1>1. Derived(rows)' /\ Derived(content)' /\ \A i \in DOMAIN j.known : From(i, j.known[i])'
  BY DEF Derived, From
<1>2. SameOrder' => j.text \in {j.want, NoText}
  BY DEF SameOrder
<1>3. ASSUME Steady'
      PROVE  /\ TablesSteady' /\ (rows # NoEntries => rows' = rows)
             /\ \A a \in {where}, k \in {j} : JobSteady(a, k)'
  <2>1. Steady /\ ~dropped' /\ DOMAIN content \subseteq DOMAIN content' /\ (AllStored => AllStored')
    BY <1>3, OnlyMore DEF Steady
  <2>2. Size(content) <= Size(content') /\ Size(content) \in Nat /\ Size(content') \in Nat
    BY <2>1, SizeMore, TableFacts DEF ReadingInv, ShelfInv
  <2>3. j.state.stored \in Nat /\ Sizes' = Sizes
    BY DEF Jobs, States, Sizes
  <2>4. /\ TablesSteady' /\ (rows # NoEntries => rows' = rows)
        /\ where # "again" /\ (j.known = NoEntries \/ j.known \in seen)
        /\ where \notin {"measure", "replace"} /\ j.known # NoEntries => rows' # NoEntries
        /\ j.state.catalog \in Sizes /\ j.state.stored <= Size(content)
        /\ j.state.full => AllStored
    BY <2>1
  <2>5. \A a \in {where}, k \in {j} : JobSteady(a, k)'
    BY <2>1, <2>2, <2>3, <2>4 DEF JobSteady
  <2> QED
    BY <2>4, <2>5
<1> QED
  BY <1>1, <1>2, <1>3, RequestKeeps

\* What is known of a request while the source keeps to its catalog.
LEMMA SteadyNow ==
  ASSUME ReadingInv, NEW r \in Readers, Steady
  PROVE  /\ TablesSteady /\ DownloadSteady
         /\ job[r].known = NoEntries \/ job[r].known \in seen
         /\ rpc[r] \notin {"measure", "replace"} /\ job[r].known # NoEntries => rows # NoEntries
         /\ rpc[r] # "again"
         /\ job[r].state.catalog \in Sizes /\ job[r].state.stored <= Size(content)
         /\ job[r].state.full => AllStored
  BY DEF ReadingInv, SteadyInv, JobSteady

\* The state in memory.
LEMMA StateKeeps ==
  ASSUME ReadingInv, NEW r \in Readers,
         OpenSession(r) \/ SaveState(r) \/ ClearState(r) \/ EraseState(r)
  PROVE  ReadingInv'
<1>1. /\ job[r] \in Jobs /\ job \in [Readers -> Jobs] /\ JobFits(rpc[r], job[r])
      /\ job[r].state \in States /\ job[r].at \in Nat /\ mem \in States
  BY JobNow DEF ReadingInv, ShelfInv
<1>2. /\ UNCHANGED <<shelf, rows, content, progress, alive, download, plan, seen, dropped>>
      /\ rpc[r] \in {"session", "note", "forget", "erase"}
  BY DEF OpenSession, SaveState, ClearState, EraseState, tablesOf
<1>3. PICK where \in {"idle", "ask"}, state \in States, m \in States :
        /\ rpc' = [rpc EXCEPT ![r] = where] /\ mem' = m
        /\ job' = [job EXCEPT ![r] = [job[r] EXCEPT !.state = state]]
        /\ state = job[r].state \/ state = NoState
        /\ m.full => mem.full \/ job[r].state.full
  <2>1. CASE OpenSession(r)
    <3>1. /\ rpc' = [rpc EXCEPT ![r] = "idle"] /\ mem' = job[r].state
          /\ job' = [job EXCEPT ![r] = [job[r] EXCEPT !.state = NoState]]
      BY <1>1, <2>1 DEF OpenSession, Goes
    <3> QED
      BY <1>1, <3>1, NoStateIs
  <2>2. CASE ~OpenSession(r)
    <3>1. job' = job
      BY <2>2 DEF SaveState, ClearState, EraseState
    <3>2. job' = [job EXCEPT ![r] = [job[r] EXCEPT !.state = job[r].state]]
      BY <1>1, <3>1 DEF Jobs
    <3>3. PICK where \in {"idle", "ask"} : rpc' = [rpc EXCEPT ![r] = where]
      BY <2>2 DEF SaveState, ClearState, EraseState, Goes
    <3>4. mem' \in States /\ (mem'.full => mem.full)
      <4>1. [mem EXCEPT !.on = TRUE, !.at = job[r].at] \in States
        <5>1. job[r].at \in Int /\ mem \in States
          BY <1>1
        <5> QED
          BY <5>1 DEF States
      <4>2. [mem EXCEPT !.catalog = 0, !.stored = 0, !.full = FALSE, !.update = FALSE] \in States
        BY <1>1 DEF States
      <4>3. /\ [mem EXCEPT !.on = TRUE, !.at = job[r].at].full = mem.full
            /\ [mem EXCEPT !.catalog = 0, !.stored = 0, !.full = FALSE, !.update = FALSE].full = FALSE
        BY <1>1 DEF States
      <4>4. \/ mem' = [mem EXCEPT !.on = TRUE, !.at = job[r].at]
            \/ mem' = [mem EXCEPT !.catalog = 0, !.stored = 0, !.full = FALSE, !.update = FALSE]
            \/ mem' = mem \/ mem' = NoState
        BY <2>2 DEF SaveState, ClearState, EraseState
      <4> QED
        BY <1>1, <4>1, <4>2, <4>3, <4>4, NoStateIs
    <3> QED
      BY <1>1, <3>2, <3>3, <3>4
  <2> QED
    BY <2>1, <2>2
<1> DEFINE j == [job[r] EXCEPT !.state = state]
<1>4. /\ j \in Jobs /\ j.known = job[r].known /\ j.text = job[r].text /\ j.want = job[r].want
      /\ j.at = job[r].at /\ j.state = state
  BY <1>1 DEF Jobs
<1>5. where \in ReaderPlaces /\ where # "unlist"
  BY DEF ReaderPlaces
<1>6. job' = [job EXCEPT ![r] = j]
  BY <1>3
<1> HIDE DEF j
<1>7. JobFits(where, j)
  BY <1>1, <1>2, <1>4 DEF JobFits
<1>8. ShelfInv'
  BY <1>2, <1>3 DEF ReadingInv, ShelfInv
<1>9. /\ \A i \in DOMAIN rows' : From(i, rows'[i])
      /\ \A i \in DOMAIN content' : From(i, content'[i])
      /\ \A i \in DOMAIN j.known : From(i, j.known[i])
      /\ SameOrder => j.text \in {j.want, NoText}
  BY <1>2, <1>4, JobNow DEF ReadingInv, DerivedInv, Derived
<1>10. ASSUME Steady
       PROVE  /\ TablesSteady'
              /\ where # "again" /\ (j.known = NoEntries \/ j.known \in seen)
              /\ where \notin {"measure", "replace"} /\ j.known # NoEntries => rows' # NoEntries
              /\ j.state.catalog \in Sizes /\ j.state.stored <= Size(content)
              /\ j.state.full => AllStored
  <2>1. /\ TablesSteady /\ (job[r].known = NoEntries \/ job[r].known \in seen)
        /\ job[r].known # NoEntries => rows # NoEntries
        /\ job[r].state.catalog \in Sizes /\ job[r].state.stored <= Size(content)
        /\ job[r].state.full => AllStored
    BY <1>2, <1>10, SteadyNow
  <2>2. TablesSteady'
    BY <1>2, <1>3, <2>1 DEF TablesSteady, Sizes, AllStored
  <2>3. NoState.catalog \in Sizes /\ NoState.stored <= Size(content) /\ ~NoState.full
    BY NoStateIs, TableFacts DEF Sizes, ReadingInv, ShelfInv
  <2>4. where \notin {"again", "measure", "replace"}
    OBVIOUS
  <2>5. j.state = job[r].state \/ j.state = NoState
    BY <1>3, <1>4
  <2> QED
    BY <1>2, <1>4, <2>1, <2>2, <2>3, <2>4, <2>5
<1> QED
  BY <1>2, <1>3, <1>4, <1>5, <1>6, <1>7, <1>8, <1>9, <1>10, TableRequest

\* A catalog is looked up.
LEMMA LookKeeps ==
  ASSUME ReadingInv, NEW r \in Readers, Look(r) \/ LookAgain(r) \/ Export(r)
  PROVE  ReadingInv'
<1>1. /\ job[r] \in Jobs /\ job \in [Readers -> Jobs] /\ JobFits(rpc[r], job[r])
      /\ job[r].known \in Tables /\ job[r].at \in Nat
  BY JobNow
<1>2. /\ UNCHANGED <<shelf, content, progress, mem, alive, download, seen, dropped>>
      /\ rpc[r] \in {"look", "again", "idle"} /\ rows' = Catalog /\ job[r].text = NoText
  BY <1>1 DEF Look, LookAgain, Export, Starts, JobFits
<1>3. plan' \in [Requests -> Nat]
  <2>1. "export" \in Requests
    BY DEF Requests
  <2>2. plan' = plan \/ Plan("export")
    BY DEF Look, LookAgain, Export, Starts
  <2> QED
    BY <2>1, <2>2, PlanKept DEF ReadingInv, ShelfInv
<1>4. /\ Catalog \in Tables /\ (Catalog # NoEntries => shelf.on) /\ Derived(Catalog)
      /\ TablesSteady => Catalog = rows
  BY CatalogIs DEF ReadingInv, DerivedInv
<1>5. PICK where \in {"count", "idle", "line"}, known \in {Catalog, job[r].known}, i \in Nat :
        /\ rpc' = [rpc EXCEPT ![r] = where]
        /\ job' = [job EXCEPT ![r] = [job[r] EXCEPT !.known = known, !.at = i]]
        /\ rpc[r] # "again" => known = Catalog
  <2>1. CASE Look(r)
    <3>1. /\ rpc' = [rpc EXCEPT ![r] = "count"]
          /\ job' = [job EXCEPT ![r] = [job[r] EXCEPT !.known = Catalog, !.at = job[r].at]]
      BY <1>1, <2>1 DEF Look, Goes, Jobs
    <3> QED
      BY <1>1, <3>1
  <2>2. CASE Export(r)
    <3>1. /\ rpc' = [rpc EXCEPT ![r] = "line"]
          /\ job' = [job EXCEPT ![r] = [job[r] EXCEPT !.known = Catalog, !.at = 0]]
      BY <1>1, <2>2 DEF Export, Starts, Goes, Jobs
    <3> QED
      BY <3>1
  <2>3. CASE LookAgain(r)
    <3>1. PICK known \in {Catalog, job[r].known} :
            known = (IF Legible(Catalog) THEN Catalog ELSE job[r].known)
      OBVIOUS
    <3>2. /\ rpc' = [rpc EXCEPT ![r] = "idle"] /\ rpc[r] = "again"
          /\ job' = [job EXCEPT ![r] = [job[r] EXCEPT !.known = known, !.at = job[r].at]]
      BY <1>1, <2>3, <3>1 DEF LookAgain, Goes, Jobs
    <3> QED
      BY <1>1, <3>2
  <2> QED
    BY <2>1, <2>2, <2>3
<1> DEFINE j == [job[r] EXCEPT !.known = known, !.at = i]
<1>6. /\ j \in Jobs /\ j.known = known /\ j.text = job[r].text /\ j.want = job[r].want
      /\ j.at = i /\ j.state = job[r].state
  BY <1>1, <1>4 DEF Jobs
<1>7. where \in ReaderPlaces /\ where # "unlist"
  BY DEF ReaderPlaces
<1>8. job' = [job EXCEPT ![r] = j]
  BY <1>5
<1> HIDE DEF j
<1>9. JobFits(where, j)
  BY <1>2, <1>6 DEF JobFits
<1>10. ShelfInv'
  BY <1>2, <1>3, <1>4 DEF ReadingInv, ShelfInv
<1>11. /\ \A k \in DOMAIN rows' : From(k, rows'[k])
       /\ \A k \in DOMAIN content' : From(k, content'[k])
       /\ SameOrder => j.text \in {j.want, NoText}
  BY <1>2, <1>4, <1>6, JobNow DEF ReadingInv, DerivedInv, Derived
<1>12. \A k \in DOMAIN j.known : From(k, j.known[k])
  <2>1. Derived(known)
    BY <1>4 DEF ReadingInv, DerivedInv
  <2> QED
    BY <1>6, <2>1 DEF Derived
<1>13. ASSUME Steady
       PROVE  /\ TablesSteady' /\ rows' = rows
              /\ where # "again" /\ (j.known = NoEntries \/ j.known \in seen)
              /\ where \notin {"measure", "replace"} /\ j.known # NoEntries => rows' # NoEntries
              /\ j.state.catalog \in Sizes /\ j.state.stored <= Size(content)
              /\ j.state.full => AllStored
  <2>1. /\ TablesSteady /\ rpc[r] # "again"
        /\ job[r].state.catalog \in Sizes /\ job[r].state.stored <= Size(content)
        /\ job[r].state.full => AllStored
    BY <1>13, SteadyNow
  <2>2. rows' = rows /\ j.known = rows
    BY <1>2, <1>4, <1>5, <1>6, <2>1
  <2>3. TablesSteady'
    BY <1>2, <2>1, <2>2 DEF TablesSteady, Sizes, AllStored
  <2>4. rows = NoEntries \/ rows \in seen
    BY <2>1 DEF TablesSteady
  <2> QED
    BY <1>6, <2>1, <2>2, <2>3, <2>4
<1> QED
  BY <1>2, <1>5, <1>6, <1>7, <1>8, <1>9, <1>10, <1>11, <1>12, <1>13, TableRequest

\* A request goes on with the catalog it has, and changes the tables.
LEMMA RowsRequest ==
  ASSUME ReadingInv, NEW r \in Readers, NEW where \in ReaderPlaces,
         rpc' = [rpc EXCEPT ![r] = where] \/ (rpc' = rpc /\ where = rpc[r]),
         UNCHANGED <<job, alive, download, seen>>, ShelfInv', dropped => dropped',
         dropped' \/ DOMAIN content \subseteq DOMAIN content',
         JobFits(where, job[r]), where = "unlist" => dropped',
         \A i \in DOMAIN rows' : From(i, rows'[i]),
         \A i \in DOMAIN content' : From(i, content'[i]),
         Steady /\ ~dropped' =>
            /\ TablesSteady' /\ (rows # NoEntries => rows' = rows)
            /\ where # "again"
            /\ where \notin {"measure", "replace"} /\ job[r].known # NoEntries => rows' # NoEntries
  PROVE  ReadingInv'
<1>1. PICK j \in Jobs : j = job[r]
  BY JobNow
<1>2. JobFits(where, j) /\ job' = job
  BY <1>1
<1>3. (\A i \in DOMAIN j.known : From(i, j.known[i])) /\ (SameOrder => j.text \in {j.want, NoText})
  BY <1>1, JobNow
<1>4. Steady => /\ j.known = NoEntries \/ j.known \in seen
                /\ j.state.catalog \in Sizes /\ j.state.stored <= Size(content)
                /\ j.state.full => AllStored
  BY <1>1, SteadyNow
<1>5. Steady /\ ~dropped' =>
            /\ TablesSteady' /\ (rows # NoEntries => rows' = rows)
            /\ where # "again" /\ (j.known = NoEntries \/ j.known \in seen)
            /\ where \notin {"measure", "replace"} /\ j.known # NoEntries => rows' # NoEntries
            /\ j.state.catalog \in Sizes /\ j.state.stored <= Size(content)
            /\ j.state.full => AllStored
  BY <1>1, <1>4
<1> QED
  BY <1>1, <1>2, <1>3, <1>5, TableRequest

\* What the tables' rows are of.
LEMMA RowsFrom ==
  ASSUME ReadingInv
  PROVE  /\ \A i \in DOMAIN rows : From(i, rows[i])
         /\ \A i \in DOMAIN content : From(i, content[i])
         /\ \A i \in DOMAIN NoEntries : From(i, NoEntries[i])
         /\ DOMAIN NoEntries = {} /\ NoEntries \in Tables
  BY TableFacts DEF ReadingInv, DerivedInv, Derived

\* A refresh replaces the catalog.
LEMMA ReplaceKeeps ==
  ASSUME ReadingInv, NEW r \in Readers, Replace(r)
  PROVE  ReadingInv'
<1>1. /\ rpc[r] = "replace" /\ rpc' = [rpc EXCEPT ![r] = "publish"]
      /\ rows' = (IF shelf.on THEN job[r].known ELSE rows)
      /\ UNCHANGED <<shelf, content, progress, mem, alive, download, job, plan, seen, dropped>>
  BY DEF Replace, CacheCatalog, Goes
<1>2. /\ JobFits(rpc[r], job[r]) /\ job[r].known \in Tables
      /\ \A i \in DOMAIN job[r].known : From(i, job[r].known[i])
  BY JobNow
<1>3. "publish" \in ReaderPlaces /\ JobFits("publish", job[r])
  BY <1>1, <1>2 DEF ReaderPlaces, JobFits
<1>4. ShelfInv'
  BY <1>1, <1>2 DEF ReadingInv, ShelfInv
<1>5. /\ \A i \in DOMAIN rows' : From(i, rows'[i])
      /\ \A i \in DOMAIN content' : From(i, content'[i])
  BY <1>1, <1>2, RowsFrom
<1>6. ASSUME Steady
      PROVE  TablesSteady' /\ (rows # NoEntries => rows' = rows) /\ rows' # NoEntries
  <2>1. /\ TablesSteady /\ (job[r].known = NoEntries \/ job[r].known \in seen)
    BY <1>6, SteadyNow
  <2>2. job[r].known # NoEntries
    BY <1>1, <1>2, TableFacts DEF JobFits, Legible
  <2>3. rows' = job[r].known /\ job[r].known \in seen
    BY <1>1, <2>1, <2>2 DEF TablesSteady
  <2>4. rows # NoEntries => rows' = rows
    BY <1>6, <2>1, <2>2, <2>3 DEF TablesSteady, Steady
  <2>5. DOMAIN content \subseteq DOMAIN rows'
    BY <2>1, <2>4, RowsFrom DEF TablesSteady
  <2>6. TablesSteady'
    BY <1>1, <2>1, <2>3, <2>5 DEF TablesSteady, Sizes, AllStored
  <2> QED
    BY <2>2, <2>3, <2>4, <2>6
<1> QED
  BY <1>1, <1>3, <1>4, <1>5, <1>6, RowsRequest

\* The row on the shelf.
LEMMA ShelfKeeps ==
  ASSUME ReadingInv, NEW r \in Readers, Publish(r) \/ AddBook(r) \/ SaveRow(r)
  PROVE  ReadingInv'
<1>1. /\ JobFits(rpc[r], job[r]) /\ job[r].known \in Tables /\ job[r].at \in Nat /\ shelf \in Shelves
  BY JobNow DEF ReadingInv, ShelfInv
<1>2. /\ UNCHANGED <<rows, content, mem, alive, download, job, seen, dropped>>
      /\ rpc[r] \in {"publish", "insert", "idle"}
  BY DEF Publish, AddBook, SaveRow, Starts
<1>3. plan' \in [Requests -> Nat]
  <2>1. "add" \in Requests
    BY DEF Requests
  <2>2. plan' = plan \/ Plan("add")
    BY DEF Publish, AddBook, SaveRow, Starts
  <2> QED
    BY <2>1, <2>2, PlanKept DEF ReadingInv, ShelfInv
<1>4. PICK where \in {"idle", "ask", "note"} : rpc' = [rpc EXCEPT ![r] = where]
  BY DEF Publish, AddBook, SaveRow, Starts, Goes
<1>5. /\ shelf' \in Shelves /\ (shelf.on => shelf'.on)
      /\ shelf'.total \in {shelf.total, Size(job[r].known)}
  <2>1. Size(job[r].known) \in Nat
    BY <1>1, TableFacts
  <2> DEFINE noted == [shelf EXCEPT !.total = Size(job[r].known), !.update = FALSE]
             added == [shelf EXCEPT !.on = TRUE]
  <2>2. shelf' \in {shelf, noted, added}
    BY DEF Publish, NoteOnShelf, AddBook, SaveRow
  <2>3. /\ noted \in Shelves /\ noted.on = shelf.on /\ noted.total = Size(job[r].known)
        /\ added \in Shelves /\ added.on /\ added.total = shelf.total
    BY <1>1, <2>1 DEF Shelves
  <2> HIDE DEF noted, added
  <2> QED
    BY <1>1, <2>2, <2>3
<1>6. progress' \in Nat \union {-1} /\ (progress' >= 0 => shelf'.on)
  <2>1. progress \in Nat \union {-1} /\ (progress >= 0 => shelf.on)
    BY DEF ReadingInv, ShelfInv
  <2>2. progress' = progress \/ (progress' = job[r].at /\ shelf.on)
    BY DEF Publish, AddBook, SaveRow
  <2> QED
    BY <1>1, <1>5, <2>1, <2>2
<1>7. ShelfInv'
  BY <1>2, <1>3, <1>5, <1>6 DEF ReadingInv, ShelfInv
<1>8. where \in ReaderPlaces /\ JobFits(where, job[r])
  BY <1>1, <1>2 DEF ReaderPlaces, JobFits
<1>9. /\ \A i \in DOMAIN rows' : From(i, rows'[i])
      /\ \A i \in DOMAIN content' : From(i, content'[i])
  BY <1>2, RowsFrom
<1>10. ASSUME Steady PROVE TablesSteady' /\ (job[r].known # NoEntries => rows' # NoEntries)
  <2>1. /\ TablesSteady /\ (job[r].known = NoEntries \/ job[r].known \in seen)
        /\ job[r].known # NoEntries => rows # NoEntries
    BY <1>2, <1>10, SteadyNow
  <2>2. Size(job[r].known) \in Sizes
    BY <2>1, TableFacts DEF Sizes
  <2>3. TablesSteady'
    BY <1>2, <1>5, <2>1, <2>2 DEF TablesSteady, Sizes, AllStored
  <2> QED
    BY <1>2, <2>1, <2>3
<1> QED
  BY <1>2, <1>4, <1>7, <1>8, <1>9, <1>10, RowsRequest

\* A reader's text is stored.
LEMMA KeepKeeps ==
  ASSUME ReadingInv, NEW r \in Readers, Keep(r)
  PROVE  ReadingInv'
<1> DEFINE i == job[r].at
           entry == job[r].known[i]
           put == [k \in DOMAIN content \union {i} |-> IF k = i THEN entry ELSE content[k]]
<1>1. /\ rpc[r] = "keep" /\ rpc' = [rpc EXCEPT ![r] = "answer"]
      /\ content' = (IF shelf.on THEN put ELSE content)
      /\ UNCHANGED <<shelf, rows, progress, mem, alive, download, job, plan, seen, dropped>>
  BY DEF Keep, CacheContent, Goes
<1>2. /\ job[r].known \in Tables /\ i \in DOMAIN job[r].known /\ i \in Nat /\ entry \in Entries
      /\ From(i, entry) /\ content \in Tables
  BY <1>1, JobNow, TableFacts DEF JobFits, ReadingInv, ShelfInv
<1>3. "answer" \in ReaderPlaces /\ JobFits("answer", job[r])
  BY <1>1 DEF ReaderPlaces, JobFits
<1>4. put \in Tables /\ DOMAIN put = DOMAIN content \union {i}
  <2> DEFINE e == entry
             n == i
  <2>1. n \in Nat /\ e \in Entries
    BY <1>2
  <2> HIDE DEF e, n
  <2>2. [k \in DOMAIN content \union {n} |-> IF k = n THEN e ELSE content[k]] \in Tables
    BY <1>2, <2>1, TablePut
  <2> QED
    BY <2>2 DEF e, n
<1>5. \A k \in DOMAIN put : From(k, put[k])
  BY <1>2, RowsFrom
<1> HIDE DEF put, entry
<1>6. ShelfInv'
  BY <1>1, <1>4 DEF ReadingInv, ShelfInv
<1>7. /\ \A k \in DOMAIN rows' : From(k, rows'[k])
      /\ \A k \in DOMAIN content' : From(k, content'[k])
      /\ DOMAIN content \subseteq DOMAIN content' /\ DOMAIN content' \subseteq DOMAIN content \union {i}
  BY <1>1, <1>4, <1>5, RowsFrom
<1>8. ASSUME Steady PROVE TablesSteady' /\ rows' # NoEntries
  <2>1. /\ TablesSteady /\ (job[r].known = NoEntries \/ job[r].known \in seen)
        /\ job[r].known # NoEntries => rows # NoEntries
    BY <1>1, <1>8, SteadyNow
  <2>2. job[r].known # NoEntries /\ rows # NoEntries
    BY <1>2, <2>1, RowsFrom
  <2>3. rows = job[r].known
    BY <1>8, <2>1, <2>2 DEF TablesSteady, Steady
  <2>4. DOMAIN content' \subseteq DOMAIN rows
    BY <1>2, <1>7, <2>1, <2>3 DEF TablesSteady
  <2>5. AllStored => AllStored'
    BY <1>1, <1>7 DEF AllStored
  <2>6. TablesSteady'
    BY <1>1, <2>1, <2>4, <2>5 DEF TablesSteady, Sizes
  <2> QED
    BY <1>1, <2>2, <2>6
<1> QED
  BY <1>1, <1>3, <1>6, <1>7, <1>8, RowsRequest

\* Contents are deleted.
LEMMA ClearKeeps ==
  ASSUME ReadingInv, NEW r \in Readers,
         Clear(r) \/ ClearContents(r) \/ RemoveBook(r) \/ ChangeSource(r)
  PROVE  ReadingInv'
<1>1. /\ UNCHANGED <<mem, alive, download, job, seen>> /\ dropped'
      /\ rpc[r] \in {"unlist", "idle"} /\ rows' \in {NoEntries, rows} /\ content' \in {NoEntries, content}
  <2>1. dropped'
    <3>1. CASE ClearContents(r)
      <4>1. dropped
        BY <3>1 DEF ClearContents, ReadingInv, JobsInv
      <4>2. dropped' = dropped
        BY <3>1 DEF ClearContents
      <4> QED
        BY <4>1, <4>2, Zenon
    <3>2. CASE ~ClearContents(r)
      BY <3>2 DEF Clear, RemoveBook, ChangeSource
    <3> QED
      BY <3>1, <3>2
  <2>2. UNCHANGED <<mem, alive, download, job, seen>>
    BY DEF Clear, ClearContents, RemoveBook, ChangeSource, requests
  <2>3. rpc[r] \in {"unlist", "idle"}
    BY DEF Clear, ClearContents, RemoveBook, ChangeSource, Starts
  <2>4. rows' \in {NoEntries, rows} /\ content' \in {NoEntries, content}
    BY DEF Clear, ClearContents, RemoveBook, ChangeSource
  <2> QED
    BY <2>1, <2>2, <2>3, <2>4
<1>2. PICK where \in {"unlist", "forget", "idle", "erase"} :
        rpc' = [rpc EXCEPT ![r] = where] \/ (rpc' = rpc /\ where = rpc[r])
  BY DEF Clear, ClearContents, RemoveBook, ChangeSource, Starts, Goes, requests
<1>3. plan' \in [Requests -> Nat]
  <2>1. {"clear", "remove", "change"} \subseteq Requests
    BY DEF Requests
  <2>2. plan' = plan \/ Plan("clear") \/ Plan("remove") \/ Plan("change")
    BY DEF Clear, ClearContents, RemoveBook, ChangeSource, Starts
  <2> QED
    BY <2>1, <2>2, PlanKept DEF ReadingInv, ShelfInv
<1>4. /\ shelf' \in Shelves
      /\ progress' = -1 \/ (progress' = progress /\ shelf' = shelf)
      /\ (rows' = NoEntries /\ content' = NoEntries) \/ shelf' = shelf
  <2>1. shelf \in Shelves
    BY DEF ReadingInv, ShelfInv
  <2> DEFINE noted == [shelf EXCEPT !.total = 0, !.update = FALSE]
             gone == [on |-> FALSE, total |-> 0, update |-> FALSE]
  <2>2. noted \in Shelves /\ gone \in Shelves
    BY <2>1 DEF Shelves
  <2>3. shelf' \in {shelf, noted, gone}
    BY DEF Clear, ClearContents, RemoveBook, ChangeSource, NoteOnShelf
  <2>4. /\ progress' = -1 \/ (progress' = progress /\ shelf' = shelf)
        /\ (rows' = NoEntries /\ content' = NoEntries) \/ shelf' = shelf
    BY DEF Clear, ClearContents, RemoveBook, ChangeSource
  <2> HIDE DEF noted, gone
  <2> QED
    BY <2>1, <2>2, <2>3, <2>4
<1>5. ShelfInv'
  BY <1>1, <1>3, <1>4, RowsFrom DEF ReadingInv, ShelfInv
<1>6. where \in ReaderPlaces /\ JobFits(where, job[r])
  <2>1. JobFits(rpc[r], job[r])
    BY JobNow
  <2> QED
    BY <1>1, <2>1 DEF ReaderPlaces, JobFits
<1>7. /\ \A i \in DOMAIN rows' : From(i, rows'[i])
      /\ \A i \in DOMAIN content' : From(i, content'[i])
  BY <1>1, RowsFrom
<1> QED
  BY <1>1, <1>2, <1>5, <1>6, <1>7, RowsRequest

\* A step of a request keeps the invariant.
LEMMA RequestKeepsAll ==
  ASSUME ReadingInv, NEW r \in Readers, RequestStep(r)
  PROVE  ReadingInv'
<1>1. CASE Open(r) \/ Refresh(r) \/ Measure(r)
  BY <1>1, OpenKeeps
<1>2. CASE CountRows(r) \/ CountContents(r) \/ ReadRow(r)
  BY <1>2, CountKeeps
<1>3. CASE Read(r) \/ ReadStored(r) \/ ReadFetched(r) \/ Answer(r)
  BY <1>3, ReadKeeps
<1>4. CASE ExportChapter(r) \/ Save(r)
  BY <1>4, ExportChapterKeeps
<1>5. CASE FetchCatalog(r)
  BY <1>5, FetchCatalogKeeps
<1>6. CASE OpenSession(r) \/ SaveState(r) \/ ClearState(r) \/ EraseState(r)
  BY <1>6, StateKeeps
<1>7. CASE Look(r) \/ LookAgain(r) \/ Export(r)
  BY <1>7, LookKeeps
<1>8. CASE Replace(r)
  BY <1>8, ReplaceKeeps
<1>9. CASE Publish(r) \/ AddBook(r) \/ SaveRow(r)
  BY <1>9, ShelfKeeps
<1>10. CASE Keep(r)
  BY <1>10, KeepKeeps
<1>11. CASE Clear(r) \/ ClearContents(r) \/ RemoveBook(r) \/ ChangeSource(r)
  BY <1>11, ClearKeeps
<1> QED
  BY <1>1, <1>2, <1>3, <1>4, <1>5, <1>6, <1>7, <1>8, <1>9, <1>10, <1>11 DEF RequestStep

\* The entries of a list are finitely many.
LEMMA ListIsFinite ==
  ASSUME NEW list \in Seq(Placed)
  PROVE  IsFiniteSet(ToSet(list)) /\ Cardinality(ToSet(list)) <= Len(list)
<1> DEFINE n == Len(list)
           pick == [k \in 1 .. n |-> list[k]]
<1>1. n \in Nat
  OBVIOUS
<1>2. pick \in Surjection(1 .. n, ToSet(list))
  BY DEF ToSet, Surjection
<1>3. IsFiniteSet(1 .. n) /\ Cardinality(1 .. n) = n
  <2>1. 1 \in Int /\ n \in Int
    BY <1>1
  <2>2. IsFiniteSet(1 .. n) /\ Cardinality(1 .. n) = IF 1 > n THEN 0 ELSE n - 1 + 1
    BY <2>1, FS_Interval
  <2> QED
    BY <1>1, <2>2
<1> HIDE DEF pick
<1>4. IsFiniteSet(ToSet(list)) /\ Cardinality(ToSet(list)) <= Cardinality(1 .. n)
  BY <1>2, <1>3, FS_Surjection
<1> QED
  BY <1>3, <1>4

\* The chapters that are being placed are at most those of the book.
LEMMA PlacingIsFinite ==
  ASSUME dl \in Downloads
  PROVE  IsFiniteSet(Placing) /\ Cardinality(Placing) \in Nat /\ Cardinality(Placing) <= Total
<1>1. IsFiniteSet(ToSet(dl.list)) /\ Cardinality(ToSet(dl.list)) <= Len(dl.list) /\ Len(dl.list) \in Nat
  <2>1. dl.list \in Seq(Placed)
    BY DEF Downloads
  <2> QED
    BY <2>1, ListIsFinite
<1>2. Placing \in SUBSET ToSet(dl.list)
  BY DEF Placing
<1>3. IsFiniteSet(Placing) /\ Cardinality(Placing) <= Cardinality(ToSet(dl.list))
  BY <1>1, <1>2, FS_Subset
<1>4. Cardinality(Placing) \in Nat /\ Cardinality(ToSet(dl.list)) \in Nat
  BY <1>1, <1>3, FS_CardinalityType
<1> QED
  BY <1>1, <1>3, <1>4 DEF Total

Distinct(list) == \A k, m \in DOMAIN list : list[k].index = list[m].index => k = m
ByNumber(list) == \A k \in DOMAIN list : list[k].index = k - 1

\* A download that has not come to its first chapter.
LEMMA RestKeeps ==
  ASSUME dpc' \in {"idle", "catalog", "purge", "fetch", "store", "partition"},
         dl' \in Downloads, NoneCome', Untold', Distinct(dl'.list),
         dpc' = "store" => ByNumber(dl'.list)
  PROVE  DownloadInv' /\ PlacedInv'
<1>1. /\ dl'.next = 1 /\ dl'.todo = <<>> /\ dl'.cached = 0 /\ dl'.failed = 0 /\ dl'.done = 0
      /\ tasks' = <<>> /\ Total' \in Nat /\ dl'.list \in Seq(Placed)
  BY DEF NoneCome, Untold, Total, Downloads
<1>2. DownloadInv'
  <2>1. dpc' \in DownloadPlaces /\ dpc' \notin {"begin", "work", "shelf", "state"}
    BY DEF DownloadPlaces
  <2>2. tasks' \in [DOMAIN tasks' -> TaskStates] /\ DOMAIN dl'.todo = {} /\ Len(dl'.todo) = 0
    BY <1>1
  <2>3. dl'.next <= Total' + 1 /\ Len(dl'.todo) + dl'.cached = dl'.next - 1
    <3>1. \A t \in Nat : 1 <= t + 1 /\ 0 + 0 = 1 - 1
      OBVIOUS
    <3>2. dl'.next = 1 /\ dl'.cached = 0 /\ Total' \in Nat /\ Len(dl'.todo) = 0
      BY <1>1, <2>2
    <3> QED
      BY <3>1, <3>2, Zenon
  <2> QED
    BY <1>1, <2>1, <2>2, <2>3 DEF DownloadInv, Distinct, ByNumber
<1>3. PlacedInv'
  <2>1. Placing' \in SUBSET ToSet(dl'.list)
    BY DEF Placing
  <2>2. IsFiniteSet(ToSet(dl'.list))
    BY <1>1, ListIsFinite
  <2>3. Cardinality(Placing') \in Nat
    BY <2>1, <2>2, FS_Subset, FS_CardinalityType
  <2>4. dl'.cached <= Cardinality(Placing')
    BY <1>1, <2>3
  <2> QED
    BY <2>4 DEF PlacedInv
<1> QED
  BY <1>2, <1>3

\* No download is under way.
LEMMA NoDownloadIs ==
  ASSUME dl' = NoDownload, tasks' = <<>>, reports' = NoReports, told' = 0
  PROVE  dl' \in Downloads /\ NoneCome' /\ Untold' /\ dl'.list = <<>>
<1>1. <<>> \in Seq(Placed) /\ 1 \in Nat \ {0} /\ 0 \in Nat
  OBVIOUS
<1>2. NoDownload \in Downloads
  BY <1>1, Zenon DEF NoDownload, Downloads
<1> QED
  BY <1>2 DEF NoDownload, NoneCome, Untold

\* What is known of a download that has not come to its first chapter.
LEMMA RestNow ==
  ASSUME ReadingInv, dpc \in {"idle", "catalog", "purge", "fetch", "store"}
  PROVE  /\ NoneCome /\ Untold /\ dl \in Downloads /\ dl.list \in Seq(Placed)
         /\ \A k, m \in DOMAIN dl.list : dl.list[k].index = dl.list[m].index => k = m
         /\ \A k \in DOMAIN dl.list : From(dl.list[k].index, dl.list[k].entry)
  BY DEF ReadingInv, DownloadInv, DerivedInv, Downloads

\* A download begins; the engine dies.
LEMMA StartKeeps ==
  ASSUME ReadingInv, Download \/ Die
  PROVE  ReadingInv'
<1>1. /\ UNCHANGED <<shelf, rows, content, progress, mem, rpc, job, seen, dropped>>
      /\ alive' => alive
  BY DEF Download, Die, tablesOf, requests
<1>2. plan' \in [Requests -> Nat]
  <2>1. {"download", "die"} \subseteq Requests
    BY DEF Requests
  <2>2. Plan("download") \/ Plan("die")
    BY DEF Download, Die
  <2> QED
    BY <2>1, <2>2, PlanKept
<1>3. alive' \in BOOLEAN
  BY DEF Download, Die, ReadingInv, ShelfInv
<1>4. ShelfInv'
  BY <1>1, <1>2, <1>3 DEF ReadingInv, ShelfInv
<1>5. Derived(rows)' /\ Derived(content)' /\ \A i, e : From(i, e) = From(i, e)'
  BY <1>1 DEF ReadingInv, DerivedInv, Derived, From
<1>6. CASE Download
  <2>1. /\ dpc' = "catalog" /\ dl' = NoDownload /\ tasks' = <<>> /\ reports' = NoReports
        /\ told' = 0 /\ alive' = alive
    BY <1>6 DEF Download
  <2>2. dl' \in Downloads /\ NoneCome' /\ Untold' /\ dl'.list = <<>>
    BY <2>1, NoDownloadIs
  <2>3. DownloadInv' /\ PlacedInv'
    BY <2>1, <2>2, RestKeeps DEF Distinct
  <2>4. \A k \in DOMAIN dl'.list : From(dl.list[k].index, dl.list[k].entry)'
    BY <2>2
  <2>5. Steady' => TablesSteady' /\ DownloadSteady'
    <3>1. Steady' => Steady
      BY <1>1, OnlyMore
    <3>2. Steady' => TablesSteady'
      BY <1>1, <3>1 DEF ReadingInv, SteadyInv, TablesSteady, Sizes, AllStored
    <3>3. DownloadSteady'
      BY <2>1 DEF DownloadSteady
    <3> QED
      BY <3>2, <3>3
  <2> QED
    BY <1>1, <1>4, <1>5, <2>3, <2>4, <2>5, DownloadKeeps
<1>7. CASE Die
  <2>1. UNCHANGED download /\ UNCHANGED <<dpc, dl, tasks, reports, told>> /\ ~alive'
    BY <1>7 DEF Die, download
  <2>2. DownloadInv' /\ PlacedInv'
    BY <1>1, <2>1, DownloadStays DEF ReadingInv, ShelfInv
  <2>3. \A k \in DOMAIN dl'.list : From(dl.list[k].index, dl.list[k].entry)'
    BY <1>5, <2>1 DEF ReadingInv, DerivedInv
  <2>4. ~Steady'
    BY <2>1 DEF Steady
  <2> QED
    BY <1>1, <1>4, <1>5, <2>2, <2>3, <2>4, DownloadKeeps
<1> QED
  BY <1>6, <1>7

\* While the source keeps to its catalog, no catalog looks like garbage.
LEMMA SteadyIsLegible ==
  ASSUME NEW f \in Tables, f = NoEntries \/ Legible(f)
  PROVE  ~Garbage(f)
  BY TableFacts DEF Garbage, Legible

\* A download looks its catalog up.
LEMMA DownloadCatalogKeeps ==
  ASSUME ReadingInv, DownloadCatalog
  PROVE  ReadingInv'
<1> DEFINE list == IF Garbage(Catalog) THEN <<>> ELSE InOrder(Catalog)
<1>1. /\ dpc = "catalog" /\ rows' = Catalog /\ dl' = [dl EXCEPT !.list = list]
      /\ dpc' = (IF Garbage(Catalog) THEN "purge"
                 ELSE IF Catalog = NoEntries THEN "fetch" ELSE "partition")
      /\ UNCHANGED <<shelf, content, progress, mem, alive, tasks, reports, told, rpc, job, plan, seen, dropped>>
  BY DEF DownloadCatalog, requests
<1>2. /\ Catalog \in Tables /\ (Catalog # NoEntries => shelf.on) /\ Derived(Catalog)
      /\ TablesSteady => Catalog = rows
  BY CatalogIs DEF ReadingInv, DerivedInv
<1>3. NoneCome /\ Untold /\ dl \in Downloads
  BY <1>1, RestNow
<1>4. /\ list \in Seq(Placed)
      /\ \A k, m \in DOMAIN list : list[k].index = list[m].index => k = m
      /\ \A k \in DOMAIN list : From(list[k].index, list[k].entry)
  <2>1. CASE Garbage(Catalog)
    BY <2>1
  <2>2. CASE ~Garbage(Catalog)
    <3>1. PICK f \in Tables : f = Catalog
      BY <1>2
    <3>2. list = InOrder(f) /\ Derived(f)
      BY <1>2, <2>2, <3>1
    <3> HIDE DEF list
    <3>3. /\ list \in Seq(Placed) /\ Len(list) = Size(f) /\ Size(f) \in Nat
          /\ \A k \in 1 .. Size(f) : list[k].index \in DOMAIN f /\ list[k].entry = f[list[k].index]
          /\ \A k, m \in 1 .. Size(f) : list[k].index = list[m].index => k = m
      BY <3>2, InOrderIs, TableFacts
    <3>4. DOMAIN list = 1 .. Size(f)
      BY <3>3
    <3>5. \A k \in DOMAIN list : From(list[k].index, list[k].entry)
      BY <3>2, <3>3, <3>4 DEF Derived
    <3> QED
      BY <3>3, <3>4, <3>5
  <2> QED
    BY <2>1, <2>2
<1> HIDE DEF list
<1>5. dl' \in Downloads /\ NoneCome' /\ Untold' /\ dl'.list = list
  BY <1>1, <1>3, <1>4 DEF Downloads, NoneCome, Untold
<1>6. DownloadInv' /\ PlacedInv'
  BY <1>1, <1>4, <1>5, RestKeeps DEF Distinct
<1>7. ShelfInv'
  BY <1>1, <1>2 DEF ReadingInv, ShelfInv
<1>8. Derived(rows)' /\ Derived(content)' /\ \A k \in DOMAIN dl'.list : From(dl.list[k].index, dl.list[k].entry)'
  <2>1. \A i, e : From(i, e) => From(i, e)'
    BY <1>1, OnlyMore
  <2>2. \A k \in DOMAIN rows' : From(k, rows'[k])
    BY <1>1, <1>2 DEF Derived
  <2> QED
    BY <1>1, <1>4, <1>5, <2>1, <2>2, RowsFrom DEF Derived
<1>9. ASSUME Steady'
      PROVE  TablesSteady' /\ DownloadSteady' /\ (rows # NoEntries => rows' = rows)
  <2>1. Steady /\ TablesSteady
    BY <1>1, <1>9, OnlyMore DEF ReadingInv, SteadyInv
  <2>2. rows' = rows /\ Catalog = rows /\ (rows = NoEntries \/ Legible(rows))
    BY <1>1, <1>2, <2>1 DEF TablesSteady, Steady
  <2>3. ~Garbage(Catalog)
    BY <1>2, <2>2, SteadyIsLegible
  <2>4. TablesSteady'
    BY <1>1, <2>1, <2>2 DEF TablesSteady, Sizes, AllStored
  <2>5. DownloadSteady'
    BY <1>1, <1>5, <2>2, <2>3 DEF DownloadSteady, list
  <2> QED
    BY <2>2, <2>4, <2>5
<1> QED
  BY <1>1, <1>6, <1>7, <1>8, <1>9, DownloadKeeps

\* Garbage is deleted.
LEMMA DownloadPurgeKeeps ==
  ASSUME ReadingInv, DownloadPurge
  PROVE  ReadingInv'
<1>1. /\ dpc = "purge" /\ rows' = NoEntries /\ dpc' = "fetch"
      /\ UNCHANGED <<shelf, content, progress, mem, alive, dl, tasks, reports, told, rpc, job, plan, seen, dropped>>
  BY DEF DownloadPurge, requests
<1>2. /\ NoneCome /\ Untold /\ dl \in Downloads /\ Distinct(dl.list)
      /\ \A k \in DOMAIN dl.list : From(dl.list[k].index, dl.list[k].entry)
  BY <1>1, RestNow DEF Distinct
<1>3. dl' \in Downloads /\ NoneCome' /\ Untold' /\ dl'.list = dl.list
  BY <1>1, <1>2 DEF NoneCome, Untold
<1>4. DownloadInv' /\ PlacedInv'
  BY <1>1, <1>2, <1>3, RestKeeps
<1>5. ShelfInv'
  BY <1>1, RowsFrom DEF ReadingInv, ShelfInv
<1>6. Derived(rows)' /\ Derived(content)' /\ \A k \in DOMAIN dl'.list : From(dl.list[k].index, dl.list[k].entry)'
  <2>1. \A i, e : From(i, e) => From(i, e)'
    BY <1>1, OnlyMore
  <2> QED
    BY <1>1, <1>2, <1>3, <2>1, RowsFrom DEF Derived
<1>7. ~Steady'
  <2>1. Steady' => Steady
    BY <1>1, OnlyMore
  <2> QED
    BY <1>1, <2>1 DEF ReadingInv, SteadyInv, DownloadSteady
<1> QED
  BY <1>1, <1>4, <1>5, <1>6, <1>7, DownloadKeeps

\* A download asks the source.
LEMMA DownloadFetchKeeps ==
  ASSUME ReadingInv, DownloadFetch
  PROVE  ReadingInv'
<1>1. PICK c \in Catalogs :
        /\ seen' = seen \union {AsRows(c)}
        /\ dl' = [dl EXCEPT !.list = InOrder(AsRows(c))]
        /\ dpc' = IF c = <<>> THEN "idle" ELSE IF Garbage(AsRows(c)) THEN "partition" ELSE "store"
  BY DEF DownloadFetch
<1>2. /\ dpc = "fetch"
      /\ UNCHANGED <<shelf, rows, content, progress, mem, alive, tasks, reports, told, rpc, job, plan, dropped>>
  BY DEF DownloadFetch, requests, tablesOf
<1>3. c \in Seq(Entries)
  BY ReadingConstants
<1>4. PICK f : f = AsRows(c)
  OBVIOUS
<1>5. f \in Tables /\ f \in seen' /\ DOMAIN f = 0 .. Len(c) - 1 /\ Size(f) = Len(c) /\ Len(c) \in Nat
      /\ (f = NoEntries <=> c = <<>>)
  BY <1>1, <1>3, <1>4, RowsOf
<1>6. PICK list : list = InOrder(f)
  OBVIOUS
<1>7. /\ list \in Seq(Placed) /\ DOMAIN list = 1 .. Size(f) /\ Distinct(list)
      /\ \A k \in 1 .. Size(f) : list[k].index \in DOMAIN f /\ list[k].entry = f[list[k].index]
  <2>1. /\ list \in Seq(Placed) /\ Len(list) = Size(f)
        /\ \A k \in 1 .. Size(f) : list[k].index \in DOMAIN f /\ list[k].entry = f[list[k].index]
        /\ \A k, m \in 1 .. Size(f) : list[k].index = list[m].index => k = m
    BY <1>5, <1>6, InOrderIs
  <2>2. DOMAIN list = 1 .. Size(f)
    BY <2>1
  <2> QED
    BY <2>1, <2>2 DEF Distinct
<1>8. ByNumber(list)
  BY <1>3, <1>4, <1>5, <1>6, <1>7, RowsInOrder DEF ByNumber
<1>9. NoneCome /\ Untold /\ dl \in Downloads
  BY <1>2, RestNow
<1>10. dl' \in Downloads /\ NoneCome' /\ Untold' /\ dl'.list = list
  BY <1>1, <1>2, <1>4, <1>6, <1>7, <1>9 DEF Downloads, NoneCome, Untold
<1>11. DownloadInv' /\ PlacedInv'
  BY <1>1, <1>7, <1>8, <1>10, RestKeeps
<1>12. ShelfInv'
  BY <1>1, <1>2, <1>3 DEF ReadingInv, ShelfInv
<1>13. seen \subseteq seen' /\ Derived(rows)' /\ Derived(content)'
  <2>1. seen \subseteq seen'
    BY <1>1
  <2> QED
    BY <1>2, <2>1, OnlyMore DEF ReadingInv, DerivedInv, Derived
<1>14. \A k \in DOMAIN dl'.list : From(dl.list[k].index, dl.list[k].entry)'
  BY <1>5, <1>7, <1>10 DEF From
<1>15. ASSUME Steady'
       PROVE  TablesSteady' /\ DownloadSteady'
  <2>1. Steady /\ Sizes \subseteq Sizes' /\ (AllStored => AllStored')
    BY <1>2, <1>13, <1>15, OnlyMore
  <2>2. TablesSteady'
    BY <1>1, <1>2, <2>1 DEF TablesSteady, ReadingInv, SteadyInv
  <2>3. f = NoEntries \/ Legible(f)
    BY <1>5, <1>15 DEF Steady
  <2>4. ~Garbage(f)
    BY <1>5, <2>3, SteadyIsLegible
  <2>5. dpc' = "idle" \/ (dpc' = "store" /\ f # NoEntries)
    BY <1>1, <1>4, <1>5, <2>4
  <2>6. DownloadSteady'
    BY <1>5, <1>6, <1>10, <2>5 DEF DownloadSteady
  <2> QED
    BY <2>2, <2>6
<1> QED
  BY <1>2, <1>11, <1>12, <1>13, <1>14, <1>15, DownloadKeeps

\* A download stores its catalog.
LEMMA DownloadStoreKeeps ==
  ASSUME ReadingInv, DownloadStore
  PROVE  ReadingInv'
<1> DEFINE new == [i \in 0 .. Total - 1 |-> dl.list[i + 1].entry]
<1>1. /\ dpc = "store" /\ rows' = (IF shelf.on THEN new ELSE rows)
      /\ dpc' = (IF shelf.on THEN "partition" ELSE "idle")
      /\ dl' = (IF shelf.on THEN dl ELSE NoDownload)
      /\ UNCHANGED <<shelf, content, progress, mem, alive, tasks, reports, told, rpc, job, plan, seen, dropped>>
  BY DEF DownloadStore, CacheCatalog, requests
<1>2. /\ NoneCome /\ Untold /\ dl \in Downloads /\ dl.list \in Seq(Placed) /\ Distinct(dl.list)
      /\ \A k \in DOMAIN dl.list : From(dl.list[k].index, dl.list[k].entry)
      /\ Total \in Nat /\ Total = Len(dl.list)
  BY <1>1, RestNow DEF Distinct, Total
<1>3. ByNumber(dl.list)
  BY <1>1 DEF ReadingInv, DownloadInv, ByNumber
<1>4. \A i \in 0 .. Total - 1 : i + 1 \in DOMAIN dl.list /\ dl.list[i + 1].index = i /\ dl.list[i + 1] \in Placed
  <2> TAKE i \in 0 .. Total - 1
  <2>1. i + 1 \in DOMAIN dl.list /\ (i + 1) - 1 = i
    BY <1>2
  <2> QED
    BY <1>2, <1>3, <2>1 DEF ByNumber
<1>5. \A i \in 0 .. Total - 1 : From(i, new[i]) /\ new[i] \in Entries
  BY <1>2, <1>4 DEF Placed
<1>6. new \in [0 .. Total - 1 -> Entries] /\ DOMAIN new = 0 .. Total - 1
  BY <1>5
<1>7. new \in Tables
  <2>1. 0 \in Int /\ Total - 1 \in Int
    BY <1>2
  <2>2. IsFiniteSet(0 .. Total - 1) /\ 0 .. Total - 1 \subseteq Nat
    BY <2>1, FS_Interval
  <2> HIDE DEF new
  <2> QED
    BY <1>6, <2>2, TableIs
<1>8. ASSUME Steady, shelf.on
      PROVE  new \in seen /\ new # NoEntries /\ dl.list = InOrder(new)
  <2>1. PICK c \in seen : c # NoEntries /\ dl.list = InOrder(c)
    BY <1>1, <1>8 DEF ReadingInv, SteadyInv, DownloadSteady
  <2>2. PICK s \in Seq(Entries) : c = AsRows(s)
    BY DEF ReadingInv, ShelfInv
  <2>3. Len(dl.list) = Len(s) /\ \A k \in 1 .. Len(s) : dl.list[k].entry = s[k]
    BY <2>1, <2>2, RowsInOrder
  <2>4. \A i \in 0 .. Total - 1 : new[i] = s[i + 1]
    BY <1>2, <2>3
  <2>5. new = AsRows(s)
    BY <1>2, <2>3, <2>4 DEF AsRows
  <2> HIDE DEF new
  <2> QED
    BY <2>1, <2>2, <2>5
<1>9. ~shelf.on => dl' \in Downloads /\ NoneCome' /\ Untold' /\ dl'.list = <<>>
  BY <1>1, <1>2, NoDownloadIs DEF Untold
<1> HIDE DEF new
<1>10. dl' \in Downloads /\ NoneCome' /\ Untold' /\ dl'.list \in {dl.list, <<>>}
  <2>1. shelf.on => dl' \in Downloads /\ NoneCome' /\ Untold' /\ dl'.list = dl.list
    BY <1>1, <1>2 DEF NoneCome, Untold
  <2> QED
    BY <1>9, <2>1
<1>11. Distinct(dl'.list)
  BY <1>2, <1>10 DEF Distinct
<1>12. DownloadInv' /\ PlacedInv'
  BY <1>1, <1>10, <1>11, RestKeeps
<1>13. ShelfInv'
  BY <1>1, <1>7 DEF ReadingInv, ShelfInv
<1>14. Derived(rows)' /\ Derived(content)' /\ \A k \in DOMAIN dl'.list : From(dl.list[k].index, dl.list[k].entry)'
  <2>1. \A i, e : From(i, e) => From(i, e)'
    BY <1>1, OnlyMore
  <2>2. \A k \in DOMAIN rows' : From(k, rows'[k])
    BY <1>1, <1>5, <1>6, RowsFrom
  <2> QED
    BY <1>1, <1>2, <1>10, <2>1, <2>2, RowsFrom DEF Derived
<1>15. ASSUME Steady'
       PROVE  TablesSteady' /\ DownloadSteady' /\ (rows # NoEntries => rows' = rows)
  <2>1. Steady /\ TablesSteady
    BY <1>1, <1>15, OnlyMore DEF ReadingInv, SteadyInv
  <2>2. shelf.on /\ rows' = new /\ new \in seen /\ new # NoEntries /\ dl.list = InOrder(new)
    BY <1>1, <1>8, <2>1 DEF TablesSteady
  <2>3. rows # NoEntries => rows' = rows
    BY <2>1, <2>2 DEF TablesSteady, Steady
  <2>4. DOMAIN content \subseteq DOMAIN rows'
    BY <2>1, <2>3, RowsFrom DEF TablesSteady
  <2>5. TablesSteady'
    BY <1>1, <2>1, <2>2, <2>4 DEF TablesSteady, Sizes, AllStored
  <2>6. DownloadSteady'
    BY <1>1, <2>2 DEF DownloadSteady
  <2> QED
    BY <2>3, <2>5, <2>6
<1> QED
  BY <1>1, <1>12, <1>13, <1>14, <1>15, DownloadKeeps

\* The download goes on, and the tables stay.
LEMMA QuietDownload ==
  ASSUME ReadingInv, UNCHANGED <<tablesOf, mem, alive, rpc, job, plan, seen, dropped>>,
         DownloadInv', PlacedInv', dl'.list = dl.list,
         dpc' \notin {"purge", "store"},
         dpc' \in {"partition", "begin", "work", "shelf", "state"} =>
           dpc \in {"partition", "begin", "work", "shelf", "state"}
  PROVE  ReadingInv'
<1>1. UNCHANGED <<shelf, rows, content, progress, mem, alive, rpc, job, plan, seen, dropped>>
  BY DEF tablesOf
<1>2. ShelfInv'
  BY <1>1 DEF ReadingInv, ShelfInv
<1>3. Derived(rows)' /\ Derived(content)'
      /\ \A k \in DOMAIN dl'.list : From(dl.list[k].index, dl.list[k].entry)'
  BY <1>1 DEF ReadingInv, DerivedInv, Derived, From
<1>4. Steady' => TablesSteady' /\ DownloadSteady'
  <2>1. Steady' => Steady
    BY <1>1 DEF Steady
  <2>2. Steady => TablesSteady /\ DownloadSteady
    BY DEF ReadingInv, SteadyInv
  <2>3. TablesSteady => TablesSteady'
    BY <1>1 DEF TablesSteady, Sizes, AllStored
  <2>4. DownloadSteady => DownloadSteady'
    BY <1>1 DEF DownloadSteady
  <2> QED
    BY <2>1, <2>2, <2>3, <2>4
<1> QED
  BY <1>1, <1>2, <1>3, <1>4, DownloadKeeps

\* What was placed stays placed.
LEMMA PlacedMore ==
  ASSUME DownloadInv, PlacedInv, dl' \in Downloads, Placing \subseteq Placing',
         ~dropped' /\ alive' =>
           /\ ~dropped /\ alive
           /\ dl'.cached = dl.cached \/ (dl'.cached = dl.cached + 1 /\ Placing # Placing')
  PROVE  PlacedInv'
<1> SUFFICES ASSUME ~dropped', alive' PROVE dl'.cached <= Cardinality(Placing')
  BY DEF PlacedInv
<1>1. dl.cached <= Cardinality(Placing) /\ dl \in Downloads /\ dl.cached \in Nat
  BY DEF PlacedInv, DownloadInv, Downloads
<1>2. IsFiniteSet(Placing') /\ Cardinality(Placing') \in Nat
  <2>1. Placing' \in SUBSET ToSet(dl'.list)
    BY DEF Placing
  <2>2. IsFiniteSet(ToSet(dl'.list))
    BY ListIsFinite DEF Downloads
  <2> QED
    BY <2>1, <2>2, FS_Subset, FS_CardinalityType
<1>3. IsFiniteSet(Placing) /\ Cardinality(Placing) \in Nat
  BY <1>1, PlacingIsFinite
<1>4. Placing \in SUBSET Placing'
  OBVIOUS
<1>5. Cardinality(Placing) <= Cardinality(Placing')
      /\ (Cardinality(Placing) = Cardinality(Placing') => Placing = Placing')
  BY <1>2, <1>4, FS_Subset
<1> QED
  BY <1>1, <1>2, <1>3, <1>5

\* A chapter after another.
LEMMA PartitionKeeps ==
  ASSUME ReadingInv, Partition
  PROVE  ReadingInv'
<1>1. /\ dpc = "partition"
      /\ UNCHANGED <<tablesOf, mem, alive, tasks, reports, told, rpc, job, plan, seen, dropped>>
      /\ UNCHANGED content
  BY DEF Partition, requests, tablesOf
<1>2. /\ dl \in Downloads /\ dl.list \in Seq(Placed) /\ dl.todo \in Seq(Placed)
      /\ dl.next \in Nat \ {0} /\ dl.cached \in Nat /\ dl.failed = 0 /\ dl.done = dl.cached
      /\ Total = Len(dl.list) /\ Total \in Nat /\ DOMAIN dl.list = 1 .. Total
      /\ Untold /\ dl.next <= Total + 1 /\ Len(dl.todo) + dl.cached = dl.next - 1
  <2>1. dl \in Downloads /\ Untold /\ dl.failed = 0 /\ dl.done = dl.cached
        /\ dl.next <= Total + 1 /\ Len(dl.todo) + dl.cached = dl.next - 1
    BY <1>1 DEF ReadingInv, DownloadInv
  <2> QED
    BY <2>1 DEF Downloads, Total
<1>3. /\ Distinct(dl.list) /\ Distinct(dl.todo)
      /\ \A k \in DOMAIN dl.todo : \E m \in 1 .. dl.next - 1 : m <= Total /\ dl.todo[k] = dl.list[m]
  BY DEF ReadingInv, DownloadInv, Distinct
<1>4. Untold'
  BY <1>1, <1>2 DEF Untold
<1>5. CASE dl.next > Total
  <2>1. dpc' = "begin" /\ dl' = dl
    BY <1>2, <1>5 DEF Partition
  <2>2. dl.next = Total + 1
    BY <1>2, <1>5
  <2>3. UNCHANGED <<Total, Coming, Placing, Waiting>>
    BY <1>1, <2>1 DEF Total, Coming, Placing, Waiting
  <2>4. tasks' \in [DOMAIN tasks' -> TaskStates]
    BY <1>1 DEF ReadingInv, DownloadInv
  <2>5. dpc' \in DownloadPlaces
    BY <2>1 DEF DownloadPlaces
  <2>6. /\ \A k, m \in DOMAIN dl'.list : dl'.list[k].index = dl'.list[m].index => k = m
        /\ \A k \in DOMAIN dl'.todo : \E m \in 1 .. dl'.next - 1 : m <= Total' /\ dl'.todo[k] = dl'.list[m]
        /\ \A k, m \in DOMAIN dl'.todo : dl'.todo[k].index = dl'.todo[m].index => k = m
    BY <1>3, <2>1, <2>3 DEF Distinct
  <2>7. DownloadInv'
    BY <1>2, <1>4, <2>1, <2>2, <2>3, <2>4, <2>5, <2>6 DEF DownloadInv
  <2>8. PlacedInv'
    BY <1>1, <2>1, <2>3 DEF ReadingInv, PlacedInv
  <2> QED
    BY <1>1, <2>1, <2>7, <2>8, QuietDownload
<1>6. CASE dl.next <= Total
  <2> DEFINE m == dl.next
             e == dl.list[m]
  <2>1. m \in 1 .. Total /\ e \in Placed /\ m = dl.next /\ m \in Nat
    BY <1>2, <1>6
  <2>2. PICK todo \in Seq(Placed), c \in Nat :
          /\ dl' = [dl EXCEPT !.next = m + 1, !.cached = c, !.done = c, !.todo = todo]
          /\ Len(todo) + c = m
          /\ \/ todo = dl.todo /\ c = dl.cached + 1 /\ e.index \in DOMAIN content
             \/ todo = Append(dl.todo, e) /\ c = dl.cached
    <3>1. CASE e.index \in DOMAIN content
      <4>1. dl' = [dl EXCEPT !.next = m + 1, !.cached = dl.cached + 1, !.done = dl.cached + 1, !.todo = dl.todo]
        BY <1>2, <1>6, <3>1 DEF Partition, Downloads
      <4>2. Len(dl.todo) + (dl.cached + 1) = m /\ dl.cached + 1 \in Nat
        <5>1. /\ Len(dl.todo) \in Nat /\ dl.cached \in Nat /\ m \in Nat
              /\ Len(dl.todo) + dl.cached = m - 1
          BY <1>2
        <5> HIDE DEF m
        <5> QED
          BY <5>1
      <4> QED
        BY <1>2, <3>1, <4>1, <4>2
    <3>2. CASE e.index \notin DOMAIN content
      <4>1. dl' = [dl EXCEPT !.next = m + 1, !.cached = dl.cached, !.done = dl.cached, !.todo = Append(dl.todo, e)]
        BY <1>2, <1>6, <3>2 DEF Partition, Downloads
      <4>2. Append(dl.todo, e) \in Seq(Placed) /\ Len(Append(dl.todo, e)) = Len(dl.todo) + 1
        BY <1>2, <2>1
      <4>3. Len(dl.todo) \in Nat
        BY <1>2
      <4>4. Len(Append(dl.todo, e)) + dl.cached = m
        <5>1. /\ Len(dl.todo) \in Nat /\ dl.cached \in Nat /\ m \in Nat
              /\ Len(dl.todo) + dl.cached = m - 1
          BY <1>2
        <5>2. Len(Append(dl.todo, e)) = Len(dl.todo) + 1
          BY <4>2
        <5> HIDE DEF m, e
        <5> QED
          BY <5>1, <5>2
      <4> QED
        BY <1>2, <4>1, <4>2, <4>4
    <3> QED
      BY <3>1, <3>2
  <2>3. /\ dl' \in Downloads /\ dl'.list = dl.list /\ dl'.next = m + 1 /\ dl'.cached = c
        /\ dl'.done = c /\ dl'.failed = 0 /\ dl'.todo = todo /\ dpc' = dpc /\ Total' = Total
    <3>1. dpc' = dpc
      BY <1>6 DEF Partition
    <3>2. m + 1 \in Nat \ {0}
      BY <2>1
    <3> QED
      BY <1>2, <2>2, <3>1, <3>2 DEF Downloads, Total
  <2>4. \A n \in 1 .. m - 1 : n <= Total => dl.list[n].index # e.index
    <3> TAKE n \in 1 .. m - 1
    <3> HAVE n <= Total
    <3>1. n \in DOMAIN dl.list /\ m \in DOMAIN dl.list /\ n # m
      BY <1>2, <2>1
    <3> HIDE DEF m
    <3> QED
      BY <3>1, <1>3 DEF Distinct
  <2>5. \A k \in DOMAIN dl.todo : dl.todo[k].index # e.index
    BY <1>3, <2>4
  <2> HIDE DEF m, e
  <2>6. \A k \in DOMAIN todo : todo[k] = e \/ (k \in DOMAIN dl.todo /\ todo[k] = dl.todo[k])
    <3>1. CASE todo = dl.todo
      BY <3>1
    <3>2. CASE todo = Append(dl.todo, e)
      <4> TAKE k \in DOMAIN todo
      <4>1. Len(dl.todo) \in Nat /\ DOMAIN dl.todo = 1 .. Len(dl.todo) /\ DOMAIN todo = 1 .. Len(dl.todo) + 1
        BY <1>2, <2>1, <3>2
      <4>2. \A q \in 1 .. Len(dl.todo) + 1 : Append(dl.todo, e)[q] = IF q <= Len(dl.todo) THEN dl.todo[q] ELSE e
        BY <1>2, <2>1
      <4>3. k \in 1 .. Len(dl.todo) + 1 /\ (k <= Len(dl.todo) => k \in DOMAIN dl.todo)
        BY <4>1
      <4> QED
        BY <3>2, <4>2, <4>3
    <3> QED
      BY <2>2, <3>1, <3>2
  <2>7. \A k \in DOMAIN todo : \E n \in 1 .. (m + 1) - 1 : n <= Total /\ todo[k] = dl.list[n]
    <3> TAKE k \in DOMAIN todo
    <3>1. CASE todo[k] = e
      <4>1. m \in 1 .. (m + 1) - 1 /\ m <= Total
        BY <1>2, <2>1
      <4> QED
        BY <3>1, <4>1 DEF e
    <3>2. CASE k \in DOMAIN dl.todo /\ todo[k] = dl.todo[k]
      <4>1. PICK n \in 1 .. m - 1 : n <= Total /\ dl.todo[k] = dl.list[n]
        BY <1>3, <3>2 DEF m
      <4>2. n \in 1 .. (m + 1) - 1
        BY <2>1
      <4> QED
        BY <3>2, <4>1, <4>2
    <3> QED
      BY <2>6, <3>1, <3>2
  <2>8. \A k, n \in DOMAIN todo : todo[k].index = todo[n].index => k = n
    <3>1. CASE todo = dl.todo
      BY <1>3, <3>1 DEF Distinct
    <3>2. CASE todo = Append(dl.todo, e)
      <4> TAKE k, n \in DOMAIN todo
      <4> HAVE todo[k].index = todo[n].index
      <4>1. Len(dl.todo) \in Nat /\ DOMAIN dl.todo = 1 .. Len(dl.todo) /\ DOMAIN todo = 1 .. Len(dl.todo) + 1
        BY <1>2, <2>1, <3>2
      <4>2. \A q \in 1 .. Len(dl.todo) + 1 : todo[q] = IF q <= Len(dl.todo) THEN dl.todo[q] ELSE e
        BY <1>2, <2>1, <3>2
      <4>3. \A q \in DOMAIN todo : q = Len(dl.todo) + 1 \/ q \in DOMAIN dl.todo
        BY <4>1
      <4>4. \A q \in DOMAIN todo : q = Len(dl.todo) + 1 => todo[q].index = e.index
        BY <4>1, <4>2
      <4>5. \A q \in DOMAIN todo : q \in DOMAIN dl.todo =>
              todo[q].index = dl.todo[q].index /\ todo[q].index # e.index
        BY <4>1, <4>2, <2>5
      <4>6. k \in DOMAIN dl.todo /\ n \in DOMAIN dl.todo => k = n
        BY <4>5, <1>3 DEF Distinct
      <4> QED
        BY <4>3, <4>4, <4>5, <4>6
    <3> QED
      BY <2>2, <3>1, <3>2
  <2>9. tasks' \in [DOMAIN tasks' -> TaskStates] /\ dpc' \in DownloadPlaces
    BY <1>1, <2>3 DEF ReadingInv, DownloadInv
  <2>10. dl'.next <= Total' + 1 /\ Len(dl'.todo) + dl'.cached = dl'.next - 1
    <3>1. m + 1 <= Total + 1 /\ Len(todo) + c = (m + 1) - 1
      BY <1>2, <2>1, <2>2
    <3> QED
      BY <2>3, <3>1
  <2>11. DownloadInv'
    BY <1>1, <1>3, <1>4, <2>3, <2>7, <2>8, <2>9, <2>10 DEF DownloadInv, Distinct
  <2>12. Placing \subseteq Placing' /\ (todo = dl.todo => Placing # Placing')
    <3>1. ASSUME NEW x \in Placing PROVE x \in Placing'
      <4>1. /\ x \in ToSet(dl.list) /\ x.index \in DOMAIN content
            /\ \A k \in DOMAIN dl.todo : dl.todo[k] # x
        BY <1>1 DEF Placing, Coming
      <4>2. PICK n \in 1 .. m - 1 : n <= Total /\ x = dl.list[n]
        BY DEF Placing, m
      <4>3. n \in 1 .. (m + 1) - 1
        BY <2>1
      <4>4. \E q \in 1 .. dl'.next - 1 : q <= Total' /\ x = dl'.list[q]
        BY <2>3, <4>2, <4>3
      <4>5. x # e
        BY <2>4, <4>2
      <4>6. \A k \in Coming' : dl'.todo[k] # x
        BY <1>1, <2>3, <2>6, <4>1, <4>5 DEF Coming
      <4> QED
        BY <1>1, <2>3, <4>1, <4>4, <4>6 DEF Placing
    <3>2. ASSUME todo = dl.todo PROVE e \in Placing' /\ e \notin Placing
      <4>1. e \notin Placing
        BY <2>4 DEF Placing, m
      <4>2. e \in ToSet(dl.list)
        BY <1>2, <2>1 DEF ToSet, e
      <4>3. e.index \in DOMAIN content
        <5>1. \/ todo = dl.todo /\ c = dl.cached + 1 /\ e.index \in DOMAIN content
              \/ todo = Append(dl.todo, e) /\ c = dl.cached
          BY <2>2
        <5>2. Len(todo) + c = m /\ Len(dl.todo) + dl.cached = m - 1 /\ Len(dl.todo) \in Nat
          BY <1>2, <2>2 DEF m
        <5>3. c # dl.cached
          BY <1>2, <2>1, <2>2, <3>2, <5>2
        <5> QED
          BY <5>1, <5>3
      <4>4. m \in 1 .. (m + 1) - 1 /\ m <= Total
        BY <1>2, <2>1
      <4>5. \E q \in 1 .. dl'.next - 1 : q <= Total' /\ e = dl'.list[q]
        BY <2>3, <4>4 DEF e
      <4>6. \A k \in Coming' : dl'.todo[k] # e
        BY <1>1, <2>3, <2>5, <3>2 DEF Coming
      <4> QED
        BY <1>1, <2>3, <4>1, <4>2, <4>3, <4>5, <4>6 DEF Placing
    <3> QED
      BY <3>1, <3>2
  <2>13. PlacedInv'
    BY <1>1, <2>2, <2>3, <2>12, PlacedMore DEF ReadingInv
  <2> QED
    BY <1>1, <2>3, <2>11, <2>13, QuietDownload
<1> QED
  BY <1>2, <1>5, <1>6

\* The workers begin.
LEMMA BeginKeeps ==
  ASSUME ReadingInv, Begin
  PROVE  ReadingInv'
<1> DEFINE D == DOMAIN dl.todo
           fresh == [at |-> "waiting", attempt |-> 1, number |-> 0]
<1>1. /\ dpc = "begin" /\ tasks' = [k \in D |-> fresh]
      /\ dpc' = (IF dl.todo = <<>> THEN "shelf" ELSE "work")
      /\ UNCHANGED <<tablesOf, mem, alive, dl, rpc, job, plan, seen, dropped>>
      /\ UNCHANGED content
  BY DEF Begin, requests, tablesOf
<1>2. /\ dl \in Downloads /\ dl.todo \in Seq(Placed) /\ dl.cached \in Nat /\ dl.failed = 0
      /\ dl.done = dl.cached /\ Untold /\ Total \in Nat /\ dl.next = Total + 1
      /\ Len(dl.todo) + dl.cached = Total
  <2>1. /\ dl \in Downloads /\ dl.failed = 0 /\ dl.done = dl.cached /\ Untold
        /\ dl.next = Total + 1 /\ Len(dl.todo) + dl.cached = dl.next - 1
    BY <1>1 DEF ReadingInv, DownloadInv
  <2>2. dl.list \in Seq(Placed) /\ dl.todo \in Seq(Placed) /\ dl.cached \in Nat
    BY <2>1 DEF Downloads
  <2>3. Total \in Nat
    BY <2>2 DEF Total
  <2>4. Len(dl.todo) + dl.cached = Total
    BY <2>1, <2>3
  <2> QED
    BY <2>1, <2>2, <2>3, <2>4
<1>3. D = 1 .. Len(dl.todo) /\ Len(dl.todo) \in Nat /\ (dl.todo = <<>> => D = {})
  BY <1>2
<1>4. IsFiniteSet(D) /\ Cardinality(D) = Len(dl.todo)
  <2>1. 1 \in Int /\ Len(dl.todo) \in Int
    BY <1>3
  <2>2. IsFiniteSet(1 .. Len(dl.todo))
        /\ Cardinality(1 .. Len(dl.todo)) = IF 1 > Len(dl.todo) THEN 0 ELSE Len(dl.todo) - 1 + 1
    BY <2>1, FS_Interval
  <2> QED
    BY <1>3, <2>2
<1>5. fresh \in TaskStates
  <2>1. 1 \in Nat /\ 0 \in Nat /\ "waiting" \in TaskPlaces
    BY DEF TaskPlaces
  <2> QED
    BY <2>1, Zenon DEF TaskStates
<1>6. DOMAIN tasks' = D /\ tasks' \in [D -> TaskStates] /\ \A k \in D : tasks'[k].at = "waiting"
  BY <1>1, <1>5
<1>7. Waiting' = D /\ Counting' = {} /\ Reporting' = {}
  BY <1>6 DEF Waiting, Counting, Reporting
<1>8. CountersInv'
  <2>1. Cardinality({}) = 0
    BY FS_EmptySet
  <2>2. Cardinality(Waiting') = Len(dl.todo) /\ Cardinality(Counting') = 0
    BY <1>4, <1>7, <2>1
  <2>3. UNCHANGED <<dl, Total>>
    BY <1>1 DEF Total
  <2>4. dl.cached + dl.failed + Cardinality(Waiting') = Total
        /\ dl.done + Cardinality(Counting') = dl.cached + dl.failed
    <3>1. /\ Len(dl.todo) \in Nat /\ dl.cached \in Nat /\ dl.failed = 0 /\ Total \in Nat
          /\ Len(dl.todo) + dl.cached = Total /\ dl.done = dl.cached
      BY <1>2, <1>3
    <3> QED
      BY <2>2, <3>1
  <2> QED
    BY <1>2, <2>3, <2>4 DEF CountersInv
<1>9. ReportsInv'
  <2>1. CASE dl.cached > 0
    <3>1. /\ reports' = [m \in DOMAIN reports \union {dl.done} |->
                     IF m = dl.done THEN [cached |-> dl.cached, failed |-> dl.failed] ELSE reports[m]]
          /\ told' = told + 1
      BY <2>1 DEF Begin, Tell
    <3>2. reports = NoReports /\ told = 0 /\ DOMAIN reports = {}
      BY <1>2 DEF Untold, NoReports
    <3>3. /\ DOMAIN reports' = {dl.done} /\ told' = 1
          /\ reports'[dl.done].cached = dl.cached /\ reports'[dl.done].failed = dl.failed
      BY <3>1, <3>2
    <3>4. IsFiniteSet({dl.done}) /\ Cardinality({dl.done}) = 1
      BY FS_Singleton
    <3>5. dl.done \in Nat /\ dl.done <= dl.done /\ dl.done <= dl.cached + dl.failed
      BY <1>2
    <3> QED
      BY <1>1, <1>7, <3>3, <3>4, <3>5 DEF ReportsInv
  <2>2. CASE ~(dl.cached > 0)
    <3>1. reports' = NoReports /\ told' = 0 /\ DOMAIN NoReports = {}
      BY <1>2, <2>2 DEF Begin, Untold, NoReports
    <3>2. DOMAIN reports' = {} /\ IsFiniteSet({}) /\ Cardinality({}) = 0
      BY <3>1, FS_EmptySet
    <3> QED
      BY <1>7, <3>1, <3>2 DEF ReportsInv
  <2> QED
    BY <2>1, <2>2
<1>10. DownloadInv'
  <2>1. dl' = dl /\ Total' = Total /\ dpc' \in {"work", "shelf"} /\ dpc' \in DownloadPlaces
    BY <1>1 DEF Total, DownloadPlaces
  <2>2. /\ \A k, m \in DOMAIN dl'.list : dl'.list[k].index = dl'.list[m].index => k = m
        /\ \A k \in DOMAIN dl'.todo : \E m \in 1 .. dl'.next - 1 : m <= Total' /\ dl'.todo[k] = dl'.list[m]
        /\ \A k, m \in DOMAIN dl'.todo : dl'.todo[k].index = dl'.todo[m].index => k = m
    BY <2>1 DEF ReadingInv, DownloadInv
  <2>3. dpc' = "shelf" => \A k \in DOMAIN tasks' : tasks'[k].at = "gone"
    BY <1>1, <1>3, <1>6
  <2>4. dl'.next = Total' + 1 /\ DOMAIN tasks' = DOMAIN dl'.todo /\ dl' \in Downloads
        /\ tasks' \in [DOMAIN tasks' -> TaskStates]
    BY <1>2, <1>6, <2>1
  <2> QED
    BY <1>8, <1>9, <2>1, <2>2, <2>3, <2>4 DEF DownloadInv
<1>11. PlacedInv'
  <2>1. Coming = D /\ Coming' = D
    BY <1>1, <1>7 DEF Coming
  <2>2. UNCHANGED Placing
    BY <1>1, <2>1 DEF Placing, Total
  <2> QED
    BY <1>1, <2>2 DEF ReadingInv, PlacedInv
<1>12. dl'.list = dl.list /\ dpc' \in {"work", "shelf"}
  BY <1>1
<1> QED
  BY <1>1, <1>10, <1>11, <1>12, QuietDownload

-----------------------------------------------------------------------------

\* A task that is not over is of a download at work.
LEMMA TaskNow ==
  ASSUME ReadingInv, NEW k \in DOMAIN tasks, tasks[k].at # "gone"
  PROVE  /\ dpc = "work" /\ DOMAIN tasks = DOMAIN dl.todo /\ CountersInv /\ ReportsInv
         /\ tasks \in [DOMAIN tasks -> TaskStates] /\ tasks[k] \in TaskStates
         /\ dl \in Downloads /\ dl.list \in Seq(Placed) /\ dl.todo \in Seq(Placed)
         /\ dl.cached \in Nat /\ dl.failed \in Nat /\ dl.done \in Nat /\ Total \in Nat
         /\ IsFiniteSet(Waiting) /\ Cardinality(Waiting) \in Nat
         /\ IsFiniteSet(Counting) /\ Cardinality(Counting) \in Nat
<1>1. dl \in Downloads /\ dpc \in DownloadPlaces /\ tasks \in [DOMAIN tasks -> TaskStates]
  BY DEF ReadingInv, DownloadInv
<1>2. tasks # <<>>
  OBVIOUS
<1>3. dpc = "work"
  BY <1>1, <1>2 DEF ReadingInv, DownloadInv, Untold, DownloadPlaces
<1>4. DOMAIN tasks = DOMAIN dl.todo /\ CountersInv /\ ReportsInv
  BY <1>3 DEF ReadingInv, DownloadInv
<1>5. /\ dl.list \in Seq(Placed) /\ dl.todo \in Seq(Placed)
      /\ dl.cached \in Nat /\ dl.failed \in Nat /\ dl.done \in Nat
  BY <1>1 DEF Downloads
<1>6. Total \in Nat
  BY <1>5 DEF Total
<1>7. IsFiniteSet(DOMAIN tasks)
  <2>1. DOMAIN tasks = 1 .. Len(dl.todo) /\ 1 \in Int /\ Len(dl.todo) \in Int
    BY <1>4, <1>5
  <2> QED
    BY <2>1, FS_Interval
<1>8. Waiting \in SUBSET DOMAIN tasks /\ Counting \in SUBSET DOMAIN tasks
  BY DEF Waiting, Counting
<1>9. /\ IsFiniteSet(Waiting) /\ Cardinality(Waiting) \in Nat
      /\ IsFiniteSet(Counting) /\ Cardinality(Counting) \in Nat
  BY <1>7, <1>8, FS_Subset, FS_CardinalityType
<1> QED
  BY <1>1, <1>3, <1>4, <1>5, <1>6, <1>9

\* A task goes on.
LEMMA TaskSets ==
  ASSUME tasks \in [DOMAIN tasks -> TaskStates], NEW k \in DOMAIN tasks, NEW t \in TaskStates,
         tasks' = [tasks EXCEPT ![k] = t]
  PROVE  /\ Waiting' = IF t.at \in {"waiting", "asking", "store"} THEN Waiting \union {k} ELSE Waiting \ {k}
         /\ Counting' = IF t.at = "count" THEN Counting \union {k} ELSE Counting \ {k}
         /\ Reporting' = IF t.at = "report" THEN Reporting \union {k} ELSE Reporting \ {k}
         /\ DOMAIN tasks' = DOMAIN tasks /\ tasks' \in [DOMAIN tasks -> TaskStates]
         /\ tasks'[k] = t /\ \A m \in DOMAIN tasks \ {k} : tasks'[m] = tasks[m]
<1>1. /\ DOMAIN tasks' = DOMAIN tasks /\ tasks' \in [DOMAIN tasks -> TaskStates]
      /\ tasks'[k] = t /\ \A m \in DOMAIN tasks \ {k} : tasks'[m] = tasks[m]
  OBVIOUS
<1>2. Waiting' = IF t.at \in {"waiting", "asking", "store"} THEN Waiting \union {k} ELSE Waiting \ {k}
  BY <1>1 DEF Waiting
<1>3. Counting' = IF t.at = "count" THEN Counting \union {k} ELSE Counting \ {k}
  BY <1>1 DEF Counting
<1>4. Reporting' = IF t.at = "report" THEN Reporting \union {k} ELSE Reporting \ {k}
  BY <1>1 DEF Reporting
<1> QED
  BY <1>1, <1>2, <1>3, <1>4

\* What a step of a task leaves of the invariant.
LEMMA TaskKeeps ==
  ASSUME ReadingInv, NEW k \in DOMAIN tasks, NEW t \in TaskStates, tasks[k].at # "gone",
         tasks' = [tasks EXCEPT ![k] = t], dpc' = dpc, dl' \in Downloads,
         dl'.list = dl.list, dl'.next = dl.next, dl'.todo = dl.todo,
         CountersInv', ReportsInv'
  PROVE  DownloadInv'
<1>1. dpc = "work" /\ DOMAIN tasks = DOMAIN dl.todo /\ tasks \in [DOMAIN tasks -> TaskStates]
  BY TaskNow
<1>2. DOMAIN tasks' = DOMAIN tasks /\ tasks' \in [DOMAIN tasks -> TaskStates]
  BY <1>1
<1>3. Total' = Total
  BY DEF Total
<1>4. /\ \A i, m \in DOMAIN dl'.list : dl'.list[i].index = dl'.list[m].index => i = m
      /\ \A i \in DOMAIN dl'.todo : \E m \in 1 .. dl'.next - 1 : m <= Total' /\ dl'.todo[i] = dl'.list[m]
      /\ \A i, m \in DOMAIN dl'.todo : dl'.todo[i].index = dl'.todo[m].index => i = m
      /\ dl'.next = Total' + 1
  BY <1>1, <1>3 DEF ReadingInv, DownloadInv
<1>5. dpc' = "work" /\ dpc' \in DownloadPlaces
  BY <1>1 DEF DownloadPlaces
<1> QED
  BY <1>1, <1>2, <1>4, <1>5 DEF DownloadInv

\* Nothing is reported.
LEMMA ReportsStay ==
  ASSUME ReportsInv, UNCHANGED <<reports, told>>, dl'.done = dl.done,
         Reporting' \subseteq Reporting, \A k \in Reporting' : tasks'[k].number = tasks[k].number
  PROVE  ReportsInv'
  BY DEF ReportsInv

\* What was placed stays placed, when fewer tasks are waiting.
LEMMA PlacingStays ==
  ASSUME dpc = "work", dpc' = "work", dl'.list = dl.list, dl'.next = dl.next, dl'.todo = dl.todo,
         Waiting' \subseteq Waiting, DOMAIN content \subseteq DOMAIN content'
  PROVE  Placing \subseteq Placing'
<1> SUFFICES ASSUME NEW x \in Placing PROVE x \in Placing'
  OBVIOUS
<1>1. /\ x \in ToSet(dl.list) /\ x.index \in DOMAIN content
      /\ \E m \in 1 .. dl.next - 1 : m <= Total /\ x = dl.list[m]
      /\ \A k \in Waiting : dl.todo[k] # x
  BY DEF Placing, Coming
<1>2. Total' = Total
  BY DEF Total
<1> QED
  BY <1>1, <1>2 DEF Placing, Coming

\* A task is claimed; its chapter is asked for.
LEMMA ClaimKeeps ==
  ASSUME ReadingInv, NEW k \in DOMAIN tasks, Claim(k) \/ AskChapter(k)
  PROVE  ReadingInv'
<1>1. /\ UNCHANGED <<tablesOf, mem, alive, dpc, reports, told, rpc, job, plan, seen, dropped>>
      /\ UNCHANGED content /\ tasks[k].at \in {"waiting", "asking"}
  BY DEF Claim, AskChapter, requests, tablesOf
<1>2. /\ dpc = "work" /\ CountersInv /\ ReportsInv /\ tasks \in [DOMAIN tasks -> TaskStates]
      /\ tasks[k] \in TaskStates /\ dl \in Downloads
      /\ dl.cached \in Nat /\ dl.failed \in Nat /\ dl.done \in Nat /\ Total \in Nat
      /\ IsFiniteSet(Waiting) /\ Cardinality(Waiting) \in Nat
      /\ IsFiniteSet(Counting) /\ Cardinality(Counting) \in Nat
  BY <1>1, TaskNow
<1>3. PICK t \in TaskStates, failed \in Nat :
        /\ tasks' = [tasks EXCEPT ![k] = t]
        /\ dl' = [dl EXCEPT !.failed = failed]
        /\ \/ t.at \in {"asking", "store"} /\ failed = dl.failed
           \/ t.at = "gone" /\ failed = dl.failed /\ ~alive
           \/ t.at = "count" /\ failed = dl.failed + 1
  <2>0. \A where \in TaskPlaces : [tasks[k] EXCEPT !.at = where] \in TaskStates /\ [tasks[k] EXCEPT !.at = where].at = where
    BY <1>2 DEF TaskStates
  <2>1. CASE Claim(k)
    <3>1. PICK where \in {"asking", "gone"} :
            tasks' = [tasks EXCEPT ![k].at = where] /\ dl' = dl /\ (where = "gone" => ~alive)
      BY <2>1 DEF Claim
    <3>2. tasks' = [tasks EXCEPT ![k] = [tasks[k] EXCEPT !.at = where]] /\ where \in TaskPlaces
      BY <1>2, <3>1 DEF TaskPlaces
    <3>3. dl' = [dl EXCEPT !.failed = dl.failed]
      BY <1>2, <3>1 DEF Downloads
    <3> QED
      BY <1>2, <2>0, <3>1, <3>2, <3>3
  <2>2. CASE AskChapter(k)
    <3>0. {"store", "count"} \subseteq TaskPlaces
      BY DEF TaskPlaces
    <3>1. CASE tasks' = [tasks EXCEPT ![k].at = "store"] /\ dl' = dl
      <4>1. tasks' = [tasks EXCEPT ![k] = [tasks[k] EXCEPT !.at = "store"]]
        BY <1>2, <3>1
      <4>2. dl' = [dl EXCEPT !.failed = dl.failed]
        BY <1>2, <3>1 DEF Downloads
      <4> QED
        BY <1>2, <2>0, <3>0, <4>1, <4>2
    <3>2. CASE tasks' = [tasks EXCEPT ![k].attempt = 2] /\ dl' = dl
      <4>1. tasks' = [tasks EXCEPT ![k] = [tasks[k] EXCEPT !.attempt = 2]]
        BY <1>2, <3>2
      <4>2. dl' = [dl EXCEPT !.failed = dl.failed]
        BY <1>2, <3>2 DEF Downloads
      <4>3. /\ [tasks[k] EXCEPT !.attempt = 2] \in TaskStates
            /\ [tasks[k] EXCEPT !.attempt = 2].at = "asking"
        BY <1>2, <2>2 DEF TaskStates, AskChapter
      <4> QED
        BY <1>2, <4>1, <4>2, <4>3
    <3>3. CASE tasks' = [tasks EXCEPT ![k].at = "count"] /\ dl' = [dl EXCEPT !.failed = @ + 1]
      <4>1. tasks' = [tasks EXCEPT ![k] = [tasks[k] EXCEPT !.at = "count"]]
        BY <1>2, <3>3
      <4>2. dl' = [dl EXCEPT !.failed = dl.failed + 1] /\ dl.failed + 1 \in Nat
        BY <1>2, <3>3
      <4> QED
        BY <1>2, <2>0, <3>0, <4>1, <4>2
    <3> QED
      BY <2>2, <3>1, <3>2, <3>3 DEF AskChapter
  <2> QED
    BY <2>1, <2>2
<1>4. /\ dl' \in Downloads /\ dl'.list = dl.list /\ dl'.next = dl.next /\ dl'.todo = dl.todo
      /\ dl'.cached = dl.cached /\ dl'.done = dl.done /\ dl'.failed = failed
  BY <1>2, <1>3 DEF Downloads
<1>5. /\ Waiting' = IF t.at \in {"waiting", "asking", "store"} THEN Waiting \union {k} ELSE Waiting \ {k}
      /\ Counting' = IF t.at = "count" THEN Counting \union {k} ELSE Counting \ {k}
      /\ Reporting' = IF t.at = "report" THEN Reporting \union {k} ELSE Reporting \ {k}
      /\ \A m \in DOMAIN tasks \ {k} : tasks'[m] = tasks[m]
  BY <1>2, <1>3, TaskSets
<1>6. k \in Waiting /\ k \notin Counting /\ k \notin Reporting /\ Reporting \subseteq DOMAIN tasks
  BY <1>1 DEF Waiting, Counting, Reporting
<1>7. Waiting' \subseteq Waiting /\ Reporting' = Reporting
      /\ \A m \in Reporting' : tasks'[m].number = tasks[m].number
  BY <1>3, <1>5, <1>6
<1>8. Total' = Total /\ alive' = alive
  BY <1>1, <1>4 DEF Total
<1>9. CountersInv'
  <2>1. /\ dl.cached + dl.failed + Cardinality(Waiting) <= Total
        /\ alive => dl.cached + dl.failed + Cardinality(Waiting) = Total
        /\ dl.done + Cardinality(Counting) = dl.cached + dl.failed
    BY <1>2 DEF CountersInv
  <2>2. Cardinality(Waiting \ {k}) = Cardinality(Waiting) - 1
        /\ Cardinality(Counting \union {k}) = Cardinality(Counting) + 1
    BY <1>2, <1>6, FS_RemoveElement, FS_AddElement
  <2>3. CASE t.at \in {"asking", "store"} /\ failed = dl.failed
    <3>1. Waiting' = Waiting /\ Counting' = Counting
      BY <1>5, <1>6, <2>3
    <3> QED
      BY <1>4, <1>8, <2>1, <2>3, <3>1 DEF CountersInv
  <2>4. CASE t.at = "gone" /\ failed = dl.failed /\ ~alive
    <3>1. Waiting' = Waiting \ {k} /\ Counting' = Counting
      BY <1>5, <1>6, <2>4
    <3> QED
      BY <1>2, <1>4, <1>8, <2>1, <2>2, <2>4, <3>1 DEF CountersInv
  <2>5. CASE t.at = "count" /\ failed = dl.failed + 1
    <3>1. Waiting' = Waiting \ {k} /\ Counting' = Counting \union {k}
      BY <1>5, <1>6, <2>5
    <3> QED
      BY <1>2, <1>4, <1>8, <2>1, <2>2, <2>5, <3>1 DEF CountersInv
  <2> QED
    BY <1>3, <2>3, <2>4, <2>5
<1>10. ReportsInv'
  BY <1>1, <1>2, <1>4, <1>7, ReportsStay
<1>11. tasks[k].at # "gone"
  BY <1>1
<1>12. DownloadInv'
  BY <1>1, <1>3, <1>4, <1>9, <1>10, <1>11, TaskKeeps
<1>13. PlacedInv'
  <2>1. Placing \subseteq Placing'
    BY <1>1, <1>2, <1>4, <1>7, PlacingStays
  <2> QED
    BY <1>1, <1>4, <2>1, PlacedMore DEF ReadingInv
<1> QED
  BY <1>1, <1>2, <1>4, <1>12, <1>13, QuietDownload

\* A chapter is stored.
LEMMA StoreKeeps ==
  ASSUME ReadingInv, NEW k \in DOMAIN tasks, Store(k)
  PROVE  ReadingInv'
<1> DEFINE e == dl.todo[k]
           i == e.index
           entry == e.entry
           put == [n \in DOMAIN content \union {i} |-> IF n = i THEN entry ELSE content[n]]
<1>1. /\ tasks[k].at = "store" /\ tasks' = [tasks EXCEPT ![k].at = "count"]
      /\ content' = (IF alive /\ shelf.on THEN put ELSE content)
      /\ dl' = (IF alive /\ ~shelf.on THEN [dl EXCEPT !.failed = @ + 1] ELSE [dl EXCEPT !.cached = @ + 1])
      /\ UNCHANGED <<shelf, rows, progress, mem, alive, dpc, reports, told, rpc, job, plan, seen, dropped>>
  BY DEF Store, CacheContent, requests
<1>2. /\ dpc = "work" /\ CountersInv /\ ReportsInv /\ tasks \in [DOMAIN tasks -> TaskStates]
      /\ tasks[k] \in TaskStates /\ dl \in Downloads /\ DOMAIN tasks = DOMAIN dl.todo
      /\ dl.list \in Seq(Placed) /\ dl.todo \in Seq(Placed)
      /\ dl.cached \in Nat /\ dl.failed \in Nat /\ dl.done \in Nat /\ Total \in Nat
      /\ IsFiniteSet(Waiting) /\ Cardinality(Waiting) \in Nat
      /\ IsFiniteSet(Counting) /\ Cardinality(Counting) \in Nat
  BY <1>1, TaskNow
<1>3. PICK t \in TaskStates : tasks' = [tasks EXCEPT ![k] = t] /\ t.at = "count"
  <2>1. "count" \in TaskPlaces
    BY DEF TaskPlaces
  <2>2. [tasks[k] EXCEPT !.at = "count"] \in TaskStates /\ [tasks[k] EXCEPT !.at = "count"].at = "count"
    BY <1>2, <2>1 DEF TaskStates
  <2>3. tasks' = [tasks EXCEPT ![k] = [tasks[k] EXCEPT !.at = "count"]]
    BY <1>1, <1>2
  <2> QED
    BY <2>2, <2>3
<1>4. PICK cached \in Nat, failed \in Nat :
        /\ dl' = [dl EXCEPT !.cached = cached, !.failed = failed]
        /\ cached + failed = dl.cached + dl.failed + 1
        /\ cached = dl.cached \/ (cached = dl.cached + 1 /\ (alive => shelf.on))
  <2>1. CASE alive /\ ~shelf.on
    <3>1. dl' = [dl EXCEPT !.cached = dl.cached, !.failed = dl.failed + 1]
      BY <1>1, <1>2, <2>1 DEF Downloads
    <3>2. dl.failed + 1 \in Nat /\ dl.cached + (dl.failed + 1) = dl.cached + dl.failed + 1
      BY <1>2
    <3> QED
      BY <1>2, <3>1, <3>2
  <2>2. CASE ~(alive /\ ~shelf.on)
    <3>1. dl' = [dl EXCEPT !.cached = dl.cached + 1, !.failed = dl.failed]
      BY <1>1, <1>2, <2>2 DEF Downloads
    <3>2. dl.cached + 1 \in Nat /\ (dl.cached + 1) + dl.failed = dl.cached + dl.failed + 1
      BY <1>2
    <3> QED
      BY <1>2, <2>2, <3>1, <3>2
  <2> QED
    BY <2>1, <2>2
<1>5. /\ dl' \in Downloads /\ dl'.list = dl.list /\ dl'.next = dl.next /\ dl'.todo = dl.todo
      /\ dl'.cached = cached /\ dl'.done = dl.done /\ dl'.failed = failed
  BY <1>2, <1>4 DEF Downloads
<1>6. /\ Waiting' = Waiting \ {k} /\ Counting' = Counting \union {k} /\ Reporting' = Reporting \ {k}
      /\ \A m \in DOMAIN tasks \ {k} : tasks'[m] = tasks[m]
  BY <1>2, <1>3, TaskSets
<1>7. k \in Waiting /\ k \notin Counting /\ k \notin Reporting /\ Reporting \subseteq DOMAIN tasks
  BY <1>1 DEF Waiting, Counting, Reporting
<1>8. Total' = Total /\ alive' = alive
  BY <1>1, <1>5 DEF Total
<1>9. CountersInv'
  <2>1. /\ dl.cached + dl.failed + Cardinality(Waiting) <= Total
        /\ alive => dl.cached + dl.failed + Cardinality(Waiting) = Total
        /\ dl.done + Cardinality(Counting) = dl.cached + dl.failed
    BY <1>2 DEF CountersInv
  <2>2. Cardinality(Waiting \ {k}) = Cardinality(Waiting) - 1
        /\ Cardinality(Counting \union {k}) = Cardinality(Counting) + 1
    BY <1>2, <1>7, FS_RemoveElement, FS_AddElement
  <2>3. /\ Cardinality(Waiting') = Cardinality(Waiting) - 1
        /\ Cardinality(Counting') = Cardinality(Counting) + 1
        /\ dl'.cached + dl'.failed = dl.cached + dl.failed + 1 /\ dl'.done = dl.done
    BY <1>4, <1>5, <1>6, <2>2
  <2>4. /\ (dl.cached + dl.failed + 1) + Cardinality(Waiting') <= Total
        /\ alive => (dl.cached + dl.failed + 1) + Cardinality(Waiting') = Total
        /\ dl.done + Cardinality(Counting') = dl.cached + dl.failed + 1
    <3>1. /\ dl.cached \in Nat /\ dl.failed \in Nat /\ dl.done \in Nat /\ Total \in Nat
          /\ Cardinality(Waiting) \in Nat /\ Cardinality(Counting) \in Nat
      BY <1>2
    <3>2. /\ Cardinality(Waiting') = Cardinality(Waiting) - 1
          /\ Cardinality(Counting') = Cardinality(Counting) + 1
      BY <2>3
    <3> HIDE DEF e, i, entry, put
    <3> QED
      BY <2>1, <3>1, <3>2
  <2> QED
    BY <1>8, <2>3, <2>4 DEF CountersInv
<1>10. ReportsInv'
  <2>1. Reporting' \subseteq Reporting /\ \A m \in Reporting' : tasks'[m].number = tasks[m].number
    BY <1>6, <1>7
  <2> QED
    BY <1>1, <1>2, <1>5, <2>1, ReportsStay
<1>11. tasks[k].at # "gone" /\ dpc' = dpc
  BY <1>1
<1>12. DownloadInv'
  BY <1>3, <1>5, <1>9, <1>10, <1>11, TaskKeeps
<1>13. e \in Placed /\ i \in Nat /\ entry \in Entries
  <2>1. dl.todo \in Seq(Placed) /\ k \in DOMAIN dl.todo
    BY <1>2
  <2>2. e \in Placed
    BY <2>1
  <2> QED
    BY <2>2 DEF Placed
<1>14. PICK m \in 1 .. dl.next - 1 : m <= Total /\ e = dl.list[m]
  BY <1>2 DEF ReadingInv, DownloadInv
<1>15. m \in DOMAIN dl.list /\ e \in ToSet(dl.list)
  <2>1. dl.next \in Nat /\ Total = Len(dl.list)
    BY <1>2 DEF Downloads, Total
  <2>2. m \in DOMAIN dl.list
    BY <1>2, <1>14, <2>1
  <2> QED
    BY <1>14, <2>2 DEF ToSet
<1>16. From(i, entry)
  BY <1>14, <1>15 DEF ReadingInv, DerivedInv
<1>17. put \in Tables /\ DOMAIN put = DOMAIN content \union {i}
  <2> HIDE DEF e, i, entry
  <2>1. content \in Tables
    BY DEF ReadingInv, ShelfInv
  <2>2. [n \in DOMAIN content \union {i} |-> IF n = i THEN entry ELSE content[n]] \in Tables
    BY <1>13, <2>1, TablePut
  <2> QED
    BY <2>2
<1>18. \A n \in DOMAIN put : From(n, put[n])
  BY <1>16, RowsFrom
<1> HIDE DEF put, entry
<1>19. /\ content' \in {put, content} /\ DOMAIN content \subseteq DOMAIN content'
       /\ DOMAIN content' \subseteq DOMAIN content \union {i}
       /\ content' \in Tables /\ (content' # NoEntries => shelf.on)
  <2>1. content \in Tables /\ (content # NoEntries => shelf.on)
    BY DEF ReadingInv, ShelfInv
  <2>2. content' = content \/ (content' = put /\ shelf.on)
    BY <1>1
  <2> QED
    BY <1>17, <2>1, <2>2
<1>20. ShelfInv'
  BY <1>1, <1>19 DEF ReadingInv, ShelfInv
<1>21. /\ Derived(rows)' /\ Derived(content)'
       /\ \A n \in DOMAIN dl'.list : From(dl.list[n].index, dl.list[n].entry)'
  <2>1. \A n, x : From(n, x) => From(n, x)'
    BY <1>1, OnlyMore
  <2>2. \A n \in DOMAIN content' : From(n, content'[n])
    BY <1>18, <1>19, RowsFrom
  <2>3. \A n \in DOMAIN dl.list : From(dl.list[n].index, dl.list[n].entry)
    BY DEF ReadingInv, DerivedInv
  <2> QED
    BY <1>1, <1>5, <2>1, <2>2, <2>3, RowsFrom DEF Derived
<1>22. PlacedInv'
  <2>1. Placing \subseteq Placing'
    BY <1>1, <1>2, <1>5, <1>6, <1>19, PlacingStays
  <2>2. ASSUME alive, cached = dl.cached + 1 PROVE Placing # Placing'
    <3>1. e \notin Placing
      BY <1>2, <1>7 DEF Placing, Coming
    <3>2. e.index \in DOMAIN content'
      BY <1>1, <1>4, <1>17, <2>2, <1>2
    <3>3. \A n \in Coming' : dl'.todo[n] # e
      <4>1. Coming' = Waiting \ {k} /\ Waiting \subseteq DOMAIN dl.todo
        BY <1>1, <1>2, <1>6 DEF Coming, Waiting
      <4>2. \A n \in DOMAIN dl.todo : dl.todo[n].index = dl.todo[k].index => n = k
        BY <1>2 DEF ReadingInv, DownloadInv
      <4> QED
        BY <1>5, <4>1, <4>2
    <3>4. e \in Placing'
      BY <1>5, <1>8, <1>14, <1>15, <3>2, <3>3 DEF Placing
    <3> QED
      BY <3>1, <3>4
  <2> QED
    BY <1>1, <1>4, <1>5, <2>1, <2>2, PlacedMore DEF ReadingInv
<1>23. ASSUME Steady'
       PROVE  TablesSteady' /\ DownloadSteady'
  <2>1. Steady /\ TablesSteady /\ DownloadSteady
    BY <1>1, <1>23, OnlyMore DEF ReadingInv, SteadyInv
  <2>2. rows # NoEntries /\ dl.list = InOrder(rows) /\ rows \in Tables
    BY <1>2, <2>1 DEF DownloadSteady, ReadingInv, ShelfInv
  <2>3. i \in DOMAIN rows
    <3>1. Len(dl.list) = Size(rows) /\ \A n \in 1 .. Size(rows) : dl.list[n].index \in DOMAIN rows
      BY <2>2, InOrderIs
    <3>2. m \in 1 .. Size(rows)
      BY <1>2, <1>15, <3>1
    <3> QED
      BY <1>14, <3>1, <3>2
  <2>4. AllStored => AllStored'
    BY <1>1, <1>19 DEF AllStored
  <2>5. TablesSteady'
    BY <1>1, <1>19, <2>1, <2>3, <2>4 DEF TablesSteady, Sizes
  <2>6. DownloadSteady'
    BY <1>1, <1>2, <1>5, <2>2 DEF DownloadSteady
  <2> QED
    BY <2>5, <2>6
<1> QED
  BY <1>1, <1>12, <1>19, <1>20, <1>21, <1>22, <1>23, DownloadKeeps

\* A chapter is counted.
LEMMA CountTaskKeeps ==
  ASSUME ReadingInv, NEW k \in DOMAIN tasks, Count(k)
  PROVE  ReadingInv'
<1>1. /\ tasks[k].at = "count" /\ dl' = [dl EXCEPT !.done = @ + 1]
      /\ tasks' = [tasks EXCEPT ![k].at = "report", ![k].number = dl.done + 1]
      /\ UNCHANGED <<tablesOf, mem, alive, dpc, reports, told, rpc, job, plan, seen, dropped>>
      /\ UNCHANGED content
  BY DEF Count, requests, tablesOf
<1>2. /\ dpc = "work" /\ CountersInv /\ ReportsInv /\ tasks \in [DOMAIN tasks -> TaskStates]
      /\ tasks[k] \in TaskStates /\ dl \in Downloads
      /\ dl.cached \in Nat /\ dl.failed \in Nat /\ dl.done \in Nat /\ Total \in Nat
      /\ IsFiniteSet(Waiting) /\ Cardinality(Waiting) \in Nat
      /\ IsFiniteSet(Counting) /\ Cardinality(Counting) \in Nat
  BY <1>1, TaskNow
<1>3. PICK t \in TaskStates : tasks' = [tasks EXCEPT ![k] = t] /\ t.at = "report" /\ t.number = dl.done + 1
  <2> DEFINE t == [tasks[k] EXCEPT !.at = "report", !.number = dl.done + 1]
  <2>1. "report" \in TaskPlaces /\ dl.done + 1 \in Nat
    BY <1>2 DEF TaskPlaces
  <2>2. t \in TaskStates /\ t.at = "report" /\ t.number = dl.done + 1
    BY <1>2, <2>1 DEF TaskStates
  <2>3. tasks' = [tasks EXCEPT ![k] = t]
    BY <1>1, <1>2
  <2> HIDE DEF t
  <2> QED
    BY <2>2, <2>3
<1>4. /\ dl' \in Downloads /\ dl'.list = dl.list /\ dl'.next = dl.next /\ dl'.todo = dl.todo
      /\ dl'.cached = dl.cached /\ dl'.done = dl.done + 1 /\ dl'.failed = dl.failed
  <2>1. dl.done + 1 \in Nat
    BY <1>2
  <2>2. dl' = [dl EXCEPT !.done = dl.done + 1]
    BY <1>1
  <2> QED
    BY <1>2, <2>1, <2>2 DEF Downloads
<1>5. /\ Waiting' = Waiting \ {k} /\ Counting' = Counting \ {k} /\ Reporting' = Reporting \union {k}
      /\ tasks'[k] = t /\ \A m \in DOMAIN tasks \ {k} : tasks'[m] = tasks[m]
  BY <1>2, <1>3, TaskSets
<1>6. k \notin Waiting /\ k \in Counting /\ k \notin Reporting /\ Reporting \subseteq DOMAIN tasks
  BY <1>1 DEF Waiting, Counting, Reporting
<1>7. Waiting' = Waiting /\ Total' = Total /\ alive' = alive
  BY <1>1, <1>4, <1>5, <1>6 DEF Total
<1>8. CountersInv'
  <2>1. /\ dl.cached + dl.failed + Cardinality(Waiting) <= Total
        /\ alive => dl.cached + dl.failed + Cardinality(Waiting) = Total
        /\ dl.done + Cardinality(Counting) = dl.cached + dl.failed
    BY <1>2 DEF CountersInv
  <2>2. Cardinality(Counting') = Cardinality(Counting) - 1
    BY <1>2, <1>5, <1>6, FS_RemoveElement
  <2>3. (dl.done + 1) + Cardinality(Counting') = dl.cached + dl.failed
    BY <1>2, <2>1, <2>2
  <2> QED
    BY <1>4, <1>7, <2>1, <2>3 DEF CountersInv
<1>9. ReportsInv'
  <2>1. /\ IsFiniteSet(DOMAIN reports) /\ told = Cardinality(DOMAIN reports)
        /\ \A n \in DOMAIN reports : n \in Nat /\ n <= dl.done /\ n <= reports[n].cached + reports[n].failed
        /\ \A m \in Reporting : tasks[m].number <= dl.done /\ tasks[m].number \notin DOMAIN reports
        /\ \A m, n \in Reporting : tasks[m].number = tasks[n].number => m = n
    BY <1>2 DEF ReportsInv
  <2>2. \A m \in Reporting : tasks'[m].number = tasks[m].number /\ tasks[m].number \in Nat
    BY <1>2, <1>5, <1>6 DEF TaskStates
  <2>3. \A n \in DOMAIN reports : n <= dl.done + 1 /\ n # dl.done + 1
    BY <1>2, <2>1
  <2>4. \A m \in Reporting : tasks[m].number <= dl.done + 1 /\ tasks[m].number # dl.done + 1
    <3> TAKE m \in Reporting
    <3>1. tasks[m].number <= dl.done /\ tasks[m].number \in Nat
      BY <2>1, <2>2
    <3> QED
      BY <1>2, <3>1
  <2>5. tasks'[k].number = dl.done + 1 /\ dl.done + 1 <= dl.done + 1
    BY <1>2, <1>3, <1>5
  <2>6. \A m \in Reporting' : tasks'[m].number <= dl'.done /\ tasks'[m].number \notin DOMAIN reports
    <3> TAKE m \in Reporting'
    <3>1. CASE m = k
      BY <1>4, <2>3, <2>5, <3>1
    <3>2. CASE m \in Reporting
      BY <1>4, <2>1, <2>2, <2>4, <3>2
    <3> QED
      BY <1>5, <3>1, <3>2
  <2>7. \A m, n \in Reporting' : tasks'[m].number = tasks'[n].number => m = n
    BY <1>5, <2>1, <2>2, <2>4, <2>5
  <2>8. \A n \in DOMAIN reports : n \in Nat /\ n <= dl'.done /\ n <= reports[n].cached + reports[n].failed
    BY <1>4, <2>1, <2>3
  <2> QED
    BY <1>1, <2>1, <2>6, <2>7, <2>8 DEF ReportsInv
<1>10. tasks[k].at # "gone"
  BY <1>1
<1>11. DownloadInv'
  BY <1>1, <1>3, <1>4, <1>8, <1>9, <1>10, TaskKeeps
<1>12. PlacedInv'
  <2>1. Placing \subseteq Placing'
    BY <1>1, <1>2, <1>4, <1>7, PlacingStays
  <2> QED
    BY <1>1, <1>4, <2>1, PlacedMore DEF ReadingInv
<1> QED
  BY <1>1, <1>2, <1>4, <1>11, <1>12, QuietDownload

\* A chapter is reported.
LEMMA ReportTaskKeeps ==
  ASSUME ReadingInv, NEW k \in DOMAIN tasks, Report(k)
  PROVE  ReadingInv'
<1> DEFINE number == tasks[k].number
<1>1. /\ tasks[k].at = "report" /\ dl' = dl /\ tasks' = [tasks EXCEPT ![k].at = "gone"]
      /\ UNCHANGED <<tablesOf, mem, alive, dpc, rpc, job, plan, seen, dropped>>
      /\ UNCHANGED content
  BY DEF Report, requests, tablesOf
<1>2. /\ dpc = "work" /\ CountersInv /\ ReportsInv /\ tasks \in [DOMAIN tasks -> TaskStates]
      /\ tasks[k] \in TaskStates /\ dl \in Downloads
      /\ dl.cached \in Nat /\ dl.failed \in Nat /\ dl.done \in Nat /\ Total \in Nat
      /\ IsFiniteSet(Counting) /\ Cardinality(Counting) \in Nat
  BY <1>1, TaskNow
<1>3. PICK t \in TaskStates : tasks' = [tasks EXCEPT ![k] = t] /\ t.at = "gone"
  <2>1. "gone" \in TaskPlaces
    BY DEF TaskPlaces
  <2>2. [tasks[k] EXCEPT !.at = "gone"] \in TaskStates /\ [tasks[k] EXCEPT !.at = "gone"].at = "gone"
    BY <1>2, <2>1 DEF TaskStates
  <2>3. tasks' = [tasks EXCEPT ![k] = [tasks[k] EXCEPT !.at = "gone"]]
    BY <1>1, <1>2
  <2> QED
    BY <2>2, <2>3
<1>4. /\ Waiting' = Waiting \ {k} /\ Counting' = Counting \ {k} /\ Reporting' = Reporting \ {k}
      /\ \A m \in DOMAIN tasks \ {k} : tasks'[m] = tasks[m]
  BY <1>2, <1>3, TaskSets
<1>5. k \notin Waiting /\ k \notin Counting /\ k \in Reporting /\ Reporting \subseteq DOMAIN tasks
  BY <1>1 DEF Waiting, Counting, Reporting
<1>6. Waiting' = Waiting /\ Counting' = Counting /\ Total' = Total /\ alive' = alive
  BY <1>1, <1>4, <1>5 DEF Total
<1>7. CountersInv'
  BY <1>1, <1>2, <1>6 DEF CountersInv
<1>8. ReportsInv'
  <2>1. /\ IsFiniteSet(DOMAIN reports) /\ told = Cardinality(DOMAIN reports)
        /\ \A n \in DOMAIN reports : n \in Nat /\ n <= dl.done /\ n <= reports[n].cached + reports[n].failed
        /\ \A m \in Reporting : tasks[m].number <= dl.done /\ tasks[m].number \notin DOMAIN reports
        /\ \A m, n \in Reporting : tasks[m].number = tasks[n].number => m = n
    BY <1>2 DEF ReportsInv
  <2>2. \A m \in Reporting' : tasks'[m].number = tasks[m].number /\ m \in Reporting /\ m # k
    BY <1>4, <1>5
  <2>3. CASE alive
    <3>1. /\ reports' = [m \in DOMAIN reports \union {number} |->
                     IF m = number THEN [cached |-> dl.cached, failed |-> dl.failed] ELSE reports[m]]
          /\ told' = told + 1
      BY <2>3 DEF Report, Tell
    <3>2. /\ DOMAIN reports' = DOMAIN reports \union {number}
          /\ reports'[number].cached = dl.cached /\ reports'[number].failed = dl.failed
          /\ \A n \in DOMAIN reports \ {number} : reports'[n] = reports[n]
      BY <3>1
    <3>3. number \notin DOMAIN reports /\ number \in Nat /\ number <= dl.done
      BY <1>2, <1>5, <2>1 DEF TaskStates
    <3>4. IsFiniteSet(DOMAIN reports') /\ Cardinality(DOMAIN reports') = told + 1
      BY <2>1, <3>2, <3>3, FS_AddElement
    <3>5. number <= dl.cached + dl.failed
      <4>1. dl.done + Cardinality(Counting) = dl.cached + dl.failed
        BY <1>2 DEF CountersInv
      <4> HIDE DEF number
      <4> QED
        BY <1>2, <3>3, <4>1
    <3> HIDE DEF number
    <3>6. \A n \in DOMAIN reports' : n \in Nat /\ n <= dl.done /\ n <= reports'[n].cached + reports'[n].failed
      <4> TAKE n \in DOMAIN reports'
      <4>1. CASE n = number
        BY <3>2, <3>3, <3>5, <4>1
      <4>2. CASE n # number
        <5>1. n \in DOMAIN reports /\ reports'[n] = reports[n]
          BY <3>2, <4>2
        <5> QED
          BY <2>1, <5>1
      <4> QED
        BY <4>1, <4>2
    <3>7. \A m \in Reporting' : tasks'[m].number <= dl.done /\ tasks'[m].number \notin DOMAIN reports'
      <4> TAKE m \in Reporting'
      <4>1. tasks[m].number # number
        BY <1>5, <2>1, <2>2 DEF number
      <4> QED
        BY <2>1, <2>2, <3>2, <4>1
    <3>8. \A m, n \in Reporting' : tasks'[m].number = tasks'[n].number => m = n
      BY <2>1, <2>2
    <3> QED
      BY <1>1, <3>1, <3>4, <3>6, <3>7, <3>8 DEF ReportsInv
  <2>4. CASE ~alive
    <3>1. UNCHANGED <<reports, told>>
      BY <2>4 DEF Report
    <3> QED
      BY <1>1, <1>2, <2>2, <3>1, ReportsStay
  <2> QED
    BY <2>3, <2>4
<1>9. tasks[k].at # "gone"
  BY <1>1
<1>10. DownloadInv'
  BY <1>1, <1>2, <1>3, <1>7, <1>8, <1>9, TaskKeeps
<1>11. PlacedInv'
  <2>1. Placing \subseteq Placing'
    BY <1>1, <1>2, <1>6, PlacingStays
  <2> QED
    BY <1>1, <1>2, <2>1, PlacedMore DEF ReadingInv
<1> QED
  BY <1>1, <1>2, <1>10, <1>11, QuietDownload

\* The tasks are over; the shelf is told.
LEMMA DonePlaces ==
  ASSUME ReadingInv, dpc \in {"work", "shelf"}, dpc' \in {"shelf", "state"},
         UNCHANGED <<content, alive, dl, tasks, reports, told, dropped>>,
         \A k \in DOMAIN tasks : tasks[k].at = "gone"
  PROVE  DownloadInv' /\ PlacedInv'
<1>1. /\ dl \in Downloads /\ tasks \in [DOMAIN tasks -> TaskStates] /\ DOMAIN tasks = DOMAIN dl.todo
      /\ CountersInv /\ ReportsInv /\ dl.next = Total + 1
      /\ \A k, m \in DOMAIN dl.list : dl.list[k].index = dl.list[m].index => k = m
      /\ \A k \in DOMAIN dl.todo : \E m \in 1 .. dl.next - 1 : m <= Total /\ dl.todo[k] = dl.list[m]
      /\ \A k, m \in DOMAIN dl.todo : dl.todo[k].index = dl.todo[m].index => k = m
  BY DEF ReadingInv, DownloadInv
<1>2. UNCHANGED <<Total, Waiting, Counting, Reporting>>
  BY DEF Total, Waiting, Counting, Reporting
<1>3. CountersInv' /\ ReportsInv'
  BY <1>1, <1>2 DEF CountersInv, ReportsInv
<1>4. DownloadInv'
  <2>1. dpc' \in DownloadPlaces
    BY DEF DownloadPlaces
  <2> QED
    BY <1>1, <1>2, <1>3, <2>1 DEF DownloadInv
<1>5. PlacedInv'
  <2>1. Coming = Waiting /\ Coming' = Waiting'
    BY DEF Coming
  <2>2. UNCHANGED Placing
    BY <1>2, <2>1 DEF Placing
  <2> QED
    BY <2>2 DEF ReadingInv, PlacedInv
<1> QED
  BY <1>4, <1>5

\* The last worker is done.
LEMMA AllDoneKeeps ==
  ASSUME ReadingInv, AllDone
  PROVE  ReadingInv'
<1>1. /\ dpc = "work" /\ \A k \in DOMAIN tasks : tasks[k].at = "gone"
      /\ dpc' = "shelf"
      /\ UNCHANGED <<tablesOf, mem, alive, dl, tasks, reports, told, rpc, job, plan, seen, dropped>>
      /\ UNCHANGED content
  BY DEF AllDone, requests, tablesOf
<1>2. DownloadInv' /\ PlacedInv'
  BY <1>1, DonePlaces
<1> QED
  BY <1>1, <1>2, QuietDownload

\* The download notes on the shelf how many chapters the book has.
LEMMA DownloadNotesKeeps ==
  ASSUME ReadingInv, DownloadNotes
  PROVE  ReadingInv'
<1>1. /\ dpc = "shelf" /\ dpc' = "state"
      /\ shelf' = (IF shelf.on THEN [shelf EXCEPT !.total = Total, !.update = FALSE] ELSE shelf)
      /\ UNCHANGED <<rows, content, progress, mem, alive, dl, tasks, reports, told, rpc, job, plan, seen, dropped>>
  BY DEF DownloadNotes, NoteOnShelf, requests
<1>2. dl \in Downloads /\ dl.list \in Seq(Placed) /\ Total \in Nat
      /\ \A k \in DOMAIN tasks : tasks[k].at = "gone"
  <2>1. dl \in Downloads /\ \A k \in DOMAIN tasks : tasks[k].at = "gone"
    BY <1>1 DEF ReadingInv, DownloadInv
  <2> QED
    BY <2>1 DEF Downloads, Total
<1>3. DownloadInv' /\ PlacedInv'
  BY <1>1, <1>2, DonePlaces
<1>4. shelf \in Shelves /\ shelf' \in Shelves /\ shelf'.on = shelf.on /\ shelf'.total \in {shelf.total, Total}
  <2>1. shelf \in Shelves
    BY DEF ReadingInv, ShelfInv
  <2>2. /\ [shelf EXCEPT !.total = Total, !.update = FALSE] \in Shelves
        /\ [shelf EXCEPT !.total = Total, !.update = FALSE].on = shelf.on
        /\ [shelf EXCEPT !.total = Total, !.update = FALSE].total = Total
    BY <1>2, <2>1 DEF Shelves
  <2> QED
    BY <1>1, <2>1, <2>2
<1>5. ShelfInv'
  BY <1>1, <1>4 DEF ReadingInv, ShelfInv
<1>6. Derived(rows)' /\ Derived(content)' /\ \A k \in DOMAIN dl'.list : From(dl.list[k].index, dl.list[k].entry)'
  BY <1>1 DEF ReadingInv, DerivedInv, Derived, From
<1>7. ASSUME Steady'
      PROVE  TablesSteady' /\ DownloadSteady'
  <2>1. Steady /\ TablesSteady /\ DownloadSteady
    BY <1>1, <1>7, OnlyMore DEF ReadingInv, SteadyInv
  <2>2. rows # NoEntries /\ rows \in seen /\ dl.list = InOrder(rows) /\ rows \in Tables
    BY <1>1, <2>1 DEF DownloadSteady, TablesSteady, ReadingInv, ShelfInv
  <2>3. Total = Size(rows)
    BY <2>2, InOrderIs DEF Total
  <2>4. Total \in Sizes
    BY <2>2, <2>3 DEF Sizes
  <2>5. TablesSteady'
    BY <1>1, <1>4, <2>1, <2>4 DEF TablesSteady, Sizes, AllStored
  <2>6. DownloadSteady'
    BY <1>1, <2>2 DEF DownloadSteady
  <2> QED
    BY <2>5, <2>6
<1> QED
  BY <1>1, <1>3, <1>5, <1>6, <1>7, DownloadKeeps

\* Whoever has placed as many chapters as there are has placed every one.
LEMMA AllPlaced ==
  ASSUME ReadingInv, Steady, dpc = "state", Fully(Total, dl.cached)
  PROVE  AllStored
<1>1. dl \in Downloads /\ dl.list \in Seq(Placed) /\ dl.cached \in Nat /\ Total = Len(dl.list) /\ Total \in Nat
  <2>1. dl \in Downloads
    BY DEF ReadingInv, DownloadInv
  <2> QED
    BY <2>1 DEF Downloads, Total
<1>2. rows # NoEntries /\ rows \in seen /\ dl.list = InOrder(rows) /\ rows \in Tables
  BY DEF ReadingInv, SteadyInv, DownloadSteady, TablesSteady, ShelfInv
<1>3. dl.cached <= Cardinality(Placing) /\ dl.cached >= Total
  BY DEF ReadingInv, PlacedInv, Steady, Fully
<1>4. IsFiniteSet(ToSet(dl.list)) /\ Cardinality(ToSet(dl.list)) <= Total
  BY <1>1, ListIsFinite
<1>5. Cardinality(Placing) \in Nat /\ Cardinality(ToSet(dl.list)) \in Nat
  BY <1>1, <1>4, PlacingIsFinite, FS_CardinalityType
<1>6. Placing \in SUBSET ToSet(dl.list)
  BY DEF Placing
<1>7. Cardinality(Placing) <= Cardinality(ToSet(dl.list))
      /\ (Cardinality(Placing) = Cardinality(ToSet(dl.list)) => Placing = ToSet(dl.list))
  BY <1>4, <1>6, FS_Subset
<1>8. Placing = ToSet(dl.list)
  BY <1>1, <1>3, <1>4, <1>5, <1>7
<1>9. ASSUME NEW i \in DOMAIN rows PROVE i \in DOMAIN content
  <2>1. PICK k \in 1 .. Size(rows) : dl.list[k].index = i
    BY <1>2, InOrderIs
  <2>2. k \in DOMAIN dl.list
    <3>1. Len(dl.list) = Size(rows)
      BY <1>2, InOrderIs
    <3> QED
      BY <1>1, <3>1
  <2>3. dl.list[k] \in ToSet(dl.list)
    BY <2>2 DEF ToSet
  <2> QED
    BY <1>8, <2>1, <2>3 DEF Placing
<1> QED
  BY <1>2, <1>9 DEF AllStored

\* The download stores its account in the state of the book and is over.
LEMMA DownloadEndsKeeps ==
  ASSUME ReadingInv, DownloadEnds
  PROVE  ReadingInv'
<1> DEFINE full == Fully(Total, dl.cached)
<1>1. /\ dpc = "state" /\ dpc' = "idle"
      /\ mem' = [mem EXCEPT !.on = TRUE, !.catalog = Total, !.stored = dl.cached, !.total = Total,
                            !.update = FALSE, !.full = full]
      /\ dl' = NoDownload /\ tasks' = <<>> /\ reports' = NoReports /\ told' = 0
      /\ UNCHANGED <<shelf, rows, content, progress, alive, rpc, job, plan, seen, dropped>>
  BY DEF DownloadEnds, FullyDownloaded, requests, tablesOf
<1>2. dl' \in Downloads /\ NoneCome' /\ Untold' /\ dl'.list = <<>>
  BY <1>1, NoDownloadIs
<1>3. DownloadInv' /\ PlacedInv'
  BY <1>1, <1>2, RestKeeps DEF Distinct
<1>4. mem' \in States /\ mem'.full = full
  <2>1. dl \in Downloads
    BY DEF ReadingInv, DownloadInv
  <2>2. Total \in Nat /\ dl.cached \in Nat /\ full \in BOOLEAN
    BY <2>1 DEF Downloads, Total, Fully
  <2>3. mem \in States
    BY DEF ReadingInv, ShelfInv
  <2> DEFINE total == Total
             cached == dl.cached
  <2>4. total \in Nat /\ cached \in Nat
    BY <2>2
  <2> HIDE DEF full, total, cached
  <2>5. /\ [mem EXCEPT !.on = TRUE, !.catalog = total, !.stored = cached, !.total = total,
                       !.update = FALSE, !.full = full] \in States
        /\ [mem EXCEPT !.on = TRUE, !.catalog = total, !.stored = cached, !.total = total,
                       !.update = FALSE, !.full = full].full = full
    BY <2>2, <2>3, <2>4 DEF States
  <2> QED
    BY <1>1, <2>5 DEF total, cached
<1>5. ShelfInv'
  BY <1>1, <1>4 DEF ReadingInv, ShelfInv
<1>6. Derived(rows)' /\ Derived(content)' /\ \A k \in DOMAIN dl'.list : From(dl.list[k].index, dl.list[k].entry)'
  BY <1>1, <1>2 DEF ReadingInv, DerivedInv, Derived, From
<1>7. ASSUME Steady'
      PROVE  TablesSteady' /\ DownloadSteady'
  <2>1. Steady /\ TablesSteady
    BY <1>1, <1>7, OnlyMore DEF ReadingInv, SteadyInv
  <2>2. mem'.full => AllStored
    BY <1>1, <1>4, <2>1, AllPlaced
  <2>3. AllStored' = AllStored
    BY <1>1 DEF AllStored
  <2>4. TablesSteady'
    BY <1>1, <2>1, <2>2, <2>3 DEF TablesSteady, Sizes
  <2>5. DownloadSteady'
    BY <1>1 DEF DownloadSteady
  <2> QED
    BY <2>4, <2>5
<1> QED
  BY <1>1, <1>3, <1>5, <1>6, <1>7, DownloadKeeps

-----------------------------------------------------------------------------

\* The beginning of a session with a book.
LEMMA ReadingBegins ==
  ASSUME NEW session \in [plan : [Requests -> Nat], stored : Seq(Entries)], ReadingStart(session)
  PROVE  ReadingInv
<1>1. session.plan \in [Requests -> Nat] /\ session.stored \in Seq(Entries)
  OBVIOUS
<1>2. PICK f : f = AsRows(session.stored)
  OBVIOUS
<1>3. f \in Tables
  BY <1>1, <1>2, RowsOf
<1>4. /\ shelf = [on |-> TRUE, total |-> 0, update |-> FALSE]
      /\ content = NoEntries /\ progress = -1 /\ mem = NoState /\ alive = TRUE
      /\ dpc = "idle" /\ dl = NoDownload /\ tasks = <<>> /\ reports = NoReports /\ told = 0
      /\ rpc = [r \in Readers |-> "idle"] /\ job = [r \in Readers |-> NoJob]
      /\ plan = session.plan /\ rows = f /\ seen = {rows} \ {NoEntries} /\ dropped = FALSE
  BY <1>2 DEF ReadingStart
<1>5. /\ \A i \in DOMAIN NoEntries : From(i, NoEntries[i])
      /\ DOMAIN NoEntries = {} /\ NoEntries \in Tables /\ Size(NoEntries) = 0
  BY TableFacts
<1>6. shelf \in Shelves /\ shelf.on /\ shelf.total = 0
  BY <1>4 DEF Shelves
<1>7. ShelfInv
  <2>1. \A c \in seen : \E s \in Seq(Entries) : c = AsRows(s)
    BY <1>1, <1>2, <1>4
  <2>2. NoState \in States
    BY NoStateIs
  <2>3. progress \in Nat \union {-1} /\ ~(progress >= 0)
    BY <1>4
  <2>4. plan \in [Requests -> Nat] /\ alive \in BOOLEAN /\ dropped \in BOOLEAN
    BY <1>1, <1>4
  <2> QED
    BY <1>3, <1>4, <1>5, <1>6, <2>1, <2>2, <2>3, <2>4 DEF ShelfInv
<1>8. /\ NoJob \in Jobs /\ NoJob.known = NoEntries /\ NoJob.text = NoText /\ NoJob.state = NoState
  <2>1. NoEntries \in Tables /\ NoText \in Texts /\ 0 \in Nat /\ NoState \in States
    BY <1>5, NoStateIs DEF Texts
  <2> HIDE DEF NoEntries, NoText, NoState
  <2> QED
    BY <2>1, Zenon DEF NoJob, Jobs
<1>9. JobsInv
  <2>1. "idle" \in ReaderPlaces
    BY DEF ReaderPlaces
  <2>2. \A r \in Readers : rpc[r] = "idle" /\ job[r] = NoJob
    BY <1>4
  <2>3. JobFits("idle", NoJob)
    BY <1>8 DEF JobFits
  <2> QED
    BY <1>4, <1>8, <2>1, <2>2, <2>3 DEF JobsInv
<1>10. dl \in Downloads /\ NoneCome /\ Untold /\ dl.list = <<>>
  <2>1. <<>> \in Seq(Placed) /\ 1 \in Nat \ {0} /\ 0 \in Nat
    OBVIOUS
  <2>2. NoDownload \in Downloads
    BY <2>1, Zenon DEF NoDownload, Downloads
  <2> QED
    BY <1>4, <2>2 DEF NoDownload, NoneCome, Untold
<1>11. DownloadInv
  <2>1. dpc \in DownloadPlaces /\ tasks \in [DOMAIN tasks -> TaskStates] /\ dl.todo = <<>>
    BY <1>4, <1>10 DEF DownloadPlaces, NoneCome
  <2> QED
    BY <1>4, <1>10, <2>1 DEF DownloadInv
<1>12. PlacedInv
  <2>1. Cardinality(Placing) \in Nat /\ dl.cached = 0
    BY <1>10, PlacingIsFinite DEF NoneCome
  <2>2. dl.cached <= Cardinality(Placing)
    BY <2>1
  <2> QED
    BY <2>2 DEF PlacedInv
<1>13. DerivedInv
  <2>1. Derived(rows)
    <3>1. ASSUME NEW i \in DOMAIN rows PROVE From(i, rows[i])
      <4>1. rows \in seen
        BY <1>4, <1>5
      <4> QED
        BY <4>1 DEF From
    <3> QED
      BY <3>1 DEF Derived
  <2>2. Derived(content) /\ Derived(NoEntries)
    BY <1>4, <1>5 DEF Derived
  <2>3. \A r \in Readers : job[r].known = NoEntries
    BY <1>4, <1>8
  <2> QED
    BY <1>10, <2>1, <2>2, <2>3 DEF DerivedInv
<1>14. TextInv
  BY <1>4, <1>8 DEF TextInv
<1>15. SteadyInv
  <2>1. TablesSteady
    <3>1. mem.full = FALSE
      BY <1>4, NoStateIs
    <3>2. shelf.total \in Sizes
      BY <1>6 DEF Sizes
    <3>3. DOMAIN content \subseteq DOMAIN rows
      BY <1>4, <1>5
    <3> QED
      BY <1>4, <1>6, <3>1, <3>2, <3>3 DEF TablesSteady
  <2>2. DownloadSteady
    BY <1>4 DEF DownloadSteady
  <2>3. ASSUME NEW r \in Readers PROVE JobSteady(rpc[r], job[r])
    <3>1. rpc[r] = "idle" /\ job[r].known = NoEntries /\ job[r].state = NoState
      BY <1>4, <1>8
    <3>2. NoState.catalog = 0 /\ NoState.stored = 0 /\ NoState.full = FALSE
      BY NoStateIs
    <3>3. 0 \in Sizes /\ 0 <= Size(content)
      BY <1>4, <1>5 DEF Sizes
    <3> HIDE DEF NoState
    <3> QED
      BY <3>1, <3>2, <3>3 DEF JobSteady
  <2> QED
    BY <2>1, <2>2, <2>3 DEF SteadyInv
<1> QED
  BY <1>7, <1>9, <1>11, <1>12, <1>13, <1>14, <1>15 DEF ReadingInv

\* Every step on the book keeps the invariant.
LEMMA ReadingKeeps ==
  ASSUME ReadingInv, ReadingNext
  PROVE  ReadingInv'
<1>1. CASE Download \/ Die
  BY <1>1, StartKeeps
<1>2. CASE \E r \in Readers : RequestStep(r)
  BY <1>2, RequestKeepsAll
<1>3. CASE DownloadStep
  <2>1. CASE \E k \in DOMAIN tasks : Claim(k) \/ AskChapter(k) \/ Store(k) \/ Count(k) \/ Report(k)
    <3>1. PICK k \in DOMAIN tasks : Claim(k) \/ AskChapter(k) \/ Store(k) \/ Count(k) \/ Report(k)
      BY <2>1
    <3>2. CASE Claim(k) \/ AskChapter(k)
      BY <3>2, ClaimKeeps
    <3>3. CASE Store(k)
      BY <3>3, StoreKeeps
    <3>4. CASE Count(k)
      BY <3>4, CountTaskKeeps
    <3>5. CASE Report(k)
      BY <3>5, ReportTaskKeeps
    <3> QED
      BY <3>1, <3>2, <3>3, <3>4, <3>5
  <2>2. CASE DownloadCatalog \/ DownloadPurge
    BY <2>2, DownloadCatalogKeeps, DownloadPurgeKeeps
  <2>3. CASE DownloadFetch \/ DownloadStore
    BY <2>3, DownloadFetchKeeps, DownloadStoreKeeps
  <2>4. CASE Partition \/ Begin
    BY <2>4, PartitionKeeps, BeginKeeps
  <2>5. CASE AllDone \/ DownloadNotes \/ DownloadEnds
    BY <2>5, AllDoneKeeps, DownloadNotesKeeps, DownloadEndsKeeps
  <2> QED
    BY <1>3, <2>1, <2>2, <2>3, <2>4, <2>5 DEF DownloadStep
<1> QED
  BY <1>1, <1>2, <1>3 DEF ReadingNext

\* The book while another part is at work.
LEMMA ReadingWaits ==
  ASSUME ReadingInv, UNCHANGED readingVars
  PROVE  ReadingInv'
<1>1. UNCHANGED <<tablesOf, mem, alive, download, rpc, job, plan, seen, dropped>>
      /\ UNCHANGED <<shelf, rows, content, progress, dpc, dl, tasks, reports, told>>
  BY DEF readingVars, requests, download, tablesOf
<1>2. DownloadInv' /\ PlacedInv'
  BY <1>1, DownloadStays DEF ReadingInv, ShelfInv
<1>3. ShelfInv'
  BY <1>1 DEF ReadingInv, ShelfInv
<1>4. Derived(rows)' /\ Derived(content)' /\ \A k \in DOMAIN dl'.list : From(dl.list[k].index, dl.list[k].entry)'
  BY <1>1 DEF ReadingInv, DerivedInv, Derived, From
<1>5. Steady' => TablesSteady' /\ DownloadSteady'
  BY <1>1 DEF ReadingInv, SteadyInv, Steady, TablesSteady, DownloadSteady, Sizes, AllStored
<1> QED
  BY <1>1, <1>2, <1>3, <1>4, <1>5, DownloadKeeps

\* What the counters of a download say at every place.
LEMMA CountersNow ==
  ASSUME DownloadInv
  PROVE  /\ dl.cached + dl.failed <= Total /\ dl.done <= Total /\ told = Cardinality(DOMAIN reports)
         /\ \A n \in DOMAIN reports : n <= reports[n].cached + reports[n].failed
         /\ dpc \in {"shelf", "state"} =>
              /\ alive => dl.cached + dl.failed = Total
              /\ \A n \in DOMAIN reports : n <= Total
<1>1. /\ dl \in Downloads /\ dl.list \in Seq(Placed) /\ dl.todo \in Seq(Placed)
      /\ dl.cached \in Nat /\ dl.failed \in Nat /\ dl.done \in Nat /\ Total \in Nat
  BY DEF DownloadInv, Downloads, Total
<1>2. CASE dpc \in {"idle", "catalog", "purge", "fetch", "store", "partition", "begin"}
  <2>1. Untold
    BY <1>2 DEF DownloadInv
  <2>2. told = 0 /\ DOMAIN reports = {} /\ Cardinality({}) = 0
    BY <2>1, FS_EmptySet DEF Untold, NoReports
  <2>3. dl.cached + dl.failed <= Total /\ dl.done <= Total
    <3>1. CASE NoneCome
      BY <1>1, <3>1 DEF NoneCome
    <3>2. CASE ~NoneCome
      <4>1. /\ dl.failed = 0 /\ dl.done = dl.cached /\ dl.next <= Total + 1
            /\ Len(dl.todo) + dl.cached = dl.next - 1
        BY <1>2, <3>2 DEF DownloadInv
      <4>2. Len(dl.todo) \in Nat /\ dl.next \in Nat
        BY <1>1 DEF Downloads
      <4>3. dl.cached <= Total
        BY <1>1, <4>1, <4>2
      <4> QED
        BY <1>1, <4>1, <4>3
    <3> QED
      BY <3>1, <3>2
  <2> QED
    BY <1>2, <2>2, <2>3
<1>3. CASE dpc \in {"work", "shelf", "state"}
  <2>1. CountersInv /\ ReportsInv /\ DOMAIN tasks = DOMAIN dl.todo
        /\ (dpc \in {"shelf", "state"} => \A k \in DOMAIN tasks : tasks[k].at = "gone")
    BY <1>3 DEF DownloadInv
  <2>2. IsFiniteSet(DOMAIN tasks)
    <3>1. DOMAIN tasks = 1 .. Len(dl.todo) /\ 1 \in Int /\ Len(dl.todo) \in Int
      BY <1>1, <2>1
    <3> QED
      BY <3>1, FS_Interval
  <2>3. Waiting \in SUBSET DOMAIN tasks /\ Counting \in SUBSET DOMAIN tasks
    BY DEF Waiting, Counting
  <2>4. Cardinality(Waiting) \in Nat /\ Cardinality(Counting) \in Nat
    BY <2>2, <2>3, FS_Subset, FS_CardinalityType
  <2>5. dl.cached + dl.failed <= Total /\ dl.done <= dl.cached + dl.failed
    BY <1>1, <2>1, <2>4 DEF CountersInv
  <2>6. told = Cardinality(DOMAIN reports)
        /\ \A n \in DOMAIN reports : n \in Nat /\ n <= dl.done /\ n <= reports[n].cached + reports[n].failed
    BY <2>1 DEF ReportsInv
  <2>7. \A n \in DOMAIN reports : n <= Total
    <3> TAKE n \in DOMAIN reports
    <3>1. n \in Nat /\ n <= dl.done
      BY <2>6
    <3> QED
      BY <1>1, <2>5, <3>1
  <2>8. ASSUME dpc \in {"shelf", "state"}, alive PROVE dl.cached + dl.failed = Total
    <3>1. Waiting = {}
      BY <2>1, <2>8 DEF Waiting
    <3>2. Cardinality(Waiting) = 0
      BY <3>1, FS_EmptySet
    <3> QED
      BY <1>1, <2>1, <2>8, <3>2 DEF CountersInv
  <2> QED
    BY <1>1, <2>5, <2>6, <2>7, <2>8
<1> QED
  BY <1>2, <1>3 DEF DownloadInv, DownloadPlaces

\* What the invariant says of the book.
LEMMA ReadingIsTrue ==
  ASSUME ReadingInv
  PROVE  ReadingTypeOK /\ TextOfItsChapter /\ DownloadAccounts /\ FullMeansStored
<1>1. ReadingTypeOK
  <2>1. /\ \A f \in {rows, content} :
              /\ \A i \in DOMAIN f : i \in Nat /\ f[i] \in Entries
              /\ f # NoEntries => shelf.on
    BY TableFacts DEF ReadingInv, ShelfInv
  <2>2. shelf \in [on : BOOLEAN, total : Nat, update : BOOLEAN]
    BY DEF ReadingInv, ShelfInv, Shelves
  <2>3. mem \in [on : BOOLEAN, catalog : Nat, stored : Nat, total : Nat, full : BOOLEAN,
                 update : BOOLEAN, at : Int]
    BY DEF ReadingInv, ShelfInv, States
  <2>4. dpc \in {"idle", "catalog", "purge", "fetch", "store", "partition", "begin", "work",
                 "shelf", "state"}
    BY DEF ReadingInv, DownloadInv, DownloadPlaces
  <2>5. \A k \in DOMAIN tasks :
          tasks[k].at \in {"waiting", "asking", "store", "count", "report", "gone"}
    BY DEF ReadingInv, DownloadInv, TaskStates, TaskPlaces
  <2>6. rpc \in [Readers -> {"idle", "look", "count", "row", "session", "ask", "measure",
                            "replace", "publish", "again", "text", "download", "keep",
                            "answer", "insert", "note", "contents", "forget", "unlist", "erase",
                            "line"}]
    BY DEF ReadingInv, JobsInv, ReaderPlaces
  <2>7. progress \in Nat \union {-1} /\ (progress >= 0 => shelf.on) /\ plan \in [Requests -> Nat]
    BY DEF ReadingInv, ShelfInv
  <2>8. dl.cached + dl.failed <= Total /\ dl.done <= Total
    BY CountersNow DEF ReadingInv
  <2> QED
    BY <2>1, <2>2, <2>3, <2>4, <2>5, <2>6, <2>7, <2>8 DEF ReadingTypeOK
<1>2. TextOfItsChapter
  <2> SUFFICES ASSUME SameOrder
               PROVE  /\ \A r \in Readers : job[r].text \in {job[r].want, NoText}
                      /\ \A c \in seen : \A i \in DOMAIN c \intersect DOMAIN content : content[i].url = c[i].url
    BY DEF TextOfItsChapter
  <2>1. \A r \in Readers : job[r].text \in {job[r].want, NoText}
    BY DEF ReadingInv, TextInv
  <2>2. ASSUME NEW c \in seen, NEW i \in DOMAIN c \intersect DOMAIN content
        PROVE  content[i].url = c[i].url
    <3>1. PICK d \in seen : i \in DOMAIN d /\ content[i].url = d[i].url
      BY DEF ReadingInv, DerivedInv, Derived, From
    <3>2. c[i].url = d[i].url
      BY <3>1 DEF SameOrder
    <3> QED
      BY <3>1, <3>2
  <2> QED
    BY <2>1, <2>2
<1>3. DownloadAccounts
  <2>1. dl \in Downloads /\ dl.list \in Seq(Placed) /\ dl.cached \in Nat
    BY DEF ReadingInv, DownloadInv, Downloads
  <2>2. ASSUME ~dropped, alive
        PROVE  dl.cached <= Cardinality({e \in ToSet(dl.list) : e.index \in DOMAIN content})
    <3> DEFINE stored == {e \in ToSet(dl.list) : e.index \in DOMAIN content}
    <3>1. Placing \in SUBSET stored /\ stored \in SUBSET ToSet(dl.list)
      BY DEF Placing
    <3>2. IsFiniteSet(ToSet(dl.list))
      BY <2>1, ListIsFinite
    <3> HIDE DEF stored
    <3>3. IsFiniteSet(stored)
      BY <3>1, <3>2, FS_Subset
    <3>4. Cardinality(Placing) <= Cardinality(stored) /\ Cardinality(stored) \in Nat
      BY <3>1, <3>3, FS_Subset, FS_CardinalityType
    <3>5. dl.cached <= Cardinality(Placing) /\ Cardinality(Placing) \in Nat
      BY <2>1, <2>2, PlacingIsFinite DEF ReadingInv, PlacedInv
    <3>6. dl.cached <= Cardinality(stored)
      BY <2>1, <3>4, <3>5
    <3> QED
      BY <3>6 DEF stored
  <2>3. /\ told = Cardinality(DOMAIN reports)
        /\ \A n \in DOMAIN reports : n <= reports[n].cached + reports[n].failed
        /\ dpc \in {"shelf", "state"} /\ alive =>
             dl.cached + dl.failed = Total /\ \A n \in DOMAIN reports : n <= Total
    BY CountersNow DEF ReadingInv
  <2> QED
    BY <2>2, <2>3 DEF DownloadAccounts
<1>4. FullMeansStored
  <2> SUFFICES ASSUME mem.full, Steady PROVE DOMAIN rows \subseteq DOMAIN content
    BY DEF FullMeansStored
  <2>1. AllStored /\ (rows = NoEntries \/ rows \in seen)
    BY DEF ReadingInv, SteadyInv, TablesSteady
  <2>2. PICK c \in seen : c # NoEntries /\ DOMAIN c \subseteq DOMAIN content
    BY <2>1 DEF AllStored
  <2>3. rows = NoEntries \/ rows = c
    BY <2>1, <2>2 DEF Steady
  <2>4. DOMAIN NoEntries = {}
    BY TableFacts
  <2> QED
    BY <2>2, <2>3, <2>4
<1> QED
  BY <1>1, <1>2, <1>3, <1>4

-----------------------------------------------------------------------------
(* A walk through the pages of a site. *)

Chapter == ChapterIds \union {Pseudo}
Result == [index : Nat, of : Chapter]
Stages == {"search", "catalog", "content", "closing"}
Told == {"search", "catalog", "content", "done", "error"}

\* The types, with those of the histories.
WalkTypes ==
    /\ site \in Sites /\ debug \in BOOLEAN /\ stop \in {"no", "late", "gone"}
    /\ stage \in Stages \union Over
    /\ at \in {"first", "next", "turn", "toc", "api", "end"}
    /\ page \in Urls \union {NoUrl} /\ (at = "next" => page \in Urls)
    /\ visited \subseteq Urls
    /\ guard \in 0 .. MaxNext + MaxApi + MaxText /\ asked \in 0 .. MaxAsked + 1
    /\ results \in Seq(Result) /\ texts \in Seq(Urls) /\ loaded \in Seq(Urls)
    /\ events \in Seq(Told) /\ heard \in Nat

\* What the walk has loaded, listed and read agree.
Numbered(list) == \A k \in DOMAIN list : list[k].index = k - 1
NumberedInv == Numbered(results)

VisitedInv ==
    /\ at = "first" => loaded = <<>> /\ results = <<>>
    /\ at \in {"next", "turn", "toc"} => \A k \in DOMAIN loaded : loaded[k] \in visited
    /\ \A i, j \in DOMAIN loaded : i < j /\ loaded[i] = loaded[j] => loaded[j] = site.toc

ListedSoFar == [k \in DOMAIN results |-> results[k].of]
SaidSoFar == [k \in DOMAIN loaded |-> Said(loaded[k])]
ListedInv ==
    /\ at = "turn" => stage = "catalog"
    /\ stage = "catalog" /\ at \in {"next", "turn"} => ListedSoFar = FlattenSeq(SaidSoFar)

ReadInv ==
    stage = "content" =>
        /\ at = "next" => texts = loaded /\ \A k \in DOMAIN loaded : ~PageAt(loaded[k]).down
        /\ at = "end" => \E n \in 0 .. Len(loaded) :
                            /\ texts = SubSeq(loaded, 1, n)
                            /\ \A k \in DOMAIN loaded : PageAt(loaded[k]).down <=> k > n

\* What the session has told at each stage, and how it may end.
SessionInv ==
    /\ asked > MaxAsked => stage \in Over
    /\ stop = "gone" => Len(events) = heard
    /\ ~debug => events = <<>> /\ stop = "no" /\ stage \in {"catalog", "content", "done"}
    /\ debug =>
        /\ stage = "search" => events = <<>>
        /\ stage = "catalog" => events = <<"search">>
        /\ stage = "content" => events = <<"search", "catalog">>
        /\ stage = "closing" => events = <<"search", "catalog", "content">>
        /\ stage = "done" => events = <<"search", "catalog", "content", "done">>
        /\ stage = "error" =>
              \/ events \in {<<"error">>, <<"search", "error">>, <<"search", "catalog", "error">>}
              \/ events = <<"search", "catalog", "content", "error">> /\ stop = "late"
        /\ stage = "cancelled" => events \in {<<>>, <<"search">>, <<"search", "catalog">>,
                                              <<"search", "catalog", "content">>}

WalkInv == WalkTypes /\ NumberedInv /\ VisitedInv /\ ListedInv /\ ReadInv /\ SessionInv

\* The constants, one by one.
LEMMA WalkFacts ==
  /\ NoUrl \notin Urls /\ Pseudo \notin ChapterIds /\ Sites # {}
  /\ MaxNext \in Nat /\ MaxApi \in Nat /\ MaxText \in Nat /\ MaxAsked \in Nat
  /\ \A s \in Sites :
      /\ s.start \in Urls /\ s.chapter \in Urls /\ s.toc \in Urls \union {NoUrl}
      /\ s.paged \in BOOLEAN /\ s.reversed \in BOOLEAN
  BY WalkConstants

\* A page of the site.
LEMMA PageFacts ==
  ASSUME site \in Sites, NEW u \in Urls
  PROVE  /\ PageAt(u).items \in Seq(Chapter)
         /\ PageAt(u).next \in Urls \union {NoUrl}
         /\ PageAt(u).down \in BOOLEAN
         /\ Said(u) \in Seq(Chapter)
<1>1. site.pages \in [Urls -> Listings]
  BY WalkConstants
<1>2. PageAt(u) \in Listings
  BY <1>1 DEF PageAt
<1>3. PageAt(u).items \in Seq(Chapter) /\ PageAt(u).down \in BOOLEAN
      /\ PageAt(u).next \in Urls \union {NoUrl}
  BY <1>2 DEF Listings, Chapter
<1>4. <<>> \in Seq(Chapter)
  OBVIOUS
<1> QED
  BY <1>3, <1>4 DEF Said

\* An answer of the /chapters interface.
LEMMA ApiFacts ==
  ASSUME site \in Sites, NEW n \in Nat
  PROVE  ApiAnswer(n + 1).items \in Seq(Chapter)
<1>1. site.api \in Seq([items : Seq(ChapterIds), more : BOOLEAN])
  BY WalkConstants
<1>2. CASE n + 1 <= Len(site.api)
  <2>1. n + 1 \in 1 .. Len(site.api)
    BY <1>1, <1>2
  <2>2. site.api[n + 1] \in [items : Seq(ChapterIds), more : BOOLEAN]
    BY <1>1, <2>1, ElementOfSeq
  <2>3. ApiAnswer(n + 1).items \in Seq(ChapterIds)
    BY <1>2, <2>2 DEF ApiAnswer
  <2>4. ChapterIds \subseteq Chapter
    BY DEF Chapter
  <2> QED
    BY <2>3, <2>4, SeqMonotonic
<1>3. CASE ~(n + 1 <= Len(site.api))
  <2>1. ApiAnswer(n + 1).items = <<>> /\ <<>> \in Seq(Chapter)
    BY <1>3 DEF ApiAnswer
  <2> QED
    BY <2>1
<1> QED
  BY <1>2, <1>3

\* Listing more chapters keeps the list numbered, and lists exactly them.
LEMMA ListedMore ==
  ASSUME NEW list \in Seq(Result), NEW items \in Seq(Chapter),
         Numbered(list)
  PROVE  LET more == Listed(list, items) IN
         /\ more \in Seq(Result)
         /\ Numbered(more)
         /\ [k \in DOMAIN more |-> more[k].of] = [k \in DOMAIN list |-> list[k].of] \o items
<1> DEFINE new == [i \in DOMAIN items |-> [index |-> Len(list) + i - 1, of |-> items[i]]]
           more == list \o new
           old == [k \in DOMAIN list |-> list[k].of]
           now == [k \in DOMAIN more |-> more[k].of]
<1>1. Len(list) \in Nat /\ Len(items) \in Nat /\ DOMAIN items = 1 .. Len(items)
      /\ DOMAIN list = 1 .. Len(list)
      /\ \A i \in 1 .. Len(items) : items[i] \in Chapter
  OBVIOUS
<1>2. \A i \in 1 .. Len(items) : [index |-> Len(list) + i - 1, of |-> items[i]] \in Result
  BY <1>1 DEF Result
<1>3. new \in Seq(Result) /\ Len(new) = Len(items)
      /\ \A i \in 1 .. Len(items) : new[i] = [index |-> Len(list) + i - 1, of |-> items[i]]
  BY <1>1, <1>2
<1> HIDE DEF new
<1>4. /\ more \in Seq(Result) /\ Len(more) = Len(list) + Len(items)
      /\ \A i \in 1 .. Len(list) + Len(items) :
            more[i] = IF i <= Len(list) THEN list[i] ELSE new[i - Len(list)]
  <2>1. /\ more \in Seq(Result) /\ Len(more) = Len(list) + Len(new)
        /\ \A i \in 1 .. Len(list) + Len(new) :
              more[i] = IF i <= Len(list) THEN list[i] ELSE new[i - Len(list)]
    <3>1. new \in Seq(Result)
      BY <1>3
    <3> QED
      BY <3>1, ConcatProperties
  <2> QED
    BY <2>1, <1>3
<1>5. DOMAIN more = 1 .. Len(list) + Len(items)
  BY <1>4
<1> HIDE DEF more
<1>6. \A k \in DOMAIN more :
        /\ k <= Len(list) => more[k].index = k - 1 /\ more[k].of = list[k].of
        /\ k > Len(list) => more[k].index = k - 1 /\ more[k].of = items[k - Len(list)]
  <2> TAKE k \in DOMAIN more
  <2>1. CASE k <= Len(list)
    BY <2>1, <1>1, <1>4, <1>5 DEF Numbered
  <2>2. CASE k > Len(list)
    <3>1. k - Len(list) \in 1 .. Len(items)
      BY <2>2, <1>1, <1>5
    <3>2. more[k] = new[k - Len(list)]
      BY <2>2, <1>1, <1>4, <1>5
    <3>3. more[k] = [index |-> Len(list) + (k - Len(list)) - 1, of |-> items[k - Len(list)]]
      BY <3>1, <3>2, <1>3
    <3> QED
      BY <2>2, <3>3, <1>1, <1>5
  <2> QED
    BY <2>1, <2>2, <1>1, <1>5
<1>7. now = old \o items
  <2>1. old \in Seq(Chapter) /\ Len(old) = Len(list) /\ \A k \in 1 .. Len(list) : old[k] = list[k].of
    <3>1. \A k \in 1 .. Len(list) : list[k].of \in Chapter
      <4>1. \A k \in 1 .. Len(list) : list[k] \in Result
        BY ElementOfSeq
      <4> QED
        BY <4>1 DEF Result
    <3> QED
      BY <3>1, <1>1
  <2>2. now \in Seq(Chapter) /\ Len(now) = Len(list) + Len(items)
        /\ \A k \in 1 .. Len(list) + Len(items) : now[k] = more[k].of
    <3>1. \A k \in DOMAIN more : more[k].of \in Chapter
      <4>1. \A k \in 1 .. Len(more) : more[k] \in Result
        BY <1>4, ElementOfSeq
      <4> QED
        BY <4>1, <1>4, <1>5 DEF Result
    <3> QED
      BY <3>1, <1>1, <1>5
  <2> HIDE DEF old, now
  <2>3. /\ old \o items \in Seq(Chapter) /\ Len(old \o items) = Len(list) + Len(items)
        /\ \A i \in 1 .. Len(list) + Len(items) :
              (old \o items)[i] = IF i <= Len(list) THEN old[i] ELSE items[i - Len(list)]
    <3>1. /\ old \o items \in Seq(Chapter) /\ Len(old \o items) = Len(old) + Len(items)
          /\ \A i \in 1 .. Len(old) + Len(items) :
              (old \o items)[i] = IF i <= Len(old) THEN old[i] ELSE items[i - Len(old)]
      BY <2>1
    <3> QED
      BY <3>1, <2>1
  <2>4. \A k \in 1 .. Len(list) + Len(items) : now[k] = (old \o items)[k]
    <3> TAKE k \in 1 .. Len(list) + Len(items)
    <3>1. now[k] = more[k].of /\ k \in DOMAIN more
      BY <1>5, <2>2
    <3>2. CASE k <= Len(list)
      <4>1. (old \o items)[k] = old[k] /\ k \in 1 .. Len(list)
        BY <2>3, <3>2, <1>1
      <4>2. old[k] = list[k].of
        BY <2>1, <4>1
      <4> QED
        BY <3>1, <3>2, <4>1, <4>2, <1>6
    <3>3. CASE ~(k <= Len(list))
      <4>1. (old \o items)[k] = items[k - Len(list)]
        BY <2>3, <3>3, <1>1
      <4> QED
        BY <3>1, <3>3, <4>1, <1>1, <1>6
    <3> QED
      BY <3>2, <3>3
  <2> QED
    BY <2>2, <2>3, <2>4, SeqEqual
<1>8. Listed(list, items) = more
  BY DEF Listed, more, new
<1>9. \A k \in DOMAIN more : more[k].index = k - 1
  BY <1>1, <1>5, <1>6
<1> QED
  <2> HIDE DEF now, old
  <2>1. LET l == Listed(list, items) IN
        l \in Seq(Result) /\ Numbered(l)
    BY <1>4, <1>8, <1>9 DEF Numbered
  <2>2. [k \in DOMAIN Listed(list, items) |-> Listed(list, items)[k].of]
          = [k \in DOMAIN list |-> list[k].of] \o items
    BY <1>7, <1>8 DEF now, old
  <2> QED
    BY <2>1, <2>2

\* One more page: what all pages said.
LEMMA SaidMore ==
  ASSUME site \in Sites, NEW l \in Seq(Urls), NEW u \in Urls
  PROVE  FlattenSeq([k \in DOMAIN Append(l, u) |-> Said(Append(l, u)[k])])
           = FlattenSeq([k \in DOMAIN l |-> Said(l[k])]) \o Said(u)
<1> DEFINE m == Append(l, u)
           old == [k \in DOMAIN l |-> Said(l[k])]
           now == [k \in DOMAIN m |-> Said(m[k])]
<1>1. /\ m \in Seq(Urls) /\ Len(m) = Len(l) + 1 /\ m[Len(l) + 1] = u
      /\ \A i \in 1 .. Len(l) : m[i] = l[i]
      /\ Len(l) \in Nat
  BY AppendProperties
<1>2. \A v \in Urls : Said(v) \in Seq(Chapter)
  BY PageFacts
<1>3. old \in Seq(Seq(Chapter)) /\ Len(old) = Len(l) /\ \A i \in 1 .. Len(l) : old[i] = Said(l[i])
  <2>1. \A i \in 1 .. Len(l) : Said(l[i]) \in Seq(Chapter)
    BY <1>2
  <2> QED
    BY <2>1
<1> HIDE DEF m
<1>4. now \in Seq(Seq(Chapter)) /\ Len(now) = Len(l) + 1
      /\ \A i \in 1 .. Len(l) + 1 : now[i] = Said(m[i])
  <2>1. \A i \in 1 .. Len(m) : Said(m[i]) \in Seq(Chapter)
    BY <1>1, <1>2
  <2> QED
    BY <2>1, <1>1
<1> HIDE DEF old, now
<1>5. now = Append(old, Said(u))
  <2>1. /\ Append(old, Said(u)) \in Seq(Seq(Chapter)) /\ Len(Append(old, Said(u))) = Len(l) + 1
        /\ \A i \in 1 .. Len(l) : Append(old, Said(u))[i] = Said(l[i])
        /\ Append(old, Said(u))[Len(l) + 1] = Said(u)
    BY <1>2, <1>3, AppendProperties
  <2>2. \A i \in 1 .. Len(l) + 1 : now[i] = Append(old, Said(u))[i]
    BY <2>1, <1>1, <1>4
  <2> QED
    BY <2>1, <2>2, <1>4, SeqEqual
<1>6. FlattenSeq(now) = FlattenSeq(old) \o Said(u)
  BY <1>2, <1>3, <1>5, FlattenMore
<1> QED
  BY <1>6 DEF m, old, now

\* A walk begins.
LEMMA WalkBegins ==
  ASSUME NEW s \in Sites, NEW session \in BOOLEAN,
         NEW first \in {"search", "catalog", "content", "done"},
         first = "search" <=> session,
         WalkStart(s, session, first)
  PROVE  WalkInv
<1>1. WalkTypes
  BY WalkFacts DEF WalkStart, WalkTypes, Stages, Over
<1>2. NumberedInv /\ VisitedInv /\ ListedInv /\ ReadInv
  BY DEF WalkStart, NumberedInv, Numbered, VisitedInv, ListedInv, ReadInv
<1>3. SessionInv
  BY WalkFacts DEF WalkStart, SessionInv, Over
<1> QED
  BY <1>1, <1>2, <1>3 DEF WalkInv

\* Tuples that grow.
LEMMA Tuples ==
  ASSUME NEW X, NEW a \in X, NEW b \in X, NEW c \in X
  PROVE  /\ Append(<<>>, a) = <<a>> /\ Append(<<a>>, b) = <<a, b>>
         /\ Append(<<a, b>>, c) = <<a, b, c>>
<1>1. <<>> \in Seq(X) /\ <<a>> \in Seq(X) /\ <<a, b>> \in Seq(X)
      /\ <<a, b, c>> \in Seq(X)
  OBVIOUS
<1>2. Append(<<>>, a) = <<a>>
  OBVIOUS
<1>3. Append(<<a>>, b) = <<a, b>>
  <2> DEFINE s == Append(<<a>>, b)
             t == <<a, b>>
  <2>1. s \in Seq(X) /\ Len(s) = 2 /\ s[1] = a /\ s[2] = b
    BY <1>1, AppendProperties
  <2>2. t \in Seq(X) /\ Len(t) = 2 /\ t[1] = a /\ t[2] = b
    BY <1>1
  <2> HIDE DEF s, t
  <2>3. \A i \in 1 .. 2 : s[i] = t[i]
    BY <2>1, <2>2
  <2>4. s = t
    BY <2>1, <2>2, <2>3, SeqEqual
  <2> QED
    BY <2>4 DEF s, t
<1>4. Append(<<a, b>>, c) = <<a, b, c>>
  <2> DEFINE s == Append(<<a, b>>, c)
             t == <<a, b, c>>
  <2>1. s \in Seq(X) /\ Len(s) = 3 /\ s[1] = a /\ s[2] = b /\ s[3] = c
    BY <1>1, AppendProperties
  <2>2. t \in Seq(X) /\ Len(t) = 3 /\ t[1] = a /\ t[2] = b /\ t[3] = c
    BY <1>1
  <2> HIDE DEF s, t
  <2>3. \A i \in 1 .. 3 : s[i] = t[i]
    BY <2>1, <2>2
  <2>4. s = t
    BY <2>1, <2>2, <2>3, SeqEqual
  <2> QED
    BY <2>4 DEF s, t
<1> QED
  BY <1>2, <1>3, <1>4

\* A fourth.
LEMMA FourthWord ==
  ASSUME NEW X, NEW a \in X, NEW b \in X, NEW c \in X, NEW d \in X
  PROVE  Append(<<a, b, c>>, d) = <<a, b, c, d>>
<1> DEFINE s == Append(<<a, b, c>>, d)
           t == <<a, b, c, d>>
<1>1. <<a, b, c>> \in Seq(X)
  OBVIOUS
<1>2. s \in Seq(X) /\ Len(s) = 4 /\ s[1] = a /\ s[2] = b /\ s[3] = c /\ s[4] = d
  BY <1>1, AppendProperties
<1>3. t \in Seq(X) /\ Len(t) = 4 /\ t[1] = a /\ t[2] = b /\ t[3] = c /\ t[4] = d
  OBVIOUS
<1> HIDE DEF s, t
<1>4. \A i \in 1 .. 4 : s[i] = t[i]
  BY <1>2, <1>3
<1>5. s = t
  BY <1>2, <1>3, <1>4, SeqEqual
<1> QED
  BY <1>5 DEF s, t

\* What a session may have told.
LEMMA SessionWords ==
  /\ Append(<<>>, "error") = <<"error">>
  /\ Append(<<"search">>, "error") = <<"search", "error">>
  /\ Append(<<"search", "catalog">>, "error") = <<"search", "catalog", "error">>
  /\ Append(<<"search", "catalog", "content">>, "error")
        = <<"search", "catalog", "content", "error">>
  /\ Append(<<>>, "search") = <<"search">>
  /\ Append(<<"search">>, "catalog") = <<"search", "catalog">>
  /\ Append(<<"search", "catalog">>, "content") = <<"search", "catalog", "content">>
  /\ Append(<<"search", "catalog", "content">>, "done")
        = <<"search", "catalog", "content", "done">>
<1>1. "search" \in Told /\ "catalog" \in Told /\ "content" \in Told /\ "done" \in Told
      /\ "error" \in Told
  BY DEF Told
<1>2. /\ Append(<<>>, "error") = <<"error">> /\ Append(<<>>, "search") = <<"search">>
  BY <1>1, Tuples
<1>3. /\ Append(<<"search">>, "error") = <<"search", "error">>
      /\ Append(<<"search">>, "catalog") = <<"search", "catalog">>
  BY <1>1, Tuples
<1>4. /\ Append(<<"search", "catalog">>, "error") = <<"search", "catalog", "error">>
      /\ Append(<<"search", "catalog">>, "content") = <<"search", "catalog", "content">>
  BY <1>1, Tuples
<1>5. \A a, b, c, d \in Told : Append(<<a, b, c>>, d) = <<a, b, c, d>>
  BY FourthWord
<1>6. /\ Append(<<"search", "catalog", "content">>, "error")
            = <<"search", "catalog", "content", "error">>
      /\ Append(<<"search", "catalog", "content">>, "done")
            = <<"search", "catalog", "content", "done">>
  BY <1>1, <1>5, Zenon
<1> QED
  BY <1>2, <1>3, <1>4, <1>6, Zenon

\* A page is loaded: the walk fails, or goes on.
LEMMA LoadCases ==
  ASSUME NEW u, NEW ACTION Then, WalkInv, stage \in {"search", "catalog", "content"},
         Load(u, Then)
  PROVE  \/ Fail /\ asked' \in 0 .. MaxAsked + 1 /\ debug
         \/ /\ Then
            /\ asked' \in 0 .. MaxAsked
            /\ loaded' = IF u = NoUrl THEN loaded ELSE Append(loaded, u)
            /\ UNCHANGED <<site, debug, stage, stop, events, heard>>
<1>0. MaxAsked \in Nat /\ asked \in 0 .. MaxAsked + 1 /\ debug \in BOOLEAN
      /\ (~debug => stop = "no")
  BY WalkFacts DEF WalkInv, WalkTypes, SessionInv
<1>1. PICK extra \in (IF debug THEN 0 .. 1 ELSE {0}) :
        IF stop # "no" THEN Fail /\ UNCHANGED asked
        ELSE /\ asked' = IF (IF debug THEN asked + 1 + extra ELSE 0) > MaxAsked
                         THEN MaxAsked + 1 ELSE (IF debug THEN asked + 1 + extra ELSE 0)
             /\ IF (IF debug THEN asked + 1 + extra ELSE 0) > MaxAsked THEN Fail
                ELSE /\ Then
                     /\ loaded' = IF u = NoUrl THEN loaded ELSE Append(loaded, u)
                     /\ UNCHANGED <<site, debug, stage, stop, events, heard>>
  BY DEF Load
<1>2. CASE stop # "no"
  BY <1>0, <1>1, <1>2
<1>3. CASE stop = "no" /\ ~debug
  BY <1>0, <1>1, <1>3
<1>4. CASE stop = "no" /\ debug
  <2>1. extra \in 0 .. 1 /\ asked + 1 + extra \in Nat
    BY <1>0, <1>1, <1>4
  <2>2. CASE asked + 1 + extra > MaxAsked
    <3>1. Fail /\ asked' = MaxAsked + 1
      BY <1>1, <1>4, <2>2
    <3>2. asked' \in 0 .. MaxAsked + 1
      BY <1>0, <3>1
    <3> QED
      BY <1>4, <3>1, <3>2, Zenon
  <2>3. CASE ~(asked + 1 + extra > MaxAsked)
    BY <1>0, <1>1, <1>4, <2>1, <2>3
  <2> QED
    BY <2>2, <2>3
<1> QED
  BY <1>0, <1>2, <1>3, <1>4

\* A walk that failed keeps what it has; the session tells so, if somebody listens.
LEMMA FailEnds ==
  ASSUME WalkInv, debug, at # "turn", Fail, asked' \in 0 .. MaxAsked + 1,
         stage \in {"search", "catalog", "content"} \/ (stage = "closing" /\ stop # "no")
  PROVE  WalkInv'
<1>0. UNCHANGED <<site, debug, at, page, visited, guard, results, texts, loaded, stop, heard>>
  BY DEF Fail, walk
<1>1. events' = events \/ events' = Append(events, "error")
  BY DEF Fail
<1>2. WalkTypes'
  <2>1. events' \in Seq(Told)
    <3>1. events \in Seq(Told) /\ "error" \in Told
      BY DEF WalkInv, WalkTypes, Told
    <3> QED
      BY <1>1, <3>1, AppendProperties
  <2>2. stage' \in Stages \union Over
    BY DEF Fail, Over
  <2> QED
    BY <1>0, <2>1, <2>2 DEF WalkInv, WalkTypes
<1>3. NumberedInv' /\ VisitedInv'
  BY <1>0 DEF WalkInv, NumberedInv, Numbered, VisitedInv
<1>4. stage' \notin Stages /\ stage' \in Over
  BY DEF Fail, Over, Stages
<1>6. ListedInv' /\ ReadInv'
  BY <1>0, <1>4 DEF ListedInv, ReadInv, Stages
<1>7. SessionInv'
  <2>1. CASE stop = "gone"
    BY <2>1, <1>0, <1>4 DEF WalkInv, SessionInv, Fail
  <2>2. CASE stop # "gone"
    <3>1. stage' = "error" /\ events' = Append(events, "error")
      BY <2>2 DEF Fail
    <3>2. \/ events \in {<<>>, <<"search">>, <<"search", "catalog">>}
          \/ events = <<"search", "catalog", "content">> /\ stop = "late"
      BY <2>2 DEF WalkInv, WalkTypes, SessionInv
    <3>3. \/ events' \in {<<"error">>, <<"search", "error">>, <<"search", "catalog", "error">>}
          \/ events' = <<"search", "catalog", "content", "error">> /\ stop = "late"
      BY <3>1, <3>2, SessionWords, Zenon
    <3> QED
      BY <2>2, <3>1, <3>3, <1>0 DEF SessionInv, Over
  <2> QED
    BY <2>1, <2>2
<1> QED
  BY <1>2, <1>3, <1>6, <1>7 DEF WalkInv

\* The same in the stages before the content is told.
LEMMA FailKeeps ==
  ASSUME WalkInv, debug, stage \in {"search", "catalog", "content"}, at # "turn",
         Fail, asked' \in 0 .. MaxAsked + 1
  PROVE  WalkInv'
<1>1. stage \in {"search", "catalog", "content"} \/ (stage = "closing" /\ stop # "no")
  OBVIOUS
<1> QED
  BY <1>1, FailEnds, Zenon

\* A stage that is over hands on to the next one.
LEMMA StageKeeps ==
  ASSUME WalkInv, NEW next, NEW brought \in BOOLEAN,
         \/ stage = "search" /\ next = "catalog"
         \/ stage = "catalog" /\ next = "content"
         \/ stage = "content" /\ next = "closing",
         at = "end", NextStage(next, brought)
  PROVE  WalkInv'
<1>0. /\ asked \in 0 .. MaxAsked + 1 /\ ~(asked > MaxAsked) /\ events \in Seq(Told)
      /\ debug \in BOOLEAN /\ site \in Sites /\ stop \in {"no", "late", "gone"} /\ heard \in Nat
      /\ MaxAsked \in Nat /\ stage \in {"search", "catalog", "content"}
  BY WalkFacts DEF WalkInv, WalkTypes, SessionInv, Over
<1>1. CASE debug /\ (stop # "no" \/ ~brought)
  <2>1. Fail /\ asked' = asked
    BY <1>1 DEF NextStage
  <2> QED
    BY <1>0, <1>1, <2>1, FailKeeps
<1>2. CASE ~(debug /\ (stop # "no" \/ ~brought))
  <2>1. /\ stage' = IF debug THEN next ELSE "done"
        /\ events' = IF debug THEN Append(events, stage) ELSE events
        /\ at' = "first" /\ page' = NoUrl /\ visited' = {} /\ guard' = 0
        /\ results' = <<>> /\ texts' = <<>> /\ loaded' = <<>>
        /\ UNCHANGED <<site, debug, asked, stop, heard>>
    BY <1>2 DEF NextStage, NewWalk
  <2>2. events' \in Seq(Told)
    <3>1. stage \in Told
      BY DEF Told
    <3> QED
      BY <1>0, <2>1, <3>1, AppendProperties
  <2>3. WalkTypes'
    <3>1. stage' \in Stages \union Over
      BY <2>1 DEF Stages, Over
    <3>2. guard' \in 0 .. MaxNext + MaxApi + MaxText
      BY <2>1, WalkFacts
    <3> QED
      BY <1>0, <2>1, <2>2, <3>1, <3>2 DEF WalkTypes
  <2>4. NumberedInv' /\ VisitedInv' /\ ListedInv' /\ ReadInv'
    BY <2>1 DEF NumberedInv, Numbered, VisitedInv, ListedInv, ReadInv
  <2>5. SessionInv'
    <3>1. CASE ~debug
      BY <3>1, <2>1, <1>0 DEF WalkInv, SessionInv, Over
    <3>2. CASE debug
      <4>1. stop = "no" /\ stage' = next
        BY <1>0, <1>2, <2>1, <3>2
      <4>2. \/ stage' = "catalog" /\ events' = <<"search">>
            \/ stage' = "content" /\ events' = <<"search", "catalog">>
            \/ stage' = "closing" /\ events' = <<"search", "catalog", "content">>
        <5>1. CASE stage = "search"
          <6>1. events = <<>> /\ events' = Append(events, "search") /\ next = "catalog"
            BY <5>1, <2>1, <3>2 DEF WalkInv, SessionInv
          <6> QED
            BY <5>1, <2>1, <3>2, <6>1, SessionWords
        <5>2. CASE stage = "catalog"
          <6>1. events = <<"search">> /\ events' = Append(events, "catalog") /\ next = "content"
            BY <5>2, <2>1, <3>2 DEF WalkInv, SessionInv
          <6>2. events' = <<"search", "catalog">>
            BY <6>1, SessionWords, Zenon
          <6> QED
            BY <5>2, <2>1, <3>2, <6>1, <6>2
        <5>3. CASE stage = "content"
          <6>1. /\ events = <<"search", "catalog">> /\ events' = Append(events, "content")
                /\ next = "closing"
            BY <5>3, <2>1, <3>2 DEF WalkInv, SessionInv
          <6>2. events' = <<"search", "catalog", "content">>
            BY <6>1, SessionWords, Zenon
          <6> QED
            BY <5>3, <2>1, <3>2, <6>1, <6>2
        <5> QED
          BY <5>1, <5>2, <5>3
      <4> QED
        BY <1>0, <2>1, <3>2, <4>1, <4>2 DEF SessionInv, Over
    <3> QED
      BY <1>0, <3>1, <3>2
  <2> QED
    BY <2>3, <2>4, <2>5 DEF WalkInv
<1> QED
  BY <1>1, <1>2

\* A session without a url to go on with fails.
LEMMA UnlinkedKeeps == WalkInv /\ Unlinked => WalkInv'
<1> SUFFICES ASSUME WalkInv, Unlinked PROVE WalkInv'
  OBVIOUS
<1>1. /\ debug /\ stage \in {"search", "catalog", "content"} /\ at # "turn" /\ Fail
      /\ asked' \in 0 .. MaxAsked + 1
  BY DEF Unlinked, WalkInv, WalkTypes
<1> QED
  BY <1>1, FailKeeps

\* A session whose content is told says that it is done, or fails on the way.
LEMMA SessionEndsKeeps == WalkInv /\ SessionEnds => WalkInv'
<1> SUFFICES ASSUME WalkInv, SessionEnds PROVE WalkInv'
  OBVIOUS
<1>0. /\ stage = "closing" /\ debug /\ asked' = asked
      /\ asked \in 0 .. MaxAsked + 1 /\ ~(asked > MaxAsked)
      /\ events = <<"search", "catalog", "content">> /\ events \in Seq(Told)
      /\ at # "turn"
  <2>1. stage = "closing" /\ asked' = asked
    BY DEF SessionEnds
  <2>2. debug
    BY <2>1 DEF WalkInv, WalkTypes, SessionInv
  <2> QED
    BY <2>1, <2>2 DEF WalkInv, WalkTypes, SessionInv, ListedInv, Over
<1>1. CASE stop # "no"
  <2>1. Fail /\ asked' \in 0 .. MaxAsked + 1
    BY <1>0, <1>1 DEF SessionEnds
  <2>2. stage \in {"search", "catalog", "content"} \/ (stage = "closing" /\ stop # "no")
    BY <1>0, <1>1
  <2> QED
    BY <1>0, <2>1, <2>2, FailEnds, Zenon
<1>2. CASE stop = "no"
  <2>1. /\ stage' = "done" /\ events' = Append(events, "done")
        /\ UNCHANGED <<site, debug, at, page, visited, guard, results, texts, loaded, stop, heard>>
    BY <1>2 DEF SessionEnds, walk
  <2>2. events' = <<"search", "catalog", "content", "done">>
    BY <1>0, <2>1, SessionWords, Zenon
  <2>3. WalkTypes'
    <3>1. events' \in Seq(Told)
      <4>1. "done" \in Told
        BY DEF Told
      <4> QED
        BY <1>0, <2>1, <4>1, AppendProperties
    <3>2. stage' \in Stages \union Over
      BY <2>1 DEF Over
    <3> QED
      BY <1>0, <2>1, <3>1, <3>2 DEF WalkInv, WalkTypes
  <2>4. NumberedInv' /\ VisitedInv'
    BY <2>1 DEF WalkInv, NumberedInv, Numbered, VisitedInv
  <2>5. ListedInv' /\ ReadInv'
    BY <1>0, <2>1 DEF ListedInv, ReadInv
  <2>6. SessionInv'
    BY <1>0, <1>2, <2>1, <2>2 DEF SessionInv, Over
  <2> QED
    BY <2>3, <2>4, <2>5, <2>6 DEF WalkInv
<1> QED
  BY <1>1, <1>2

\* A step within a stage that tells nothing.
LEMMA QuietSession ==
  ASSUME WalkInv, stage \in {"search", "catalog", "content"},
         UNCHANGED <<debug, stage, stop, events, heard>>,
         asked' \in 0 .. MaxAsked
  PROVE  SessionInv'
<1>1. ~(asked' > MaxAsked)
  BY WalkFacts
<1> QED
  BY <1>1 DEF WalkInv, SessionInv, Over

\* One more page, which was not loaded before or is the one the toc rule leads to.
LEMMA DistinctMore ==
  ASSUME NEW l \in Seq(Urls), NEW u \in Urls,
         \A i, j \in DOMAIN l : i < j /\ l[i] = l[j] => l[j] = site.toc,
         u = site.toc \/ \A k \in DOMAIN l : l[k] # u
  PROVE  \A i, j \in DOMAIN Append(l, u) :
            i < j /\ Append(l, u)[i] = Append(l, u)[j] => Append(l, u)[j] = site.toc
<1> DEFINE m == Append(l, u)
<1>1. /\ m \in Seq(Urls) /\ Len(m) = Len(l) + 1 /\ m[Len(l) + 1] = u
      /\ \A i \in 1 .. Len(l) : m[i] = l[i]
      /\ Len(l) \in Nat /\ DOMAIN l = 1 .. Len(l)
  BY AppendProperties
<1>2. DOMAIN m = 1 .. Len(l) + 1
  BY <1>1
<1> HIDE DEF m
<1>3. ASSUME NEW i \in DOMAIN m, NEW j \in DOMAIN m, i < j, m[i] = m[j]
      PROVE  m[j] = site.toc
  <2>1. i \in DOMAIN l /\ m[i] = l[i]
    BY <1>1, <1>2, <1>3
  <2>2. CASE j = Len(l) + 1
    BY <2>1, <2>2, <1>1, <1>3
  <2>3. CASE j # Len(l) + 1
    <3>1. j \in DOMAIN l /\ m[j] = l[j]
      BY <2>3, <1>1, <1>2
    <3> QED
      BY <2>1, <3>1, <1>3
  <2> QED
    BY <2>2, <2>3
<1> QED
  BY <1>3 DEF m

\* The search of a session: one page.
LEMMA SearchKeeps == WalkInv /\ (Search \/ SearchEnds) => WalkInv'
<1> SUFFICES ASSUME WalkInv, Search \/ SearchEnds PROVE WalkInv'
  OBVIOUS
<1>1. CASE Search
  <2>0. stage = "search" /\ at = "first" /\ debug
    BY <1>1 DEF Search, WalkInv, WalkTypes, SessionInv
  <2>1. \/ Fail /\ asked' \in 0 .. MaxAsked + 1
        \/ /\ asked' \in 0 .. MaxAsked /\ at' = "end"
           /\ loaded' = Append(loaded, site.start)
           /\ UNCHANGED <<site, debug, stage, stop, events, heard, page, visited, guard, results,
                          texts>>
    <3>1. Load(site.start, at' = "end" /\ UNCHANGED <<page, visited, guard, results, texts>>)
      BY <1>1 DEF Search
    <3>2. \/ Fail /\ asked' \in 0 .. MaxAsked + 1 /\ debug
          \/ /\ at' = "end" /\ UNCHANGED <<page, visited, guard, results, texts>>
             /\ asked' \in 0 .. MaxAsked
             /\ loaded' = IF site.start = NoUrl THEN loaded ELSE Append(loaded, site.start)
             /\ UNCHANGED <<site, debug, stage, stop, events, heard>>
      BY <2>0, <3>1, LoadCases
    <3>3. site.start # NoUrl
      BY WalkFacts DEF WalkInv, WalkTypes
    <3> QED
      BY <3>2, <3>3
  <2>2. CASE Fail /\ asked' \in 0 .. MaxAsked + 1
    BY <2>0, <2>2, FailKeeps
  <2>3. CASE /\ asked' \in 0 .. MaxAsked /\ at' = "end"
             /\ loaded' = Append(loaded, site.start)
             /\ UNCHANGED <<site, debug, stage, stop, events, heard, page, visited, guard, results,
                            texts>>
    <3>0. site \in Sites /\ site.start \in Urls /\ loaded = <<>> /\ loaded \in Seq(Urls)
      BY <2>0, WalkFacts DEF WalkInv, WalkTypes, VisitedInv
    <3>1. loaded' = <<site.start>> /\ loaded' \in Seq(Urls)
      BY <2>3, <3>0
    <3>2. WalkTypes'
      BY <2>3, <3>1, WalkFacts DEF WalkInv, WalkTypes
    <3>3. NumberedInv' /\ ListedInv' /\ ReadInv'
      BY <2>0, <2>3 DEF WalkInv, NumberedInv, Numbered, ListedInv, ReadInv
    <3>4. VisitedInv'
      BY <2>3, <3>1 DEF VisitedInv
    <3>5. SessionInv'
      BY <2>0, <2>3, QuietSession
    <3> QED
      BY <3>2, <3>3, <3>4, <3>5 DEF WalkInv
  <2> QED
    BY <2>1, <2>2, <2>3
<1>2. CASE SearchEnds
  BY <1>2, StageKeeps DEF SearchEnds
<1> QED
  BY <1>1, <1>2

\* A page is listed, if it is not down.
LEMMA PageListed ==
  ASSUME NEW u \in Urls, site \in Sites, site' = site,
         results \in Seq(Result), Numbered(results), loaded \in Seq(Urls),
         loaded' = Append(loaded, u),
         results' = IF PageAt(u).down THEN results ELSE Listed(results, PageAt(u).items)
  PROVE  /\ results' \in Seq(Result) /\ Numbered(results')
         /\ ListedSoFar = FlattenSeq(SaidSoFar) => (ListedSoFar = FlattenSeq(SaidSoFar))'
<1>1. PageAt(u).items \in Seq(Chapter) /\ PageAt(u).down \in BOOLEAN /\ Said(u) \in Seq(Chapter)
  BY PageFacts
<1>2. FlattenSeq(SaidSoFar') = FlattenSeq(SaidSoFar) \o Said(u)
  <2>1. SaidSoFar' = [k \in DOMAIN Append(loaded, u) |-> Said(Append(loaded, u)[k])]
    BY DEF SaidSoFar, Said, PageAt
  <2> QED
    BY <2>1, SaidMore DEF SaidSoFar
<1>3. CASE PageAt(u).down
  <2>1. results' = results /\ Said(u) = <<>>
    BY <1>3 DEF Said
  <2>2. ListedSoFar' = ListedSoFar
    BY <2>1 DEF ListedSoFar
  <2>3. ListedSoFar \in Seq(Chapter)
    <3>1. Len(results) \in Nat /\ DOMAIN results = 1 .. Len(results)
          /\ \A k \in 1 .. Len(results) : results[k] \in Result
      BY ElementOfSeq
    <3>2. \A k \in 1 .. Len(results) : results[k].of \in Chapter
      BY <3>1 DEF Result
    <3> QED
      BY <3>1, <3>2 DEF ListedSoFar
  <2>4. ListedSoFar \o <<>> = ListedSoFar
    BY <2>3
  <2> QED
    BY <1>2, <2>1, <2>2, <2>4
<1>4. CASE ~PageAt(u).down
  <2>1. results' = Listed(results, PageAt(u).items) /\ Said(u) = PageAt(u).items
    BY <1>4 DEF Said
  <2>2. /\ results' \in Seq(Result) /\ Numbered(results')
        /\ ListedSoFar' = ListedSoFar \o PageAt(u).items
    BY <1>1, <2>1, ListedMore DEF ListedSoFar
  <2> QED
    BY <1>2, <2>1, <2>2
<1> QED
  BY <1>1, <1>3, <1>4

\* The first page of a catalog.
LEMMA FirstPageKeeps == WalkInv /\ FirstPage => WalkInv'
<1> SUFFICES ASSUME WalkInv, FirstPage PROVE WalkInv'
  OBVIOUS
<1>0. /\ stage = "catalog" /\ at = "first" /\ site \in Sites /\ site.start \in Urls
      /\ site.start # NoUrl /\ loaded = <<>> /\ results = <<>>
      /\ results \in Seq(Result) /\ loaded \in Seq(Urls) /\ Numbered(results)
  BY WalkFacts DEF FirstPage, WalkInv, WalkTypes, VisitedInv, NumberedInv
<1> DEFINE Then == LET p == PageAt(site.start)
                   IN  /\ results' = IF p.down THEN <<>> ELSE Listed(<<>>, p.items)
                       /\ at' = IF p.down THEN "toc" ELSE IF site.paged THEN "next" ELSE "turn"
                       /\ page' = site.start /\ visited' = {site.start}
                       /\ UNCHANGED <<guard, texts>>
<1>1. \/ Fail /\ asked' \in 0 .. MaxAsked + 1 /\ debug
      \/ /\ Then
         /\ asked' \in 0 .. MaxAsked
         /\ loaded' = Append(loaded, site.start)
         /\ UNCHANGED <<site, debug, stage, stop, events, heard>>
  <2>1. Load(site.start, Then)
    BY DEF FirstPage
  <2> HIDE DEF Then
  <2>2. \/ Fail /\ asked' \in 0 .. MaxAsked + 1 /\ debug
        \/ /\ Then
           /\ asked' \in 0 .. MaxAsked
           /\ loaded' = IF site.start = NoUrl THEN loaded ELSE Append(loaded, site.start)
           /\ UNCHANGED <<site, debug, stage, stop, events, heard>>
    BY <1>0, <2>1, LoadCases
  <2> QED
    BY <1>0, <2>2
<1>2. CASE Fail /\ asked' \in 0 .. MaxAsked + 1 /\ debug
  BY <1>0, <1>2, FailKeeps
<1>3. CASE /\ Then
           /\ asked' \in 0 .. MaxAsked
           /\ loaded' = Append(loaded, site.start)
           /\ UNCHANGED <<site, debug, stage, stop, events, heard>>
  <2>1. results' = IF PageAt(site.start).down THEN results
                   ELSE Listed(results, PageAt(site.start).items)
    BY <1>0, <1>3
  <2>2. loaded' = <<site.start>> /\ loaded' \in Seq(Urls)
    BY <1>0, <1>3
  <2>3. results' \in Seq(Result) /\ Numbered(results')
        /\ (ListedSoFar = FlattenSeq(SaidSoFar) => (ListedSoFar = FlattenSeq(SaidSoFar))')
    BY <1>0, <1>3, <2>1, PageListed
  <2>4. ListedSoFar = FlattenSeq(SaidSoFar)
    <3>1. ListedSoFar = <<>> /\ SaidSoFar = <<>>
      BY <1>0 DEF ListedSoFar, SaidSoFar
    <3>2. FlattenSeq(<<>>) = <<>>
      BY DEF FlattenSeq
    <3> QED
      BY <3>1, <3>2
  <2>5. /\ at' \in {"toc", "next", "turn"} /\ page' = site.start /\ visited' = {site.start}
        /\ UNCHANGED <<guard, texts>>
    BY <1>3
  <2>6. WalkTypes'
    BY <1>0, <1>3, <2>2, <2>3, <2>5, WalkFacts DEF WalkInv, WalkTypes
  <2>7. VisitedInv'
    BY <2>2, <2>5 DEF VisitedInv
  <2>8. ListedInv' /\ ReadInv' /\ NumberedInv'
    BY <1>0, <1>3, <2>3, <2>4 DEF ListedInv, ReadInv, NumberedInv
  <2>9. SessionInv'
    BY <1>0, <1>3, QuietSession
  <2> QED
    BY <2>6, <2>7, <2>8, <2>9 DEF WalkInv
<1> QED
  BY <1>1, <1>2, <1>3

\* A next page of a catalog.
LEMMA NextPageKeeps == WalkInv /\ NextPage => WalkInv'
<1> SUFFICES ASSUME WalkInv, NextPage PROVE WalkInv'
  OBVIOUS
<1> DEFINE link == PageAt(page).next
           p == PageAt(link)
           Then == /\ visited' = visited \union {link} /\ guard' = guard + 1
                   /\ IF p.down \/ p.items = <<>>
                      THEN at' = "turn" /\ UNCHANGED <<page, results>>
                      ELSE page' = link /\ results' = Listed(results, p.items) /\ UNCHANGED at
                   /\ UNCHANGED texts
<1>0. /\ stage = "catalog" /\ at = "next" /\ site \in Sites /\ page \in Urls
      /\ results \in Seq(Result) /\ loaded \in Seq(Urls) /\ Numbered(results)
      /\ visited \subseteq Urls
      /\ ListedSoFar = FlattenSeq(SaidSoFar)
      /\ \A k \in DOMAIN loaded : loaded[k] \in visited
      /\ \A i, j \in DOMAIN loaded : i < j /\ loaded[i] = loaded[j] => loaded[j] = site.toc
  BY WalkFacts DEF NextPage, WalkInv, WalkTypes, VisitedInv, NumberedInv, ListedInv
<1>1. link # NoUrl /\ link \notin visited /\ guard < MaxNext /\ link \in Urls
  <2>1. link \in Urls \union {NoUrl}
    BY <1>0, PageFacts
  <2> QED
    BY <2>1 DEF NextPage, Onward
<1>2. p.items \in Seq(Chapter) /\ p.down \in BOOLEAN
  BY <1>0, <1>1, PageFacts
<1>3. \/ Fail /\ asked' \in 0 .. MaxAsked + 1 /\ debug
      \/ /\ Then
         /\ asked' \in 0 .. MaxAsked
         /\ loaded' = Append(loaded, link)
         /\ UNCHANGED <<site, debug, stage, stop, events, heard>>
  <2>1. Load(link, Then)
    BY DEF NextPage
  <2> HIDE DEF Then, link
  <2>2. \/ Fail /\ asked' \in 0 .. MaxAsked + 1 /\ debug
        \/ /\ Then
           /\ asked' \in 0 .. MaxAsked
           /\ loaded' = IF link = NoUrl THEN loaded ELSE Append(loaded, link)
           /\ UNCHANGED <<site, debug, stage, stop, events, heard>>
    BY <1>0, <2>1, LoadCases
  <2> QED
    BY <1>1, <2>2
<1>4. CASE Fail /\ asked' \in 0 .. MaxAsked + 1 /\ debug
  BY <1>0, <1>4, FailKeeps
<1>5. CASE /\ Then
           /\ asked' \in 0 .. MaxAsked
           /\ loaded' = Append(loaded, link)
           /\ UNCHANGED <<site, debug, stage, stop, events, heard>>
  <2>1. results' = IF p.down THEN results ELSE Listed(results, p.items)
    <3>1. Listed(results, <<>>) = results
      <4>1. [i \in DOMAIN <<>> |-> [index |-> Len(results) + i - 1, of |-> <<>>[i]]] = <<>>
        OBVIOUS
      <4>2. results \o <<>> = results
        BY <1>0
      <4> QED
        BY <4>1, <4>2 DEF Listed
    <3>2. CASE p.down
      BY <1>5, <3>2
    <3>3. CASE ~p.down /\ p.items = <<>>
      BY <1>5, <3>1, <3>3
    <3>4. CASE ~p.down /\ p.items # <<>>
      BY <1>5, <3>4
    <3> QED
      BY <3>2, <3>3, <3>4
  <2>2. /\ at' \in {"next", "turn"} /\ page' \in Urls
        /\ visited' = visited \union {link} /\ guard' = guard + 1 /\ UNCHANGED texts
    BY <1>0, <1>1, <1>5
  <2> HIDE DEF link
  <2>3. results' \in Seq(Result) /\ Numbered(results')
        /\ (ListedSoFar = FlattenSeq(SaidSoFar) => (ListedSoFar = FlattenSeq(SaidSoFar))')
    BY <1>0, <1>1, <1>5, <2>1, PageListed
  <2>4. loaded' \in Seq(Urls)
    BY <1>0, <1>1, <1>5
  <2>5. WalkTypes'
    <3>1. guard' \in 0 .. MaxNext + MaxApi + MaxText
      BY <1>1, <2>2, WalkFacts DEF WalkInv, WalkTypes
    <3>2. visited' \subseteq Urls
      BY <1>0, <1>1, <2>2
    <3>3. asked' \in 0 .. MaxAsked + 1
      BY <1>5, WalkFacts
    <3> QED
      BY <1>0, <1>5, <2>2, <2>3, <2>4, <3>1, <3>2, <3>3 DEF WalkInv, WalkTypes
  <2>6. VisitedInv'
    <3>1. \A k \in DOMAIN loaded : loaded[k] # link
      BY <1>0, <1>1
    <3>2. \A i, j \in DOMAIN loaded' : i < j /\ loaded'[i] = loaded'[j] => loaded'[j] = site.toc
      BY <1>0, <1>1, <1>5, <3>1, DistinctMore
    <3>3. \A k \in DOMAIN loaded' : loaded'[k] \in visited'
      <4>1. /\ Len(loaded') = Len(loaded) + 1 /\ loaded'[Len(loaded) + 1] = link
            /\ \A i \in 1 .. Len(loaded) : loaded'[i] = loaded[i]
            /\ Len(loaded) \in Nat /\ DOMAIN loaded = 1 .. Len(loaded)
        BY <1>0, <1>1, <1>5, AppendProperties
      <4>2. DOMAIN loaded' = 1 .. Len(loaded) + 1
        BY <2>4, <4>1
      <4> QED
        BY <1>0, <2>2, <4>1, <4>2
    <3>4. site' = site /\ at' # "first"
      BY <1>5, <2>2
    <3> QED
      BY <3>2, <3>3, <3>4 DEF VisitedInv
  <2>7. ListedInv' /\ ReadInv' /\ NumberedInv'
    BY <1>0, <1>5, <2>3 DEF ListedInv, ReadInv, NumberedInv
  <2>8. SessionInv'
    BY <1>0, <1>5, QuietSession
  <2> QED
    BY <2>5, <2>6, <2>7, <2>8 DEF WalkInv
<1> QED
  BY <1>3, <1>4, <1>5

\* No next page, no toc page.
LEMMA LastPageKeeps == WalkInv /\ (LastPage \/ NoToc) => WalkInv'
<1> SUFFICES ASSUME WalkInv, LastPage \/ NoToc PROVE WalkInv'
  OBVIOUS
<1>1. CASE LastPage
  <2>1. /\ stage = "catalog" /\ at = "next" /\ at' = "turn"
        /\ UNCHANGED <<site, debug, stage, page, visited, guard, results, texts, loaded, asked,
                       stop, events, heard>>
    BY <1>1 DEF LastPage
  <2>2. WalkTypes' /\ NumberedInv' /\ ReadInv'
    BY <2>1 DEF WalkInv, WalkTypes, NumberedInv, Numbered, ReadInv
  <2>3. VisitedInv' /\ SessionInv'
    BY <2>1 DEF WalkInv, VisitedInv, SessionInv
  <2>4. ListedSoFar' = ListedSoFar /\ SaidSoFar' = SaidSoFar
    BY <2>1 DEF ListedSoFar, SaidSoFar, Said, PageAt
  <2>5. ListedInv'
    BY <2>1, <2>4 DEF WalkInv, ListedInv
  <2> QED
    BY <2>2, <2>3, <2>5 DEF WalkInv
<1>2. CASE NoToc
  <2>1. /\ stage = "catalog" /\ at = "toc" /\ at' = "api" /\ guard' = 0
        /\ UNCHANGED <<site, debug, stage, page, visited, results, texts, loaded, asked, stop,
                       events, heard>>
    BY <1>2 DEF NoToc
  <2>2. WalkTypes' /\ NumberedInv' /\ ReadInv'
    BY <2>1, WalkFacts DEF WalkInv, WalkTypes, NumberedInv, Numbered, ReadInv
  <2>3. VisitedInv' /\ SessionInv' /\ ListedInv'
    BY <2>1 DEF WalkInv, VisitedInv, SessionInv, ListedInv
  <2> QED
    BY <2>2, <2>3 DEF WalkInv
<1> QED
  BY <1>1, <1>2

\* The list is turned round.
LEMMA TurnKeeps == WalkInv /\ Turn => WalkInv'
<1> SUFFICES ASSUME WalkInv, Turn PROVE WalkInv'
  OBVIOUS
<1> DEFINE turned == [k \in DOMAIN results |-> [index |-> k - 1, of |-> Reverse(results)[k].of]]
<1>1. /\ stage = "catalog" /\ at = "turn" /\ at' \in {"toc", "end"}
      /\ results' = (IF site.reversed THEN turned ELSE results)
      /\ UNCHANGED <<site, debug, stage, page, visited, guard, texts, loaded, asked, stop, events,
                     heard>>
  BY DEF Turn
<1>2. /\ results \in Seq(Result) /\ Len(results) \in Nat /\ DOMAIN results = 1 .. Len(results)
      /\ \A k \in 1 .. Len(results) : results[k] \in Result
  BY ElementOfSeq DEF WalkInv, WalkTypes
<1>3. turned \in Seq(Result) /\ Numbered(turned)
  <2>1. \A k \in 1 .. Len(results) : Reverse(results)[k].of \in Chapter
    <3> TAKE k \in 1 .. Len(results)
    <3>1. (Len(results) - k) + 1 \in 1 .. Len(results)
      BY <1>2
    <3>2. Reverse(results)[k] = results[(Len(results) - k) + 1]
      BY DEF Reverse
    <3> QED
      BY <1>2, <3>1, <3>2 DEF Result
  <2>2. \A k \in 1 .. Len(results) : [index |-> k - 1, of |-> Reverse(results)[k].of] \in Result
    BY <1>2, <2>1 DEF Result
  <2>3. turned \in Seq(Result) /\ DOMAIN turned = 1 .. Len(results)
    BY <1>2, <2>2
  <2> QED
    BY <1>2, <2>3 DEF Numbered
<1> HIDE DEF turned
<1>4. results' \in Seq(Result) /\ NumberedInv'
  BY <1>1, <1>2, <1>3 DEF WalkInv, NumberedInv
<1>5. WalkTypes' /\ ReadInv'
  BY <1>1, <1>4 DEF WalkInv, WalkTypes, ReadInv
<1>6. VisitedInv' /\ SessionInv' /\ ListedInv'
  BY <1>1 DEF WalkInv, VisitedInv, SessionInv, ListedInv
<1> QED
  BY <1>4, <1>5, <1>6 DEF WalkInv

\* The page the toc rule leads to.
LEMMA TocPageKeeps == WalkInv /\ TocPage => WalkInv'
<1> SUFFICES ASSUME WalkInv, TocPage PROVE WalkInv'
  OBVIOUS
<1> DEFINE Then == /\ results' = IF PageAt(site.toc).down THEN results
                                 ELSE Listed(results, PageAt(site.toc).items)
                   /\ at' = "api" /\ guard' = 0
                   /\ UNCHANGED <<page, visited, texts>>
<1>0. /\ stage = "catalog" /\ at = "toc" /\ site \in Sites /\ site.toc \in Urls
      /\ site.toc # NoUrl
      /\ results \in Seq(Result) /\ loaded \in Seq(Urls) /\ Numbered(results)
      /\ \A i, j \in DOMAIN loaded : i < j /\ loaded[i] = loaded[j] => loaded[j] = site.toc
  BY WalkFacts DEF TocPage, WalkInv, WalkTypes, VisitedInv, NumberedInv
<1>1. \/ Fail /\ asked' \in 0 .. MaxAsked + 1 /\ debug
      \/ /\ Then
         /\ asked' \in 0 .. MaxAsked
         /\ loaded' = Append(loaded, site.toc)
         /\ UNCHANGED <<site, debug, stage, stop, events, heard>>
  <2>1. Load(site.toc, Then)
    BY DEF TocPage
  <2> HIDE DEF Then
  <2>2. \/ Fail /\ asked' \in 0 .. MaxAsked + 1 /\ debug
        \/ /\ Then
           /\ asked' \in 0 .. MaxAsked
           /\ loaded' = IF site.toc = NoUrl THEN loaded ELSE Append(loaded, site.toc)
           /\ UNCHANGED <<site, debug, stage, stop, events, heard>>
    BY <1>0, <2>1, LoadCases
  <2> QED
    BY <1>0, <2>2
<1>2. CASE Fail /\ asked' \in 0 .. MaxAsked + 1 /\ debug
  BY <1>0, <1>2, FailKeeps
<1>3. CASE /\ Then
           /\ asked' \in 0 .. MaxAsked
           /\ loaded' = Append(loaded, site.toc)
           /\ UNCHANGED <<site, debug, stage, stop, events, heard>>
  <2>1. results' \in Seq(Result) /\ Numbered(results')
    BY <1>0, <1>3, PageListed
  <2>2. at' = "api" /\ guard' = 0 /\ UNCHANGED <<page, visited, texts>> /\ loaded' \in Seq(Urls)
    BY <1>0, <1>3
  <2>3. WalkTypes'
    BY <1>0, <1>3, <2>1, <2>2, WalkFacts DEF WalkInv, WalkTypes
  <2>4. VisitedInv'
    <3>1. \A i, j \in DOMAIN loaded' : i < j /\ loaded'[i] = loaded'[j] => loaded'[j] = site.toc
      BY <1>0, <1>3, DistinctMore
    <3> QED
      BY <1>3, <2>2, <3>1 DEF VisitedInv
  <2>5. ListedInv' /\ ReadInv' /\ NumberedInv'
    BY <1>0, <1>3, <2>1, <2>2 DEF ListedInv, ReadInv, NumberedInv
  <2>6. SessionInv'
    BY <1>0, <1>3, QuietSession
  <2> QED
    BY <2>3, <2>4, <2>5, <2>6 DEF WalkInv
<1> QED
  BY <1>1, <1>2, <1>3

\* The list that the interface adds to.
LEMMA ListGoesOn ==
  ASSUME results \in Seq(Result), Numbered(results)
  PROVE  /\ (IF Useless THEN <<>> ELSE results) \in Seq(Result)
         /\ Numbered(IF Useless THEN <<>> ELSE results)
<1>1. <<>> \in Seq(Result) /\ Numbered(<<>>)
  BY DEF Numbered
<1>2. CASE Useless
  BY <1>1, <1>2
<1>3. CASE ~Useless
  BY <1>3
<1> QED
  BY <1>2, <1>3

\* A page of the interface that lists chapters.
LEMMA ApiPageKeeps == WalkInv /\ ApiPage => WalkInv'
<1> SUFFICES ASSUME WalkInv, ApiPage PROVE WalkInv'
  OBVIOUS
<1> DEFINE answer == ApiAnswer(guard + 1)
           Then == /\ results' = Listed(IF Useless THEN <<>> ELSE results, answer.items)
                   /\ guard' = guard + 1
                   /\ at' = IF answer.items # <<>> /\ answer.more THEN "api" ELSE "end"
                   /\ UNCHANGED <<page, visited, texts>>
<1>0. /\ stage = "catalog" /\ at = "api" /\ site \in Sites /\ guard \in Nat /\ guard < MaxApi
      /\ results \in Seq(Result) /\ loaded \in Seq(Urls) /\ Numbered(results)
  BY WalkFacts DEF ApiPage, WalkInv, WalkTypes, NumberedInv
<1>1. \/ Fail /\ asked' \in 0 .. MaxAsked + 1 /\ debug
      \/ /\ Then
         /\ asked' \in 0 .. MaxAsked
         /\ loaded' = loaded
         /\ UNCHANGED <<site, debug, stage, stop, events, heard>>
  <2>1. Load(NoUrl, Then)
    BY DEF ApiPage
  <2> HIDE DEF Then
  <2>2. \/ Fail /\ asked' \in 0 .. MaxAsked + 1 /\ debug
        \/ /\ Then
           /\ asked' \in 0 .. MaxAsked
           /\ loaded' = IF NoUrl = NoUrl THEN loaded ELSE Append(loaded, NoUrl)
           /\ UNCHANGED <<site, debug, stage, stop, events, heard>>
    BY <1>0, <2>1, LoadCases
  <2> QED
    BY <2>2
<1>2. CASE Fail /\ asked' \in 0 .. MaxAsked + 1 /\ debug
  BY <1>0, <1>2, FailKeeps
<1>3. CASE /\ Then
           /\ asked' \in 0 .. MaxAsked
           /\ loaded' = loaded
           /\ UNCHANGED <<site, debug, stage, stop, events, heard>>
  <2>1. answer.items \in Seq(Chapter)
    BY <1>0, ApiFacts
  <2>2. /\ results' = Listed(IF Useless THEN <<>> ELSE results, answer.items)
        /\ guard' = guard + 1 /\ at' \in {"api", "end"} /\ UNCHANGED <<page, visited, texts>>
    BY <1>3
  <2> HIDE DEF answer
  <2>3. results' \in Seq(Result) /\ Numbered(results')
    <3>1. /\ (IF Useless THEN <<>> ELSE results) \in Seq(Result)
          /\ Numbered(IF Useless THEN <<>> ELSE results)
      BY <1>0, ListGoesOn
    <3> QED
      BY <2>1, <2>2, <3>1, ListedMore
  <2>4. guard' \in 0 .. MaxNext + MaxApi + MaxText /\ asked' \in 0 .. MaxAsked + 1
    BY <1>0, <1>3, <2>2, WalkFacts
  <2>5. WalkTypes'
    BY <1>0, <1>3, <2>2, <2>3, <2>4 DEF WalkInv, WalkTypes
  <2>6. VisitedInv'
    BY <1>3, <2>2 DEF WalkInv, VisitedInv
  <2>7. ListedInv' /\ ReadInv' /\ NumberedInv'
    BY <1>0, <1>3, <2>2, <2>3 DEF ListedInv, ReadInv, NumberedInv
  <2>8. SessionInv'
    BY <1>0, <1>3, QuietSession
  <2> QED
    BY <2>5, <2>6, <2>7, <2>8 DEF WalkInv
<1> QED
  BY <1>1, <1>2, <1>3

\* The interface is asked no more, or not at all.
LEMMA ApiEndsKeeps == WalkInv /\ ApiEnds => WalkInv'
<1> SUFFICES ASSUME WalkInv, ApiEnds PROVE WalkInv'
  OBVIOUS
<1>1. /\ stage = "catalog" /\ at' = "end"
      /\ results' = IF Useless THEN <<>> ELSE results
      /\ UNCHANGED <<site, debug, stage, page, visited, guard, texts, loaded, asked, stop,
                     events, heard>>
  BY DEF ApiEnds
<1>2. results \in Seq(Result) /\ Numbered(results)
  BY DEF WalkInv, WalkTypes, NumberedInv
<1>3. results' \in Seq(Result) /\ Numbered(results')
  BY <1>1, <1>2, ListGoesOn
<1>4. WalkTypes' /\ NumberedInv' /\ ReadInv'
  BY <1>1, <1>3 DEF WalkInv, WalkTypes, NumberedInv, ReadInv
<1>5. VisitedInv' /\ SessionInv' /\ ListedInv'
  BY <1>1 DEF WalkInv, VisitedInv, SessionInv, ListedInv
<1> QED
  BY <1>4, <1>5 DEF WalkInv

\* The end of the catalog, and of the content.
LEMMA EndsKeep == WalkInv /\ (CatalogEnds \/ ContentEnds) => WalkInv'
<1> SUFFICES ASSUME WalkInv, CatalogEnds \/ ContentEnds PROVE WalkInv'
  OBVIOUS
<1>1. CASE CatalogEnds
  <2>1. stage = "catalog" /\ at = "end" /\ NextStage("content", results # <<>>)
    BY <1>1 DEF CatalogEnds
  <2> QED
    BY <2>1, StageKeeps
<1>2. CASE ContentEnds
  <2>1. stage = "content" /\ at = "end" /\ NextStage("closing", texts # <<>>)
    BY <1>2 DEF ContentEnds
  <2> QED
    BY <2>1, StageKeeps
<1> QED
  BY <1>1, <1>2

\* The deadline passes, or the client goes.
LEMMA StopKeeps == WalkInv /\ Stop => WalkInv'
<1> SUFFICES ASSUME WalkInv, Stop PROVE WalkInv'
  OBVIOUS
<1>1. /\ debug /\ stage \notin Over
      /\ \/ stop = "no" /\ stop' = "late" /\ heard' = heard
         \/ stop # "gone" /\ stop' = "gone" /\ heard' = Len(events)
      /\ UNCHANGED <<site, debug, stage, at, page, visited, guard, results, texts, loaded, asked,
                     events>>
  BY DEF Stop, walk
<1>2. WalkTypes'
  <2>1. Len(events) \in Nat /\ heard \in Nat
    BY DEF WalkInv, WalkTypes
  <2> QED
    BY <1>1, <2>1 DEF WalkInv, WalkTypes
<1>3. NumberedInv' /\ VisitedInv' /\ ReadInv'
  BY <1>1 DEF WalkInv, NumberedInv, Numbered, VisitedInv, ReadInv, PageAt
<1>4. ListedInv'
  <2>1. ListedSoFar' = ListedSoFar /\ SaidSoFar' = SaidSoFar
    BY <1>1 DEF ListedSoFar, SaidSoFar, Said, PageAt
  <2> QED
    BY <1>1, <2>1 DEF WalkInv, ListedInv
<1>5. SessionInv'
  BY <1>1 DEF WalkInv, SessionInv, Over
<1> QED
  BY <1>2, <1>3, <1>4, <1>5 DEF WalkInv

\* The pages read so far are all that were loaded.
LEMMA AllRead ==
  ASSUME NEW l \in Seq(Urls), \A k \in DOMAIN l : ~PageAt(l[k]).down
  PROVE  \E n \in 0 .. Len(l) : l = SubSeq(l, 1, n)
                                /\ \A k \in DOMAIN l : PageAt(l[k]).down <=> k > n
<1>1. Len(l) \in 0 .. Len(l) /\ l = SubSeq(l, 1, Len(l)) /\ DOMAIN l = 1 .. Len(l)
  OBVIOUS
<1>2. \A k \in DOMAIN l : ~(k > Len(l))
  BY <1>1
<1> QED
  BY <1>1, <1>2

\* A page that is down ends the reading.
LEMMA ReadUpTo ==
  ASSUME NEW l \in Seq(Urls), NEW u \in Urls, \A k \in DOMAIN l : ~PageAt(l[k]).down,
         PageAt(u).down
  PROVE  \E n \in 0 .. Len(Append(l, u)) :
            /\ l = SubSeq(Append(l, u), 1, n)
            /\ \A k \in DOMAIN Append(l, u) : PageAt(Append(l, u)[k]).down <=> k > n
<1> DEFINE m == Append(l, u)
<1>1. /\ m \in Seq(Urls) /\ Len(m) = Len(l) + 1 /\ m[Len(l) + 1] = u
      /\ \A i \in 1 .. Len(l) : m[i] = l[i]
      /\ Len(l) \in Nat /\ DOMAIN l = 1 .. Len(l)
  BY AppendProperties
<1>2. DOMAIN m = 1 .. Len(l) + 1
  BY <1>1
<1> HIDE DEF m
<1>3. SubSeq(m, 1, Len(l)) = l
  <2>1. /\ SubSeq(m, 1, Len(l)) \in Seq(Urls) /\ Len(SubSeq(m, 1, Len(l))) = Len(l)
        /\ \A i \in 1 .. Len(l) : SubSeq(m, 1, Len(l))[i] = m[i]
    BY <1>1
  <2> QED
    BY <1>1, <2>1, SeqEqual
<1>4. \A k \in DOMAIN m : PageAt(m[k]).down <=> k > Len(l)
  <2> TAKE k \in DOMAIN m
  <2>1. CASE k = Len(l) + 1
    BY <2>1, <1>1
  <2>2. CASE k # Len(l) + 1
    <3>1. k \in 1 .. Len(l)
      BY <2>2, <1>1, <1>2
    <3> QED
      BY <3>1, <1>1
  <2> QED
    BY <2>1, <2>2
<1>5. Len(l) \in 0 .. Len(m)
  BY <1>1
<1> QED
  BY <1>3, <1>4, <1>5 DEF m

\* The first page of a content.
LEMMA FirstTextKeeps == WalkInv /\ FirstText => WalkInv'
<1> SUFFICES ASSUME WalkInv, FirstText PROVE WalkInv'
  OBVIOUS
<1> DEFINE Then == LET p == PageAt(site.chapter)
                   IN  /\ texts' = IF p.down THEN <<>> ELSE <<site.chapter>>
                       /\ at' = IF p.down \/ ~site.paged THEN "end" ELSE "next"
                       /\ page' = site.chapter /\ visited' = {site.chapter}
                       /\ UNCHANGED <<guard, results>>
<1>0. /\ stage = "content" /\ at = "first" /\ site \in Sites /\ site.chapter \in Urls
      /\ site.chapter # NoUrl /\ loaded = <<>> /\ results = <<>>
      /\ PageAt(site.chapter).down \in BOOLEAN
  BY WalkFacts, PageFacts DEF FirstText, WalkInv, WalkTypes, VisitedInv
<1>1. \/ Fail /\ asked' \in 0 .. MaxAsked + 1 /\ debug
      \/ /\ Then
         /\ asked' \in 0 .. MaxAsked
         /\ loaded' = Append(loaded, site.chapter)
         /\ UNCHANGED <<site, debug, stage, stop, events, heard>>
  <2>1. Load(site.chapter, Then)
    BY DEF FirstText
  <2> HIDE DEF Then
  <2>2. \/ Fail /\ asked' \in 0 .. MaxAsked + 1 /\ debug
        \/ /\ Then
           /\ asked' \in 0 .. MaxAsked
           /\ loaded' = IF site.chapter = NoUrl THEN loaded ELSE Append(loaded, site.chapter)
           /\ UNCHANGED <<site, debug, stage, stop, events, heard>>
    BY <1>0, <2>1, LoadCases
  <2> QED
    BY <1>0, <2>2
<1>2. CASE Fail /\ asked' \in 0 .. MaxAsked + 1 /\ debug
  BY <1>0, <1>2, FailKeeps
<1>3. CASE /\ Then
           /\ asked' \in 0 .. MaxAsked
           /\ loaded' = Append(loaded, site.chapter)
           /\ UNCHANGED <<site, debug, stage, stop, events, heard>>
  <2>1. loaded' = <<site.chapter>> /\ loaded' \in Seq(Urls) /\ <<>> \in Seq(Urls)
    BY <1>0, <1>3
  <2>2. /\ at' \in {"end", "next"} /\ page' = site.chapter /\ visited' = {site.chapter}
        /\ UNCHANGED <<guard, results>>
        /\ (at' = "next" => ~PageAt(site.chapter).down)
        /\ texts' = IF PageAt(site.chapter).down THEN <<>> ELSE <<site.chapter>>
    BY <1>3
  <2>3. WalkTypes'
    BY <1>0, <1>3, <2>1, <2>2, WalkFacts DEF WalkInv, WalkTypes
  <2>4. VisitedInv' /\ ListedInv' /\ NumberedInv'
    BY <1>0, <1>3, <2>1, <2>2 DEF VisitedInv, ListedInv, WalkInv, NumberedInv
  <2>5. ReadInv'
    <3>1. CASE PageAt(site.chapter).down
      <4>1. texts' = <<>> /\ at' = "end" /\ DOMAIN <<>> = {}
        BY <2>2, <3>1
      <4>2. \E n \in 0 .. Len(loaded') :
              /\ texts' = SubSeq(loaded', 1, n)
              /\ \A k \in DOMAIN loaded' : PageAt(loaded'[k]).down <=> k > n
        <5>1. <<>> \in Seq(Urls) /\ \A k \in DOMAIN <<>> : ~PageAt(<<>>[k]).down
          OBVIOUS
        <5>2. \E n \in 0 .. Len(Append(<<>>, site.chapter)) :
                /\ <<>> = SubSeq(Append(<<>>, site.chapter), 1, n)
                /\ \A k \in DOMAIN Append(<<>>, site.chapter) :
                      PageAt(Append(<<>>, site.chapter)[k]).down <=> k > n
          BY <1>0, <3>1, <5>1, ReadUpTo
        <5> QED
          BY <1>0, <1>3, <4>1, <5>2
      <4> QED
        BY <1>3, <4>1, <4>2 DEF ReadInv, PageAt
    <3>2. CASE ~PageAt(site.chapter).down
      <4>1. texts' = loaded' /\ \A k \in DOMAIN loaded' : ~PageAt(loaded'[k]).down
        BY <2>1, <2>2, <3>2
      <4>2. \E n \in 0 .. Len(loaded') :
              /\ loaded' = SubSeq(loaded', 1, n)
              /\ \A k \in DOMAIN loaded' : PageAt(loaded'[k]).down <=> k > n
        BY <2>1, <4>1, AllRead
      <4> QED
        BY <1>3, <4>1, <4>2 DEF ReadInv, PageAt
    <3> QED
      BY <3>1, <3>2
  <2>6. SessionInv'
    BY <1>0, <1>3, QuietSession
  <2> QED
    BY <2>3, <2>4, <2>5, <2>6 DEF WalkInv
<1> QED
  BY <1>1, <1>2, <1>3

\* A next page of a content.
LEMMA NextTextKeeps == WalkInv /\ NextText => WalkInv'
<1> SUFFICES ASSUME WalkInv, NextText PROVE WalkInv'
  OBVIOUS
<1> DEFINE link == PageAt(page).next
           Then == /\ visited' = visited \union {link} /\ guard' = guard + 1
                   /\ IF PageAt(link).down THEN at' = "end" /\ UNCHANGED <<page, texts>>
                      ELSE page' = link /\ texts' = Append(texts, link) /\ UNCHANGED at
                   /\ UNCHANGED results
<1>0. /\ stage = "content" /\ at = "next" /\ site \in Sites /\ page \in Urls
      /\ loaded \in Seq(Urls) /\ visited \subseteq Urls /\ texts = loaded
      /\ \A k \in DOMAIN loaded : ~PageAt(loaded[k]).down
      /\ \A k \in DOMAIN loaded : loaded[k] \in visited
      /\ \A i, j \in DOMAIN loaded : i < j /\ loaded[i] = loaded[j] => loaded[j] = site.toc
  BY WalkFacts DEF NextText, WalkInv, WalkTypes, VisitedInv, ReadInv
<1>1. link # NoUrl /\ link \notin visited /\ guard < MaxText /\ link \in Urls
  <2>1. link \in Urls \union {NoUrl}
    BY <1>0, PageFacts
  <2> QED
    BY <2>1 DEF NextText, Onward
<1>2. PageAt(link).down \in BOOLEAN
  BY <1>0, <1>1, PageFacts
<1>3. \/ Fail /\ asked' \in 0 .. MaxAsked + 1 /\ debug
      \/ /\ Then
         /\ asked' \in 0 .. MaxAsked
         /\ loaded' = Append(loaded, link)
         /\ UNCHANGED <<site, debug, stage, stop, events, heard>>
  <2>1. Load(link, Then)
    BY DEF NextText
  <2> HIDE DEF Then, link
  <2>2. \/ Fail /\ asked' \in 0 .. MaxAsked + 1 /\ debug
        \/ /\ Then
           /\ asked' \in 0 .. MaxAsked
           /\ loaded' = IF link = NoUrl THEN loaded ELSE Append(loaded, link)
           /\ UNCHANGED <<site, debug, stage, stop, events, heard>>
    BY <1>0, <2>1, LoadCases
  <2> QED
    BY <1>1, <2>2
<1>4. CASE Fail /\ asked' \in 0 .. MaxAsked + 1 /\ debug
  BY <1>0, <1>4, FailKeeps
<1>5. CASE /\ Then
           /\ asked' \in 0 .. MaxAsked
           /\ loaded' = Append(loaded, link)
           /\ UNCHANGED <<site, debug, stage, stop, events, heard>>
  <2>1. /\ visited' = visited \union {link} /\ guard' = guard + 1 /\ UNCHANGED results
        /\ \/ PageAt(link).down /\ at' = "end" /\ page' = page /\ texts' = loaded
           \/ ~PageAt(link).down /\ at' = "next" /\ page' = link /\ texts' = loaded'
    BY <1>0, <1>2, <1>5
  <2> HIDE DEF link
  <2>2. /\ loaded' \in Seq(Urls) /\ Len(loaded') = Len(loaded) + 1 /\ loaded'[Len(loaded) + 1] = link
        /\ \A i \in 1 .. Len(loaded) : loaded'[i] = loaded[i]
        /\ Len(loaded) \in Nat /\ DOMAIN loaded = 1 .. Len(loaded)
    BY <1>0, <1>1, <1>5, AppendProperties
  <2>3. DOMAIN loaded' = 1 .. Len(loaded) + 1
    BY <2>2
  <2>4. WalkTypes'
    <3>1. guard' \in 0 .. MaxNext + MaxApi + MaxText /\ asked' \in 0 .. MaxAsked + 1
      BY <1>1, <1>5, <2>1, WalkFacts DEF WalkInv, WalkTypes
    <3>2. visited' \subseteq Urls /\ page' \in Urls /\ texts' \in Seq(Urls)
      BY <1>0, <1>1, <2>1, <2>2
    <3> QED
      BY <1>0, <1>5, <2>1, <2>2, <3>1, <3>2 DEF WalkInv, WalkTypes
  <2>5. VisitedInv'
    <3>1. \A k \in DOMAIN loaded : loaded[k] # link
      BY <1>0, <1>1
    <3>2. \A i, j \in DOMAIN loaded' : i < j /\ loaded'[i] = loaded'[j] => loaded'[j] = site.toc
      BY <1>0, <1>1, <1>5, <3>1, DistinctMore
    <3>3. \A k \in DOMAIN loaded' : loaded'[k] \in visited'
      BY <1>0, <2>1, <2>2, <2>3
    <3>4. site' = site /\ at' # "first"
      BY <1>5, <2>1
    <3> QED
      BY <3>2, <3>3, <3>4 DEF VisitedInv
  <2>6. ListedInv' /\ NumberedInv'
    BY <1>0, <1>5, <2>1 DEF WalkInv, ListedInv, NumberedInv
  <2>7. ReadInv'
    <3>1. CASE PageAt(link).down
      <4>1. \E n \in 0 .. Len(loaded') :
              /\ loaded = SubSeq(loaded', 1, n)
              /\ \A k \in DOMAIN loaded' : PageAt(loaded'[k]).down <=> k > n
        BY <1>0, <1>1, <1>5, <3>1, ReadUpTo
      <4> QED
        BY <1>5, <2>1, <3>1, <4>1 DEF ReadInv, PageAt
    <3>2. CASE ~PageAt(link).down
      <4>1. \A k \in DOMAIN loaded' : ~PageAt(loaded'[k]).down
        BY <1>0, <2>2, <2>3, <3>2
      <4> QED
        BY <1>5, <2>1, <3>2, <4>1 DEF ReadInv, PageAt
    <3> QED
      BY <3>1, <3>2
  <2>8. SessionInv'
    BY <1>0, <1>5, QuietSession
  <2> QED
    BY <2>4, <2>5, <2>6, <2>7, <2>8 DEF WalkInv
<1> QED
  BY <1>3, <1>4, <1>5

\* No next page of a content.
LEMMA LastTextKeeps == WalkInv /\ LastText => WalkInv'
<1> SUFFICES ASSUME WalkInv, LastText PROVE WalkInv'
  OBVIOUS
<1>1. /\ stage = "content" /\ at = "next" /\ at' = "end"
      /\ UNCHANGED <<site, debug, stage, page, visited, guard, results, texts, loaded, asked,
                     stop, events, heard>>
  BY DEF LastText
<1>2. WalkTypes' /\ NumberedInv' /\ VisitedInv' /\ SessionInv' /\ ListedInv'
  BY <1>1 DEF WalkInv, WalkTypes, NumberedInv, Numbered, VisitedInv, SessionInv, ListedInv
<1>3. ReadInv'
  <2>1. texts = loaded /\ loaded \in Seq(Urls) /\ \A k \in DOMAIN loaded : ~PageAt(loaded[k]).down
    BY <1>1 DEF WalkInv, WalkTypes, ReadInv
  <2>2. \E n \in 0 .. Len(loaded) :
          /\ loaded = SubSeq(loaded, 1, n)
          /\ \A k \in DOMAIN loaded : PageAt(loaded[k]).down <=> k > n
    BY <2>1, AllRead
  <2> QED
    BY <1>1, <2>1, <2>2 DEF ReadInv, PageAt
<1> QED
  BY <1>2, <1>3 DEF WalkInv

\* Every step of a walk.
LEMMA WalkKeeps == WalkInv /\ WalkNext => WalkInv'
  BY SearchKeeps, FirstPageKeeps, NextPageKeeps, LastPageKeeps, TurnKeeps, TocPageKeeps,
     ApiPageKeeps, ApiEndsKeeps, EndsKeep, FirstTextKeeps, NextTextKeeps, LastTextKeeps,
     UnlinkedKeeps, SessionEndsKeeps, StopKeeps
  DEF WalkNext

\* A walk that waits.
LEMMA WalkWaits == WalkInv /\ UNCHANGED walkVars => WalkInv'
<1> SUFFICES ASSUME WalkInv, UNCHANGED walkVars PROVE WalkInv'
  OBVIOUS
<1>1. UNCHANGED <<site, debug, stage, at, page, visited, guard, results, texts, loaded, asked,
                  stop, events, heard>>
  BY DEF walkVars, walk
<1>2. WalkTypes' /\ NumberedInv' /\ VisitedInv' /\ SessionInv' /\ ReadInv'
  <2>1. WalkTypes'
    BY <1>1 DEF WalkInv, WalkTypes
  <2>2. NumberedInv' /\ VisitedInv'
    BY <1>1 DEF WalkInv, NumberedInv, Numbered, VisitedInv
  <2>3. SessionInv'
    BY <1>1 DEF WalkInv, SessionInv
  <2>4. ReadInv'
    BY <1>1 DEF WalkInv, ReadInv, PageAt
  <2> QED
    BY <2>1, <2>2, <2>3, <2>4
<1>3. ListedSoFar' = ListedSoFar /\ SaidSoFar' = SaidSoFar
  BY <1>1 DEF ListedSoFar, SaidSoFar, Said, PageAt
<1>4. ListedInv'
  BY <1>1, <1>3 DEF WalkInv, ListedInv
<1> QED
  BY <1>2, <1>4 DEF WalkInv

\* The first n stages.
LEMMA StagesTold ==
  LET all == <<"search", "catalog", "content", "done">> IN
  /\ SubSeq(all, 1, 0) = <<>> /\ SubSeq(all, 1, 1) = <<"search">>
  /\ SubSeq(all, 1, 2) = <<"search", "catalog">>
  /\ SubSeq(all, 1, 3) = <<"search", "catalog", "content">> /\ SubSeq(all, 1, 4) = all
<1> DEFINE all == <<"search", "catalog", "content", "done">>
<1>1. all \in Seq(Told) /\ Len(all) = 4 /\ all[1] = "search" /\ all[2] = "catalog"
      /\ all[3] = "content"
  BY DEF Told
<1> HIDE DEF all
<1>2. SubSeq(all, 1, 4) = all
  BY <1>1
<1>3. SubSeq(all, 1, 0) = <<>>
  BY <1>1
<1>4. SubSeq(all, 1, 1) = <<"search">>
  <2> DEFINE s == SubSeq(all, 1, 1)
             t == <<"search">>
  <2>1. s \in Seq(Told) /\ Len(s) = 1 /\ s[1] = "search"
    BY <1>1
  <2>2. t \in Seq(Told) /\ Len(t) = 1 /\ t[1] = "search"
    BY DEF Told
  <2> HIDE DEF s, t
  <2>3. s = t
    BY <2>1, <2>2, SeqEqual
  <2> QED
    BY <2>3 DEF s, t
<1>5. SubSeq(all, 1, 2) = <<"search", "catalog">>
  <2> DEFINE s == SubSeq(all, 1, 2)
             t == <<"search", "catalog">>
  <2>1. s \in Seq(Told) /\ Len(s) = 2 /\ s[1] = "search" /\ s[2] = "catalog"
    <3>1. \A i \in 1 .. 2 : all[i] \in Told
      BY <1>1
    <3>2. /\ s \in Seq(Told) /\ Len(s) = 2 - 1 + 1
          /\ \A i \in 1 .. 2 - 1 + 1 : s[i] = all[1 + i - 1]
      BY <3>1, SubSeqProperties
    <3> QED
      BY <1>1, <3>2
  <2>2. t \in Seq(Told) /\ Len(t) = 2 /\ t[1] = "search" /\ t[2] = "catalog"
    BY DEF Told
  <2> HIDE DEF s, t
  <2>3. \A i \in 1 .. 2 : s[i] = t[i]
    BY <2>1, <2>2
  <2>4. s = t
    BY <2>1, <2>2, <2>3, SeqEqual
  <2> QED
    BY <2>4 DEF s, t
<1>6. SubSeq(all, 1, 3) = <<"search", "catalog", "content">>
  <2> DEFINE s == SubSeq(all, 1, 3)
             t == <<"search", "catalog", "content">>
  <2>1. s \in Seq(Told) /\ Len(s) = 3 /\ s[1] = "search" /\ s[2] = "catalog" /\ s[3] = "content"
    <3>1. \A i \in 1 .. 3 : all[i] \in Told
      BY <1>1
    <3>2. /\ s \in Seq(Told) /\ Len(s) = 3 - 1 + 1
          /\ \A i \in 1 .. 3 - 1 + 1 : s[i] = all[1 + i - 1]
      BY <3>1, SubSeqProperties
    <3> QED
      BY <1>1, <3>2
  <2>2. t \in Seq(Told) /\ Len(t) = 3 /\ t[1] = "search" /\ t[2] = "catalog" /\ t[3] = "content"
    BY DEF Told
  <2> HIDE DEF s, t
  <2>3. \A i \in 1 .. 3 : s[i] = t[i]
    BY <2>1, <2>2
  <2>4. s = t
    BY <2>1, <2>2, <2>3, SeqEqual
  <2> QED
    BY <2>4 DEF s, t
<1> QED
  BY <1>2, <1>3, <1>4, <1>5, <1>6 DEF all

\* What the invariant says of every state.
LEMMA WalkIsHonest == WalkInv => WalkTypeOK /\ WalksAreWhole /\ SessionsAreHonest
<1> SUFFICES ASSUME WalkInv PROVE WalkTypeOK /\ WalksAreWhole /\ SessionsAreHonest
  OBVIOUS
<1>1. WalkTypeOK
  <2>1. \A k \in DOMAIN events : events[k] \in Told
    <3>1. events \in Seq(Told)
      BY DEF WalkInv, WalkTypes
    <3> QED
      BY <3>1, ElementOfSeq
  <2> QED
    BY <2>1 DEF WalkInv, WalkTypes, WalkTypeOK, Stages, Result, Chapter, Told
<1>2. WalksAreWhole
  BY DEF WalkInv, NumberedInv, Numbered, VisitedInv, ListedInv, ListedSoFar, SaidSoFar, ReadInv,
         WalksAreWhole
<1>3. SessionsAreHonest
  <2> DEFINE all == <<"search", "catalog", "content", "done">>
             Short == {<<>>, <<"search">>, <<"search", "catalog">>}
             Three == <<"search", "catalog", "content">>
             Failed == {<<"error">>, <<"search", "error">>, <<"search", "catalog", "error">>}
             Four == <<"search", "catalog", "content", "error">>
             Words(n, last) == /\ events = SubSeq(all, 1, n) \o last
                               /\ last # <<>> => n < 3 \/ (n = 3 /\ stop = "late")
  <2>1. /\ asked > MaxAsked => stage \in Over
        /\ stop = "gone" => Len(events) = heard
    BY DEF WalkInv, SessionInv
  <2>2. \/ events \in Short /\ ~(debug /\ stage = "done")
        \/ events = Three /\ ~(debug /\ stage = "done")
        \/ events = all /\ debug /\ stage = "done"
        \/ events \in Failed /\ stage = "error"
        \/ events = Four /\ stop = "late" /\ stage = "error"
    BY DEF WalkInv, WalkTypes, SessionInv, Stages, Over
  <2>3. \E n \in 0 .. 4 : \E last \in {<<>>, <<"error">>} : Words(n, last)
    <3>1. /\ <<>> \o <<>> = <<>> /\ <<"search">> \o <<>> = <<"search">>
          /\ <<"search", "catalog">> \o <<>> = <<"search", "catalog">> /\ Three \o <<>> = Three
          /\ all \o <<>> = all
      OBVIOUS
    <3>2. /\ <<>> \o <<"error">> = <<"error">>
          /\ <<"search">> \o <<"error">> = <<"search", "error">>
          /\ <<"search", "catalog">> \o <<"error">> = <<"search", "catalog", "error">>
          /\ Three \o <<"error">> = Four
      <4>1. /\ <<>> \in Seq(Told) /\ <<"search">> \in Seq(Told) /\ Three \in Seq(Told)
            /\ <<"search", "catalog">> \in Seq(Told) /\ "error" \in Told
        BY DEF Told
      <4>2. \A s \in Seq(Told) : s \o <<"error">> = Append(s, "error")
        BY <4>1, AppendIsConcat
      <4> QED
        BY <4>1, <4>2, SessionWords, Zenon
    <3>3. CASE events \in Short
      <4>1. \E n \in 0 .. 2 : events = SubSeq(all, 1, n)
        <5>1. CASE events = <<>>
          BY <5>1, StagesTold
        <5>2. CASE events = <<"search">>
          BY <5>2, StagesTold
        <5>3. CASE events = <<"search", "catalog">>
          BY <5>3, StagesTold
        <5> QED
          BY <3>3, <5>1, <5>2, <5>3
      <4> HIDE DEF all
      <4>2. events \o <<>> = events
        BY <3>1, <3>3
      <4> QED
        BY <4>1, <4>2
    <3>4. CASE events = Three
      BY <3>1, <3>4, StagesTold
    <3>5. CASE events = all
      BY <3>1, <3>5, StagesTold
    <3>6. CASE events \in Failed
      BY <3>2, <3>6, StagesTold
    <3>7. CASE events = Four /\ stop = "late"
      BY <3>2, <3>7, StagesTold
    <3> QED
      BY <2>2, <3>3, <3>4, <3>5, <3>6, <3>7
  <2>4. "done" \in ToSet(events) <=> debug /\ stage = "done"
    <3>1. ToSet(all) = Told \ {"error"} /\ all[4] = "done" /\ 4 \in DOMAIN all
      BY DEF ToSet, Told
    <3>2. /\ ToSet(<<>>) = {} /\ ToSet(<<"search">>) = {"search"}
          /\ ToSet(<<"search", "catalog">>) = {"search", "catalog"}
          /\ ToSet(Three) = {"search", "catalog", "content"}
      BY DEF ToSet
    <3>3. /\ ToSet(<<"error">>) = {"error"} /\ ToSet(<<"search", "error">>) = {"search", "error"}
          /\ ToSet(<<"search", "catalog", "error">>) = {"search", "catalog", "error"}
          /\ ToSet(Four) = {"search", "catalog", "content", "error"}
      BY DEF ToSet
    <3>4. "done" \in Told \ {"error"}
      BY DEF Told
    <3>5. CASE (events \in Short \/ events = Three) /\ ~(debug /\ stage = "done")
      BY <3>2, <3>5
    <3>6. CASE events = all /\ debug /\ stage = "done"
      BY <3>1, <3>4, <3>6
    <3>7. CASE (events \in Failed \/ events = Four) /\ stage = "error"
      BY <3>3, <3>7
    <3> QED
      BY <2>2, <3>5, <3>6, <3>7
  <2> QED
    BY <2>1, <2>3, <2>4 DEF SessionsAreHonest
<1> QED
  BY <1>1, <1>2, <1>3
-----------------------------------------------------------------------------
(* The feeds. *)

Threads == Clients \union Raters
Labels == {"idle", "source", "channel", "store", "stamp", "sample", "grade", "row", "every",
           "probe", "weed", "add", "count", "list", "again", "origin", "content"}

Links == [of : {x.link : x \in Items} \union {NoLink}, nth : Nat]
Articles == [feed : Feeds, link : Links, item : Items, place : Nat]
Copies == [feed : Feeds, row : FeedRows]
Picked == [item : Items, place : Nat]
Shown == {"", "inline", "summary", "image", "rule", "page"}
Trips == [task : Errands \union {NoFeed}, feed : Feeds \union {NoFeed}, row : FeedRows,
          todo : Seq(BOOLEAN \union Feeds \union Copies), sound : BOOLEAN,
          requests : 0 .. MaxRequests + 1, late : BOOLEAN, jsError : BOOLEAN, stale : BOOLEAN,
          found : Seq(Picked \union Articles), offered : Seq(Items),
          keep : Seq(Picked), id : Nat, answer : [shown : Shown, error : BOOLEAN]]

\* What the channels of a trip have brought.
PlacesInOrder(found) == \A k \in DOMAIN found : found[k].place = k
AllArrived(j) == \/ j.late \/ j.stale \/ j.requests > MaxRequests
                 \/ j.offered = [k \in DOMAIN j.found |-> j.found[k].item]

\* A thread's local variables, at each place.
Fits(label, j) ==
    /\ label \in {"source", "channel", "store", "stamp", "sample", "grade", "row"} => j.feed \in Feeds
    /\ label = "source" => j.found = <<>> /\ j.offered = <<>> /\ j.requests = 0
    /\ label = "channel" => j.todo \in Seq(BOOLEAN)
    /\ label = "add" => j.todo \in Seq(Feeds)
    /\ label \in {"probe", "weed"} \/ (label = "row" /\ j.task \in {"check", "sweep"})
         => j.todo \in Seq(Copies)
    /\ label \in {"channel", "store", "stamp", "sample", "grade"} =>
         j.found \in Seq(Picked) /\ PlacesInOrder(j.found) /\ AllArrived(j)
    /\ label = "store" => j.task # "rate"
    /\ j.task = "open" => /\ label \in {"idle", "every", "again", "origin", "content"}
                          /\ j.sound /\ (j.answer.shown = "" => j.answer.error)

TablesFit ==
    /\ DOMAIN feeds \subseteq Feeds /\ \A f \in DOMAIN feeds : feeds[f] \in FeedRows
    /\ nextId \in Nat \ {0}
    /\ \A i \in DOMAIN articles : i \in 1 .. nextId - 1 /\ articles[i] \in Articles
    /\ \A i, j \in DOMAIN articles :
        articles[i].feed = articles[j].feed /\ articles[i].link = articles[j].link => i = j
GivenFit == \A g \in given : /\ g[1] \in 1 .. nextId - 1
                             /\ g[1] \in DOMAIN articles => articles[g[1]].link = g[2]
ThreadsFit ==
    /\ fpc \in [Threads -> Labels] /\ trip \in [Threads -> Trips]
    /\ \A t \in Threads : Fits(fpc[t], trip[t])
RatingFits == rating \in Seq(Copies)
ClientsFit ==
    /\ errands \in [Clients -> [Errands -> Nat]]
    /\ listed = [c \in Clients |-> listed[c]] /\ \A c \in Clients : DOMAIN listed[c] \subseteq Nat

\* An article whose feed is gone came while the feed was removed; so does a fetch go on, and
\* while a feed's row is being removed, what is fetched or stored is in its way.
RacedInv ==
    /\ \A i \in DOMAIN articles : articles[i].feed \in DOMAIN feeds \union raced
    /\ \A f : Fetching(f) => f \in DOMAIN feeds \union raced
    /\ \A f : Removing(f) /\ (Fetching(f) \/ \E i \in DOMAIN articles : articles[i].feed = f)
         => f \in raced

\* A feed that was erased comes back, or is still graded, only if it was being graded.
ErasedInv == \A f \in erased : f \in DOMAIN feeds \/ Grading(f) => f \in rerated

FeedInv == TablesFit /\ GivenFit /\ ThreadsFit /\ RatingFits /\ ClientsFit /\ RacedInv /\ ErasedInv

\* A step of the thread t.
Only(t) == /\ fpc' \in [Threads -> Labels] /\ trip' \in [Threads -> Trips]
           /\ \A u \in Threads \ {t} : fpc'[u] = fpc[u] /\ trip'[u] = trip[u]

FetchingAt(t, f) == fpc[t] \in {"channel", "store"} /\ trip[t].feed = f /\ trip[t].task # "rate"
RemovingAt(t, f) == fpc[t] = "every" \/ (fpc[t] = "row" /\ trip[t].feed = f)

\* The constants, one by one.
LEMMA FeedFacts ==
  /\ IsFiniteSet(Feeds) /\ NoFeed \notin Feeds /\ Clients \intersect Raters = {}
  /\ Channels \in Seq(BOOLEAN) /\ MaxRequests \in Nat
  /\ FeedPages \subseteq Seq(Items)
  /\ Outings \subseteq [Clients -> [Errands -> Nat]]
  BY FeedConstants

\* The records that begin a trip.
LEMMA TripsBegin ==
  /\ Bare \in FeedRows /\ Whole \in FeedRows
  /\ NoTrip \in Trips
  /\ \A k \in Errands \union {NoFeed}, f \in Feeds \union {NoFeed} :
        [NoTrip EXCEPT !.task = k, !.feed = f] \in Trips
<1>1. Bare \in FeedRows /\ Whole \in FeedRows
  BY DEF Bare, Whole, FeedRows, FeedGrades
<1>2. MaxRequests \in Nat
  BY FeedFacts
<1>3. NoTrip \in Trips
  <2>1. <<>> \in Seq(BOOLEAN \union Feeds \union Copies) /\ <<>> \in Seq(Picked \union Articles)
        /\ <<>> \in Seq(Items) /\ <<>> \in Seq(Picked)
    BY EmptySeq
  <2>2. [shown |-> "", error |-> TRUE] \in [shown : Shown, error : BOOLEAN]
    BY DEF Shown
  <2>3. 0 \in 0 .. MaxRequests + 1 /\ 0 \in Nat
    BY <1>2
  <2> QED
    BY <1>1, <2>1, <2>2, <2>3, Zenon DEF NoTrip, Trips
<1>4. \A k \in Errands \union {NoFeed}, f \in Feeds \union {NoFeed} :
        [NoTrip EXCEPT !.task = k, !.feed = f] \in Trips
  <2> HIDE DEF NoTrip
  <2> QED
    BY <1>3 DEF Trips
<1> QED
  BY <1>1, <1>3, <1>4

\* Only the thread at work changes what is said of all of them.
LEMMA ThreadsKept ==
  ASSUME ThreadsFit, NEW t \in Threads, Only(t), Fits(fpc'[t], trip'[t])
  PROVE  ThreadsFit'
  BY DEF ThreadsFit, Only

\* A step of one thread decides whether a feed is being fetched or removed.
LEMMA FetchingMoves ==
  ASSUME NEW t \in Threads, ThreadsFit, Only(t), NEW f
  PROVE  /\ Fetching(f)' => Fetching(f) \/ FetchingAt(t, f)'
         /\ Removing(f)' => Removing(f) \/ RemovingAt(t, f)'
         /\ FetchingAt(t, f) => Fetching(f)
         /\ RemovingAt(t, f) => Removing(f)
<1>1. DOMAIN trip = Threads /\ (DOMAIN trip)' = Threads
  BY DEF ThreadsFit, Only
<1> QED
  BY <1>1 DEF Only, Fetching, FetchingAt, Removing, RemovingAt

\* What a step may do without harm to the feeds that are fetched and removed.
LEMMA RacedKept ==
  ASSUME RacedInv, ThreadsFit, NEW t \in Threads, Only(t),
         \A i \in DOMAIN articles' : \/ i \in DOMAIN articles /\ articles'[i].feed = articles[i].feed
                                     \/ Fetching(articles'[i].feed),
         \A f \in DOMAIN feeds : f \notin DOMAIN feeds' => Removing(f),
         raced \subseteq raced',
         \A f : FetchingAt(t, f)' => Fetching(f) \/ (f \in DOMAIN feeds' /\ (Removing(f) => f \in raced')),
         \A f : RemovingAt(t, f)' => \/ Removing(f)
                                     \/ /\ Fetching(f) => f \in raced'
                                        /\ \A i \in DOMAIN articles' : articles'[i].feed # f
  PROVE  RacedInv'
<1>1. \A f : FetchingAt(t, f)' => ~RemovingAt(t, f)'
  BY DEF FetchingAt, RemovingAt
<1>2. \A f : Fetching(f)' => Fetching(f) \/ FetchingAt(t, f)'
  BY FetchingMoves
<1>3. \A f : Removing(f)' => Removing(f) \/ RemovingAt(t, f)'
  BY FetchingMoves
<1>4. ASSUME NEW i \in DOMAIN articles' PROVE articles'[i].feed \in DOMAIN feeds' \union raced'
  <2>1. CASE i \in DOMAIN articles /\ articles'[i].feed = articles[i].feed
    BY <2>1 DEF RacedInv
  <2>2. CASE Fetching(articles'[i].feed)
    BY <2>2 DEF RacedInv
  <2> QED
    BY <2>1, <2>2
<1>5. ASSUME NEW f, Fetching(f)' PROVE f \in DOMAIN feeds' \union raced'
  BY <1>2, <1>5 DEF RacedInv
<1>6. ASSUME NEW f, Removing(f)', Fetching(f)' \/ \E i \in DOMAIN articles' : articles'[i].feed = f
      PROVE  f \in raced'
  <2>1. CASE Removing(f)
    <3>1. CASE Fetching(f)'
      BY <1>2, <2>1, <3>1 DEF RacedInv
    <3>2. CASE \E i \in DOMAIN articles' : articles'[i].feed = f
      BY <2>1, <3>2 DEF RacedInv
    <3> QED
      BY <1>6, <3>1, <3>2
  <2>2. CASE ~Removing(f)
    <3>1. RemovingAt(t, f)'
      BY <1>3, <1>6, <2>2
    <3>2. /\ Fetching(f) => f \in raced'
          /\ \A i \in DOMAIN articles' : articles'[i].feed # f
      BY <2>2, <3>1
    <3>3. Fetching(f)
      BY <1>1, <1>2, <1>6, <3>1, <3>2
    <3> QED
      BY <3>2, <3>3
  <2> QED
    BY <2>1, <2>2
<1> QED
  BY <1>4, <1>5, <1>6 DEF RacedInv

\* ... and to those that are graded.
LEMMA ErasedKept ==
  ASSUME ErasedInv,
         rerated \subseteq rerated',
         \A f \in erased' : \/ f \in erased
                            \/ f \notin DOMAIN feeds' /\ (Grading(f) => f \in rerated'),
         \A f \in DOMAIN feeds' : f \in DOMAIN feeds \/ f \notin erased' \/ Grading(f),
         \A f : Grading(f)' => Grading(f) \/ (f \in DOMAIN feeds /\ erased' = erased)
  PROVE  ErasedInv'
<1>1. ASSUME NEW f \in erased', f \in DOMAIN feeds' \/ Grading(f)' PROVE f \in rerated'
  <2>1. CASE f \in erased
    <3>1. f \in DOMAIN feeds \/ Grading(f)
      BY <1>1
    <3> QED
      BY <2>1, <3>1 DEF ErasedInv
  <2>2. CASE f \notin erased
    BY <1>1, <2>2
  <2> QED
    BY <2>1, <2>2
<1> QED
  BY <1>1 DEF ErasedInv

\* A thread that grades nothing leaves the grading alone.
LEMMA GradingKept ==
  ASSUME NEW t \in Threads, Only(t), rating' = rating,
         t \notin Raters \/ \A f : fpc'[t] # "idle" /\ trip'[t].feed = f
                                     => fpc[t] # "idle" /\ trip[t].feed = f
  PROVE  \A f : Grading(f)' => Grading(f)
<1> SUFFICES ASSUME NEW f, Grading(f)' PROVE Grading(f)
  OBVIOUS
<1>1. CASE \E k \in DOMAIN rating' : rating'[k].feed = f
  BY <1>1 DEF Grading
<1>2. CASE \E u \in Raters : fpc'[u] # "idle" /\ trip'[u].feed = f
  <2>1. PICK u \in Raters : fpc'[u] # "idle" /\ trip'[u].feed = f
    BY <1>2
  <2>2. u \in Threads
    BY DEF Threads
  <2>3. CASE u = t
    BY <2>1, <2>3 DEF Grading
  <2>4. CASE u # t
    BY <2>1, <2>2, <2>4 DEF Only, Grading
  <2> QED
    BY <2>3, <2>4
<1> QED
  BY <1>1, <1>2 DEF Grading

\* A step of a thread on its own: it starts to fetch, remove and grade nothing.
LEMMA QuietStep ==
  ASSUME FeedInv, NEW t \in Threads, Only(t), Fits(fpc'[t], trip'[t]),
         UNCHANGED <<feeds, articles, nextId, raced, erased, rerated, rating>>,
         \A f : FetchingAt(t, f)' => FetchingAt(t, f),
         \A f : RemovingAt(t, f)' => RemovingAt(t, f),
         t \notin Raters \/ \A f : fpc'[t] # "idle" /\ trip'[t].feed = f
                                     => fpc[t] # "idle" /\ trip[t].feed = f
  PROVE  /\ TablesFit' /\ ThreadsFit' /\ RatingFits' /\ RacedInv' /\ ErasedInv'
         /\ given' = given => GivenFit'
<1>1. TablesFit' /\ RatingFits' /\ (given' = given => GivenFit')
  BY DEF FeedInv, TablesFit, GivenFit, RatingFits
<1>2. ThreadsFit'
  BY ThreadsKept DEF FeedInv
<1>3. RacedInv'
  <2>1. \A f : FetchingAt(t, f)' => Fetching(f)
    BY FetchingMoves DEF FeedInv
  <2>2. \A f : RemovingAt(t, f)' => Removing(f)
    BY FetchingMoves DEF FeedInv
  <2> QED
    BY <2>1, <2>2, RacedKept DEF FeedInv
<1>4. ErasedInv'
  <2>1. \A f : Grading(f)' => Grading(f)
    BY GradingKept
  <2> QED
    BY <2>1, ErasedKept DEF FeedInv
<1> QED
  BY <1>1, <1>2, <1>3, <1>4

\* A thread goes on to a place with other variables.
LEMMA Moves ==
  ASSUME ThreadsFit, NEW t \in Threads, NEW label \in Labels, NEW j \in Trips,
         fpc' = [fpc EXCEPT ![t] = label] \/ (fpc' = fpc /\ label = fpc[t]),
         trip' = [trip EXCEPT ![t] = j] \/ (trip' = trip /\ j = trip[t])
  PROVE  Only(t) /\ fpc'[t] = label /\ trip'[t] = j
<1>1. fpc \in [Threads -> Labels] /\ trip \in [Threads -> Trips]
  BY DEF ThreadsFit
<1>2. fpc' \in [Threads -> Labels] /\ fpc'[t] = label /\ \A u \in Threads \ {t} : fpc'[u] = fpc[u]
  BY <1>1
<1>3. trip' \in [Threads -> Trips] /\ trip'[t] = j /\ \A u \in Threads \ {t} : trip'[u] = trip[u]
  BY <1>1
<1> QED
  BY <1>2, <1>3 DEF Only

\* A thread that waits, while the tables change.
LEMMA Waits ==
  ASSUME ThreadsFit, NEW t \in Threads, UNCHANGED <<fpc, trip>>
  PROVE  Only(t) /\ fpc'[t] = fpc[t] /\ trip'[t] = trip[t] /\ ThreadsFit'
  BY DEF ThreadsFit, Only

\* A request begins.
LEMMA ErrandBegins ==
  ASSUME FeedInv, NEW c \in Clients, NEW k \in Errands, Errand(c, k), listed' = listed
  PROVE  c \in Threads /\ c \notin Raters /\ fpc[c] = "idle" /\ ClientsFit'
<1>1. errands \in [Clients -> [Errands -> Nat]] /\ errands[c][k] > 0
      /\ errands' = [errands EXCEPT ![c][k] = @ - 1]
  BY DEF FeedInv, ClientsFit, Errand
<1>2. errands[c] \in [Errands -> Nat] /\ errands[c][k] \in Nat
  BY <1>1
<1>3. [errands[c] EXCEPT ![k] = errands[c][k] - 1] \in [Errands -> Nat]
  BY <1>1, <1>2
<1>4. errands' \in [Clients -> [Errands -> Nat]]
  BY <1>1, <1>3
<1>5. ClientsFit'
  BY <1>4 DEF FeedInv, ClientsFit
<1> QED
  BY <1>5, FeedFacts DEF Errand, Threads

\* Sequences of all elements of a set.
LEMMA SeqsOf ==
  ASSUME NEW S, IsFiniteSet(S), NEW l \in SetToSeqs(S)
  PROVE  l \in Seq(S)
<1>1. Cardinality(S) \in Nat
  BY FS_CardinalityType
<1>2. l \in [1 .. Cardinality(S) -> S]
  BY DEF SetToSeqs
<1> QED
  BY <1>1, <1>2

\* What a thread has left to do.
LEMMA TodoSeqs ==
  /\ Seq(BOOLEAN) \subseteq Seq(BOOLEAN \union Feeds \union Copies)
  /\ Seq(Feeds) \subseteq Seq(BOOLEAN \union Feeds \union Copies)
  /\ Seq(Copies) \subseteq Seq(BOOLEAN \union Feeds \union Copies)
  BY SeqMonotonic

\* fetchRssSource, the lists: a thread begins to look at a feed.
LEMMA FetchFeedKeeps ==
  ASSUME FeedInv, NEW c \in Clients, FetchFeed(c) \/ LoadArticles(c)
  PROVE  FeedInv'
<1>0. PICK k \in {"fetch", "load"}, f \in Feeds, label \in {"source", "list"} :
        /\ Errand(c, k)
        /\ trip' = [trip EXCEPT ![c] = [NoTrip EXCEPT !.task = k, !.feed = f]]
        /\ fpc' = [fpc EXCEPT ![c] = label]
        /\ UNCHANGED <<feedTables, listed, rating, feedHistory>>
  BY DEF FetchFeed, LoadArticles, To
<1>1. c \in Threads /\ c \notin Raters /\ fpc[c] = "idle" /\ ClientsFit'
  BY <1>0, ErrandBegins DEF Errands
<1> DEFINE j == [NoTrip EXCEPT !.task = k, !.feed = f]
<1>2. j \in Trips /\ label \in Labels
  BY TripsBegin DEF Errands, Labels
<1>3. Fits(label, j)
  BY DEF Fits, NoTrip
<1> HIDE DEF j
<1>4. Only(c) /\ fpc'[c] = label /\ trip'[c] = j
  BY <1>0, <1>1, <1>2, Moves DEF FeedInv, j
<1>5. TablesFit' /\ GivenFit' /\ ThreadsFit' /\ RatingFits' /\ RacedInv' /\ ErasedInv'
  BY <1>0, <1>1, <1>3, <1>4, QuietStep DEF feedTables, feedHistory, FetchingAt, RemovingAt
<1> QED
  BY <1>1, <1>5 DEF FeedInv

\* An import begins.
LEMMA ImportFeedsKeeps ==
  ASSUME FeedInv, NEW c \in Clients, ImportFeeds(c)
  PROVE  FeedInv'
<1>0. PICK list \in SetToSeqs(Feeds) :
        /\ Errand(c, "import")
        /\ trip' = [trip EXCEPT ![c] = [NoTrip EXCEPT !.todo = list]]
        /\ fpc' = [fpc EXCEPT ![c] = "add"]
        /\ UNCHANGED <<feedTables, listed, rating, feedHistory>>
  BY DEF ImportFeeds, To
<1>1. c \in Threads /\ c \notin Raters /\ fpc[c] = "idle" /\ ClientsFit'
  BY <1>0, ErrandBegins DEF Errands
<1> DEFINE j == [NoTrip EXCEPT !.todo = list]
<1>2. list \in Seq(Feeds) /\ list \in Seq(BOOLEAN \union Feeds \union Copies)
  BY SeqsOf, FeedFacts, TodoSeqs
<1>3. j \in Trips
  <2> HIDE DEF NoTrip
  <2> QED
    BY <1>2, TripsBegin DEF Trips
<1>4. Fits("add", j)
  BY <1>2 DEF Fits, NoTrip, NoFeed
<1> HIDE DEF j
<1>5. Only(c) /\ fpc'[c] = "add" /\ trip'[c] = j
  BY <1>0, <1>1, <1>3, Moves DEF FeedInv, j, Labels
<1>6. TablesFit' /\ GivenFit' /\ ThreadsFit' /\ RatingFits' /\ RacedInv' /\ ErasedInv'
  BY <1>0, <1>1, <1>4, <1>5, QuietStep DEF feedTables, feedHistory, FetchingAt, RemovingAt
<1> QED
  BY <1>1, <1>6 DEF FeedInv

\* A copy of the sources.
LEMMA CopyOfFeeds ==
  ASSUME TablesFit, NEW list \in SetToSeqs(DOMAIN feeds)
  PROVE  /\ [i \in DOMAIN list |-> [feed |-> list[i], row |-> feeds[list[i]]]] \in Seq(Copies)
         /\ \A i \in DOMAIN list : list[i] \in DOMAIN feeds
<1>1. IsFiniteSet(DOMAIN feeds)
  BY FeedFacts, FS_Subset DEF TablesFit
<1>2. list \in Seq(DOMAIN feeds)
  BY <1>1, SeqsOf
<1>3. \A i \in 1 .. Len(list) : list[i] \in DOMAIN feeds
  BY <1>2
<1>4. \A i \in 1 .. Len(list) : [feed |-> list[i], row |-> feeds[list[i]]] \in Copies
  BY <1>3 DEF TablesFit, Copies
<1> QED
  BY <1>2, <1>3, <1>4

\* A check or a clearing begins.
LEMMA CopyFeedsKeeps ==
  ASSUME FeedInv, NEW c \in Clients, CheckFeeds(c) \/ SweepFeeds(c)
  PROVE  FeedInv'
<1>0. PICK k \in {"check", "sweep"}, label \in {"probe", "weed"} : CopyFeeds(c, k, label)
  BY DEF CheckFeeds, SweepFeeds
<1>1. PICK list \in SetToSeqs(DOMAIN feeds) :
        trip' = [trip EXCEPT ![c] = [NoTrip EXCEPT !.task = k,
                    !.todo = [i \in DOMAIN list |-> [feed |-> list[i], row |-> feeds[list[i]]]]]]
  BY <1>0 DEF CopyFeeds
<1>2. /\ Errand(c, k) /\ fpc' = [fpc EXCEPT ![c] = label]
      /\ UNCHANGED <<feedTables, listed, rating, feedHistory>>
  BY <1>0 DEF CopyFeeds, To
<1>3. c \in Threads /\ c \notin Raters /\ fpc[c] = "idle" /\ ClientsFit'
  BY <1>2, ErrandBegins DEF Errands
<1> DEFINE copy == [i \in DOMAIN list |-> [feed |-> list[i], row |-> feeds[list[i]]]]
           j == [NoTrip EXCEPT !.task = k, !.todo = copy]
<1>4. copy \in Seq(Copies) /\ copy \in Seq(BOOLEAN \union Feeds \union Copies)
  BY CopyOfFeeds, TodoSeqs DEF FeedInv
<1> HIDE DEF copy
<1>5. j \in Trips
  <2> HIDE DEF NoTrip
  <2>1. k \in Errands
    BY DEF Errands
  <2> QED
    BY <1>4, <2>1, TripsBegin DEF Trips
<1>6. Fits(label, j)
  BY <1>4 DEF Fits, NoTrip
<1> HIDE DEF j
<1>7. Only(c) /\ fpc'[c] = label /\ trip'[c] = j
  BY <1>1, <1>2, <1>3, <1>5, Moves DEF FeedInv, j, copy, Labels
<1>8. TablesFit' /\ GivenFit' /\ ThreadsFit' /\ RatingFits' /\ RacedInv' /\ ErasedInv'
  BY <1>2, <1>3, <1>6, <1>7, QuietStep DEF feedTables, feedHistory, FetchingAt, RemovingAt
<1> QED
  BY <1>3, <1>8 DEF FeedInv

\* The answer to a reader says when there is nothing, and shows no login page.
LEMMA ContentIsHonest ==
  ASSUME NEW link, NEW item, NEW ruled, NEW sheet
  PROVE  LET answer == ContentAnswer(link, item, ruled, sheet) IN
         /\ answer \in [shown : Shown, error : BOOLEAN]
         /\ answer.shown = "" => answer.error
         /\ answer.shown \in {"rule", "page"} => ~LoginOnly(ruled, sheet)
<1> DEFINE good == IF ruled THEN "rule" ELSE "page"
           back == IF sheet.readable /\ ~LoginOnly(ruled, sheet) THEN "page" ELSE ""
           answer == ContentAnswer(link, item, ruled, sheet)
<1>1. \/ answer = [shown |-> "inline", error |-> FALSE]
      \/ answer = [shown |-> "summary", error |-> FALSE]
      \/ answer = [shown |-> "image", error |-> FALSE]
      \/ answer = [shown |-> good, error |-> FALSE] /\ ~LoginOnly(ruled, sheet)
      \/ answer = [shown |-> "summary", error |-> TRUE]
      \/ answer = [shown |-> back, error |-> TRUE]
      \/ answer = [shown |-> "", error |-> TRUE]
  BY DEF ContentAnswer, Fallback
<1>2. good \in {"rule", "page"} /\ (back = "" \/ (back = "page" /\ ~LoginOnly(ruled, sheet)))
  OBVIOUS
<1> HIDE DEF answer, good, back
<1>3. ASSUME NEW what \in Shown, NEW error \in BOOLEAN, answer = [shown |-> what, error |-> error],
             what = "" => error, what \in {"rule", "page"} => ~LoginOnly(ruled, sheet)
      PROVE  /\ answer \in [shown : Shown, error : BOOLEAN]
             /\ answer.shown = "" => answer.error
             /\ answer.shown \in {"rule", "page"} => ~LoginOnly(ruled, sheet)
  BY <1>3
<1>4. \E what \in Shown, error \in BOOLEAN :
        /\ answer = [shown |-> what, error |-> error]
        /\ what = "" => error
        /\ what \in {"rule", "page"} => ~LoginOnly(ruled, sheet)
  <2>1. CASE answer = [shown |-> good, error |-> FALSE] /\ ~LoginOnly(ruled, sheet)
    BY <1>2, <2>1 DEF Shown
  <2>2. CASE answer = [shown |-> back, error |-> TRUE]
    BY <1>2, <2>2 DEF Shown
  <2>3. CASE answer \in {[shown |-> "inline", error |-> FALSE], [shown |-> "summary", error |-> FALSE],
                         [shown |-> "image", error |-> FALSE]}
    BY <2>3 DEF Shown
  <2>4. CASE answer \in {[shown |-> "summary", error |-> TRUE], [shown |-> "", error |-> TRUE]}
    BY <2>4 DEF Shown
  <2> QED
    BY <1>1, <2>1, <2>2, <2>3, <2>4
<1> QED
  BY <1>3, <1>4 DEF answer

\* A list is shown.
LEMMA ListKeeps ==
  ASSUME FeedInv, NEW c \in Clients, List(c)
  PROVE  FeedInv'
<1> DEFINE ids == {i \in DOMAIN articles : articles[i].feed = trip[c].feed}
<1>1. /\ fpc[c] = "list"
      /\ listed' = [listed EXCEPT ![c] = [i \in ids |-> articles[i].link]]
      /\ given' = given \union {<<i, articles[i].link>> : i \in ids}
      /\ trip' = [trip EXCEPT ![c] = NoTrip] /\ fpc' = [fpc EXCEPT ![c] = "idle"]
      /\ UNCHANGED <<feeds, articles, nextId, rating, errands, raced, erased, rerated>>
  BY DEF List, To, feedTables
<1>2. c \in Threads /\ c \notin Raters
  BY FeedFacts DEF Threads
<1>3. Only(c) /\ fpc'[c] = "idle" /\ trip'[c] = NoTrip
  BY <1>1, <1>2, Moves, TripsBegin DEF FeedInv, Labels
<1>4. Fits("idle", NoTrip)
  BY DEF Fits, NoTrip, NoFeed
<1>5. TablesFit' /\ ThreadsFit' /\ RatingFits' /\ RacedInv' /\ ErasedInv'
  BY <1>1, <1>2, <1>3, <1>4, QuietStep DEF FetchingAt, RemovingAt
<1>6. GivenFit'
  <2> SUFFICES ASSUME NEW g \in given'
               PROVE  g[1] \in 1 .. nextId' - 1 /\ (g[1] \in DOMAIN articles' => articles'[g[1]].link = g[2])
    BY DEF GivenFit
  <2>1. CASE g \in given
    BY <1>1, <2>1 DEF FeedInv, GivenFit
  <2>2. CASE g \in {<<i, articles[i].link>> : i \in ids}
    BY <1>1, <2>2 DEF FeedInv, TablesFit
  <2> QED
    BY <1>1, <2>1, <2>2
<1>7. ClientsFit'
  <2>1. listed = [b \in Clients |-> listed[b]] /\ \A b \in Clients : DOMAIN listed[b] \subseteq Nat
    BY DEF FeedInv, ClientsFit
  <2>2. ids \subseteq Nat
    BY DEF FeedInv, TablesFit
  <2>3. \A b \in Clients : listed'[b] = IF b = c THEN [i \in ids |-> articles[i].link] ELSE listed[b]
    BY <1>1, <2>1
  <2>4. listed' = [b \in Clients |-> listed'[b]]
    BY <1>1, <2>1
  <2>5. \A b \in Clients : DOMAIN listed'[b] \subseteq Nat
    BY <2>1, <2>2, <2>3
  <2> QED
    BY <1>1, <2>4, <2>5 DEF FeedInv, ClientsFit
<1> QED
  BY <1>5, <1>6, <1>7 DEF FeedInv

\* An article is opened.
LEMMA OpenArticleKeeps ==
  ASSUME FeedInv, NEW c \in Clients, OpenArticle(c)
  PROVE  FeedInv'
<1>0. PICK i \in DOMAIN listed[c], label \in {"again", "idle"} :
        /\ Errand(c, "open")
        /\ trip' = [trip EXCEPT ![c] = [NoTrip EXCEPT !.task = "open", !.id = i]]
        /\ fpc' = [fpc EXCEPT ![c] = label]
        /\ UNCHANGED <<feedTables, listed, rating, feedHistory>>
  BY DEF OpenArticle, To
<1>1. c \in Threads /\ c \notin Raters /\ fpc[c] = "idle" /\ ClientsFit'
  BY <1>0, ErrandBegins DEF Errands
<1> DEFINE j == [NoTrip EXCEPT !.task = "open", !.id = i]
<1>2. j \in Trips
  <2> HIDE DEF NoTrip
  <2>1. "open" \in Errands /\ i \in Nat
    BY DEF Errands, FeedInv, ClientsFit
  <2> QED
    BY <2>1, TripsBegin DEF Trips
<1>3. Fits(label, j)
  BY DEF Fits, NoTrip
<1> HIDE DEF j
<1>4. Only(c) /\ fpc'[c] = label /\ trip'[c] = j
  BY <1>0, <1>1, <1>2, Moves DEF FeedInv, j, Labels
<1>5. TablesFit' /\ GivenFit' /\ ThreadsFit' /\ RatingFits' /\ RacedInv' /\ ErasedInv'
  BY <1>0, <1>1, <1>3, <1>4, QuietStep DEF feedTables, feedHistory, FetchingAt, RemovingAt
<1> QED
  BY <1>1, <1>5 DEF FeedInv

\* The article, its source and its content are read.
LEMMA ReadArticleKeeps ==
  ASSUME FeedInv, NEW c \in Clients, ReadArticle(c) \/ ReadOrigin(c) \/ LoadContent(c)
  PROVE  FeedInv'
<1>1. c \in Threads /\ c \notin Raters
  BY FeedFacts DEF Threads
<1>2. /\ fpc[c] \in {"again", "origin", "content"}
      /\ UNCHANGED <<feedTables, listed, rating, errands, feedHistory>>
  BY DEF ReadArticle, ReadOrigin, LoadContent
<1>3. trip[c] \in Trips /\ Fits(fpc[c], trip[c]) /\ trip \in [Threads -> Trips]
  BY <1>1 DEF FeedInv, ThreadsFit
<1>4. \E label \in {"idle", "origin", "content"}, j \in Trips :
        /\ Fits(label, j)
        /\ fpc' = [fpc EXCEPT ![c] = label]
        /\ trip' = [trip EXCEPT ![c] = j] \/ (trip' = trip /\ j = trip[c])
  <2>1. CASE ReadArticle(c)
    <3>1. CASE trip[c].id \in DOMAIN articles
      <4> DEFINE a == articles[trip[c].id]
                 j == [trip[c] EXCEPT !.feed = a.feed, !.found = <<a>>]
      <4>1. trip' = [trip EXCEPT ![c] = j] /\ fpc' = [fpc EXCEPT ![c] = "origin"]
        BY <1>3, <2>1, <3>1 DEF ReadArticle, To
      <4>2. a \in Articles /\ a.feed \in Feeds
        BY <3>1 DEF FeedInv, TablesFit, Articles
      <4> HIDE DEF a
      <4>3. <<a>> \in Seq(Picked \union Articles)
        BY <4>2
      <4>4. j \in Trips
        BY <1>3, <4>2, <4>3 DEF Trips
      <4>5. Fits("origin", j)
        BY <1>2, <1>3, <4>4 DEF Fits, Trips
      <4> QED
        BY <4>1, <4>4, <4>5
    <3>2. CASE trip[c].id \notin DOMAIN articles
      <4>1. fpc' = [fpc EXCEPT ![c] = "idle"] /\ trip' = trip
        BY <2>1, <3>2 DEF ReadArticle, To
      <4>2. Fits("idle", trip[c])
        BY <1>2, <1>3 DEF Fits
      <4> QED
        BY <1>3, <4>1, <4>2
    <3> QED
      BY <3>1, <3>2
  <2>2. CASE ReadOrigin(c)
    <3>1. CASE trip[c].feed \in DOMAIN feeds
      <4> DEFINE row == feeds[trip[c].feed]
                 j == [trip[c] EXCEPT !.row = row]
      <4>1. trip' = [trip EXCEPT ![c] = j] /\ fpc' = [fpc EXCEPT ![c] = "content"]
        BY <1>3, <2>2, <3>1 DEF ReadOrigin, To
      <4>2. row \in FeedRows
        BY <3>1 DEF FeedInv, TablesFit
      <4> HIDE DEF row
      <4>3. j \in Trips
        BY <1>3, <4>2 DEF Trips
      <4>4. Fits("content", j)
        BY <1>2, <1>3, <4>3 DEF Fits, Trips
      <4> QED
        BY <4>1, <4>3, <4>4
    <3>2. CASE trip[c].feed \notin DOMAIN feeds
      <4>1. fpc' = [fpc EXCEPT ![c] = "idle"] /\ trip' = trip
        BY <2>2, <3>2 DEF ReadOrigin, To
      <4>2. Fits("idle", trip[c])
        BY <1>2, <1>3 DEF Fits
      <4> QED
        BY <1>3, <4>1, <4>2
    <3> QED
      BY <3>1, <3>2
  <2>3. CASE LoadContent(c)
    <3>1. PICK sheet \in Pages :
            LET a == trip[c].found[1]
                answer == ContentAnswer(a.link, a.item, trip[c].row.ruled, sheet)
            IN  trip' = [trip EXCEPT ![c].answer = answer,
                                     ![c].sound = answer.shown \in {"rule", "page"}
                                                  => ~LoginOnly(trip[c].row.ruled, sheet)]
      BY <2>3 DEF LoadContent
    <3> DEFINE a == trip[c].found[1]
               answer == ContentAnswer(a.link, a.item, trip[c].row.ruled, sheet)
               sound == answer.shown \in {"rule", "page"} => ~LoginOnly(trip[c].row.ruled, sheet)
               j == [trip[c] EXCEPT !.answer = answer, !.sound = sound]
    <3>2. trip' = [trip EXCEPT ![c] = j] /\ fpc' = [fpc EXCEPT ![c] = "idle"]
      BY <1>3, <2>3, <3>1 DEF LoadContent, To
    <3>3. /\ answer \in [shown : Shown, error : BOOLEAN]
          /\ answer.shown = "" => answer.error
          /\ sound
      BY ContentIsHonest
    <3>4. sound \in BOOLEAN /\ sound = TRUE
      BY <3>3
    <3> HIDE DEF answer, sound
    <3>5. j \in Trips /\ j.answer = answer /\ j.sound = TRUE /\ j.task = trip[c].task
      BY <1>3, <3>3, <3>4 DEF Trips
    <3>6. Fits("idle", j)
      BY <3>3, <3>5 DEF Fits
    <3> QED
      BY <3>2, <3>5, <3>6
  <2> QED
    BY <2>1, <2>2, <2>3
<1>5. PICK label \in {"idle", "origin", "content"}, j \in Trips :
        /\ Fits(label, j)
        /\ fpc' = [fpc EXCEPT ![c] = label]
        /\ trip' = [trip EXCEPT ![c] = j] \/ (trip' = trip /\ j = trip[c])
  BY <1>4
<1>6. Only(c) /\ fpc'[c] = label /\ trip'[c] = j
  BY <1>1, <1>5, Moves DEF FeedInv, Labels
<1>7. TablesFit' /\ GivenFit' /\ ThreadsFit' /\ RatingFits' /\ RacedInv' /\ ErasedInv'
  BY <1>1, <1>2, <1>5, <1>6, QuietStep DEF feedTables, feedHistory, FetchingAt, RemovingAt
<1>8. ClientsFit'
  BY <1>2 DEF FeedInv, ClientsFit
<1> QED
  BY <1>7, <1>8 DEF FeedInv

\* The articles of one more page, numbered on.
LEMMA PickedMore ==
  ASSUME NEW found \in Seq(Picked), PlacesInOrder(found), NEW sheet \in Seq(Items)
  PROVE  LET more == found \o [k \in DOMAIN sheet |-> [item |-> sheet[k], place |-> Len(found) + k]]
         IN  /\ more \in Seq(Picked)
             /\ PlacesInOrder(more)
             /\ [k \in DOMAIN more |-> more[k].item] = [k \in DOMAIN found |-> found[k].item] \o sheet
<1> DEFINE new == [k \in DOMAIN sheet |-> [item |-> sheet[k], place |-> Len(found) + k]]
           more == found \o new
           old == [k \in DOMAIN found |-> found[k].item]
           now == [k \in DOMAIN more |-> more[k].item]
<1>1. Len(found) \in Nat /\ Len(sheet) \in Nat /\ DOMAIN sheet = 1 .. Len(sheet)
      /\ DOMAIN found = 1 .. Len(found)
      /\ \A i \in 1 .. Len(sheet) : sheet[i] \in Items
  OBVIOUS
<1>2. \A i \in 1 .. Len(sheet) : [item |-> sheet[i], place |-> Len(found) + i] \in Picked
  BY <1>1 DEF Picked
<1>3. new \in Seq(Picked) /\ Len(new) = Len(sheet)
      /\ \A i \in 1 .. Len(sheet) : new[i] = [item |-> sheet[i], place |-> Len(found) + i]
  BY <1>1, <1>2
<1> HIDE DEF new
<1>4. /\ more \in Seq(Picked) /\ Len(more) = Len(found) + Len(sheet)
      /\ \A i \in 1 .. Len(found) + Len(sheet) :
            more[i] = IF i <= Len(found) THEN found[i] ELSE new[i - Len(found)]
  <2>1. /\ more \in Seq(Picked) /\ Len(more) = Len(found) + Len(new)
        /\ \A i \in 1 .. Len(found) + Len(new) :
              more[i] = IF i <= Len(found) THEN found[i] ELSE new[i - Len(found)]
    <3>1. new \in Seq(Picked)
      BY <1>3
    <3> QED
      BY <3>1, ConcatProperties
  <2> QED
    BY <2>1, <1>3
<1>5. DOMAIN more = 1 .. Len(found) + Len(sheet)
  BY <1>4
<1> HIDE DEF more
<1>6. \A k \in DOMAIN more :
        /\ k <= Len(found) => more[k].place = k /\ more[k].item = found[k].item
        /\ k > Len(found) => more[k].place = k /\ more[k].item = sheet[k - Len(found)]
  <2> TAKE k \in DOMAIN more
  <2>1. CASE k <= Len(found)
    BY <2>1, <1>1, <1>4, <1>5 DEF PlacesInOrder
  <2>2. CASE k > Len(found)
    <3>1. k - Len(found) \in 1 .. Len(sheet)
      BY <2>2, <1>1, <1>5
    <3>2. more[k] = new[k - Len(found)]
      BY <2>2, <1>1, <1>4, <1>5
    <3>3. more[k] = [item |-> sheet[k - Len(found)], place |-> Len(found) + (k - Len(found))]
      BY <3>1, <3>2, <1>3
    <3> QED
      BY <2>2, <3>3, <1>1, <1>5
  <2> QED
    BY <2>1, <2>2, <1>1, <1>5
<1>7. now = old \o sheet
  <2>1. old \in Seq(Items) /\ Len(old) = Len(found) /\ \A k \in 1 .. Len(found) : old[k] = found[k].item
    <3>1. \A k \in 1 .. Len(found) : found[k].item \in Items
      <4>1. \A k \in 1 .. Len(found) : found[k] \in Picked
        BY ElementOfSeq
      <4> QED
        BY <4>1 DEF Picked
    <3> QED
      BY <3>1, <1>1
  <2>2. now \in Seq(Items) /\ Len(now) = Len(found) + Len(sheet)
        /\ \A k \in 1 .. Len(found) + Len(sheet) : now[k] = more[k].item
    <3>1. \A k \in DOMAIN more : more[k].item \in Items
      <4>1. \A k \in 1 .. Len(more) : more[k] \in Picked
        BY <1>4, ElementOfSeq
      <4> QED
        BY <4>1, <1>4, <1>5 DEF Picked
    <3> QED
      BY <3>1, <1>1, <1>5
  <2> HIDE DEF old, now
  <2>3. /\ old \o sheet \in Seq(Items) /\ Len(old \o sheet) = Len(found) + Len(sheet)
        /\ \A i \in 1 .. Len(found) + Len(sheet) :
              (old \o sheet)[i] = IF i <= Len(found) THEN old[i] ELSE sheet[i - Len(found)]
    <3>1. /\ old \o sheet \in Seq(Items) /\ Len(old \o sheet) = Len(old) + Len(sheet)
          /\ \A i \in 1 .. Len(old) + Len(sheet) :
              (old \o sheet)[i] = IF i <= Len(old) THEN old[i] ELSE sheet[i - Len(old)]
      BY <2>1, ConcatProperties
    <3> QED
      BY <3>1, <2>1
  <2>4. \A k \in 1 .. Len(found) + Len(sheet) : now[k] = (old \o sheet)[k]
    <3> TAKE k \in 1 .. Len(found) + Len(sheet)
    <3>1. now[k] = more[k].item /\ k \in DOMAIN more
      BY <1>5, <2>2
    <3>2. CASE k <= Len(found)
      <4>1. (old \o sheet)[k] = old[k] /\ k \in 1 .. Len(found)
        BY <2>3, <3>2, <1>1
      <4>2. old[k] = found[k].item
        BY <2>1, <4>1
      <4> QED
        BY <3>1, <3>2, <4>1, <4>2, <1>6
    <3>3. CASE ~(k <= Len(found))
      <4>1. (old \o sheet)[k] = sheet[k - Len(found)]
        BY <2>3, <3>3, <1>1
      <4> QED
        BY <3>1, <3>3, <4>1, <1>1, <1>6
    <3> QED
      BY <3>2, <3>3
  <2> QED
    BY <2>2, <2>3, <2>4, SeqEqual
<1>8. PlacesInOrder(more)
  BY <1>1, <1>5, <1>6 DEF PlacesInOrder
<1> QED
  <2> HIDE DEF now, old
  <2>1. more \in Seq(Picked) /\ PlacesInOrder(more) /\ now = old \o sheet
    BY <1>4, <1>7, <1>8
  <2> QED
    BY <2>1 DEF now, old, more, new

\* One channel of a fetch or of a rating.
LEMMA ChannelKeeps ==
  ASSUME FeedInv, NEW t \in Threads, Channel(t)
  PROVE  FeedInv'
<1>1. PICK sheet \in FeedPages, down, late \in BOOLEAN, asks \in 0 .. 1,
           fails \in {"nothing", "address", "rules"} :
        LET j == trip[t]
            sent == ~Blocked(j) /\ fails # "address"
            count == IF sent THEN Counted(j, 1 + asks) ELSE j.requests
            good == ~down /\ fails = "nothing" /\ sheet # <<>>
            used == sent /\ good /\ ~late /\ Served(count)
            place(k) == Len(j.found) + k
        IN  /\ fails = "address" => Head(j.todo)
            /\ fails = "rules" \/ asks = 1 => j.row.ruled /\ ~down
            /\ trip' = [trip EXCEPT ![t] =
                 [j EXCEPT
                    !.todo = Tail(@),
                    !.late = @ \/ late,
                    !.requests = count,
                    !.jsError = fails = "address" \/ (sent /\ fails = "rules")
                                \/ (@ /\ ~Head(j.todo)),
                    !.stale = @ \/ (j.jsError /\ ~Head(j.todo)),
                    !.sound = @ /\ used,
                    !.offered = IF good THEN @ \o sheet ELSE @,
                    !.found = IF used
                              THEN @ \o [k \in DOMAIN sheet |-> [item |-> sheet[k], place |-> place(k)]]
                              ELSE @]]
  BY Zenon DEF Channel
<1> DEFINE j == trip[t]
<1> DEFINE sent == ~Blocked(j) /\ fails # "address"
           count == IF sent THEN Counted(j, 1 + asks) ELSE j.requests
           good == ~down /\ fails = "nothing" /\ sheet # <<>>
           used == sent /\ good /\ ~late /\ Served(count)
           rest == Tail(j.todo)
           nowLate == j.late \/ late
           error == fails = "address" \/ (sent /\ fails = "rules") \/ (j.jsError /\ ~Head(j.todo))
           stale == j.stale \/ (j.jsError /\ ~Head(j.todo))
           sound == j.sound /\ used
           offered == IF good THEN j.offered \o sheet ELSE j.offered
           more == j.found \o [k \in DOMAIN sheet |-> [item |-> sheet[k], place |-> Len(j.found) + k]]
           found == IF used THEN more ELSE j.found
           next == [j EXCEPT !.todo = rest, !.late = nowLate, !.requests = count, !.jsError = error,
                             !.stale = stale, !.sound = sound, !.offered = offered, !.found = found]
<1>2. /\ fpc[t] = "channel" /\ j.todo # <<>>
      /\ UNCHANGED <<feedTables, fpc, listed, rating, errands, feedHistory>>
  BY DEF Channel
<1>3. j \in Trips /\ Fits("channel", j) /\ trip \in [Threads -> Trips]
  BY <1>2 DEF FeedInv, ThreadsFit
<1>4. trip' = [trip EXCEPT ![t] = next]
  BY <1>1, <1>3
<1>5. /\ j.todo \in Seq(BOOLEAN) /\ j.found \in Seq(Picked) /\ PlacesInOrder(j.found)
      /\ AllArrived(j) /\ j.offered \in Seq(Items) /\ j.requests \in 0 .. MaxRequests + 1
      /\ sheet \in Seq(Items) /\ j.late \in BOOLEAN /\ j.stale \in BOOLEAN /\ j.jsError \in BOOLEAN
      /\ j.sound \in BOOLEAN /\ MaxRequests \in Nat /\ j.task # "open"
  BY <1>3, FeedFacts DEF Fits, Trips
<1> HIDE DEF j
<1>6. rest \in Seq(BOOLEAN) /\ Head(j.todo) \in BOOLEAN
  BY <1>2, <1>5, HeadTailProperties, Zenon
<1>7. /\ count \in 0 .. MaxRequests + 1
      /\ (j.requests > MaxRequests => count > MaxRequests)
  BY <1>5 DEF Counted
<1>8. /\ more \in Seq(Picked) /\ PlacesInOrder(more)
      /\ [k \in DOMAIN more |-> more[k].item] = [k \in DOMAIN j.found |-> j.found[k].item] \o sheet
  BY <1>5, PickedMore
<1> HIDE DEF more
<1>9. found \in Seq(Picked) /\ PlacesInOrder(found) /\ offered \in Seq(Items)
  BY <1>5, <1>8, ConcatProperties
<1>10. \/ nowLate \/ stale \/ count > MaxRequests
       \/ offered = [k \in DOMAIN found |-> found[k].item]
  <2>1. SUFFICES ASSUME ~nowLate, ~stale, ~(count > MaxRequests)
                 PROVE  offered = [k \in DOMAIN found |-> found[k].item]
    OBVIOUS
  <2>2. ~late /\ ~j.late /\ ~j.stale /\ ~(j.jsError /\ ~Head(j.todo)) /\ ~(j.requests > MaxRequests)
    BY <2>1, <1>7
  <2>3. j.offered = [k \in DOMAIN j.found |-> j.found[k].item]
    BY <1>5, <2>2 DEF AllArrived
  <2>4. ~Blocked(j)
    BY <2>2 DEF Blocked
  <2>5. Served(count)
    <3>1. \A n \in 0 .. MaxRequests + 1 : ~(n > MaxRequests) => Served(n)
      BY FeedFacts DEF Served
    <3>2. count \in 0 .. MaxRequests + 1 /\ ~(count > MaxRequests)
      BY <1>7, <2>1
    <3> QED
      BY <3>1, <3>2, Zenon
  <2>6. used <=> good
    BY <2>2, <2>4, <2>5
  <2> QED
    <3>1. CASE good
      BY <1>8, <2>3, <2>6, <3>1
    <3>2. CASE ~good
      BY <2>3, <2>6, <3>2
    <3> QED
      BY <3>1, <3>2
<1>11. error \in BOOLEAN /\ stale \in BOOLEAN /\ nowLate \in BOOLEAN /\ sound \in BOOLEAN
  BY <1>5, <1>6
<1>12. rest \in Seq(BOOLEAN \union Feeds \union Copies) /\ found \in Seq(Picked \union Articles)
  <2>1. Seq(Picked) \subseteq Seq(Picked \union Articles)
    BY SeqMonotonic
  <2> QED
    BY <1>6, <1>9, <2>1, TodoSeqs
<1>15. t \in Raters => j.task # "open"
  BY <1>5
<1> HIDE DEF rest, nowLate, count, error, stale, sound, offered, found
<1>16. /\ next \in Trips /\ next.todo = rest /\ next.late = nowLate /\ next.requests = count
       /\ next.stale = stale /\ next.found = found /\ next.offered = offered
       /\ next.task = j.task /\ next.feed = j.feed
  <2>1. j \in Trips
    BY <1>3 DEF j
  <2>2. next \in Trips
    BY <1>7, <1>9, <1>11, <1>12, <2>1 DEF Trips
  <2>3. /\ next.todo = rest /\ next.late = nowLate /\ next.requests = count
        /\ next.stale = stale /\ next.found = found /\ next.offered = offered
        /\ next.task = j.task /\ next.feed = j.feed
    BY <2>1 DEF Trips
  <2> QED
    BY <2>2, <2>3
<1>17. Fits("channel", next)
  <2>1. next.feed \in Feeds
    BY <1>3, <1>16 DEF Fits, j
  <2>2. AllArrived(next)
    BY <1>10, <1>16 DEF AllArrived
  <2> HIDE DEF next
  <2> QED
    BY <1>5, <1>6, <1>9, <1>16, <2>1, <2>2 DEF Fits
<1> HIDE DEF next
<1>18. Only(t) /\ fpc'[t] = fpc[t] /\ trip'[t] = next
  BY <1>2, <1>4, <1>16, Moves DEF FeedInv, Labels
<1>19. TablesFit' /\ GivenFit' /\ ThreadsFit' /\ RatingFits' /\ RacedInv' /\ ErasedInv'
  BY <1>2, <1>16, <1>17, <1>18, QuietStep DEF feedTables, feedHistory, FetchingAt, RemovingAt, j
<1>20. ClientsFit'
  BY <1>2 DEF FeedInv, ClientsFit
<1> QED
  BY <1>19, <1>20 DEF FeedInv

\* The channels of a thread are through; a rating samples.
LEMMA CollectedKeeps ==
  ASSUME FeedInv, NEW t \in Threads, Collected(t) \/ Sample(t)
  PROVE  FeedInv'
<1>1. /\ fpc[t] \in {"channel", "sample"}
      /\ UNCHANGED <<feedTables, listed, rating, errands, feedHistory>>
  BY DEF Collected, Sample
<1>2. trip[t] \in Trips /\ Fits(fpc[t], trip[t]) /\ trip \in [Threads -> Trips]
  BY DEF FeedInv, ThreadsFit
<1>3. /\ trip[t].found \in Seq(Picked) /\ PlacesInOrder(trip[t].found) /\ AllArrived(trip[t])
      /\ trip[t].feed \in Feeds /\ trip[t].task # "open"
  BY <1>1, <1>2 DEF Fits
<1>4. \E label \in {"sample", "store", "grade"}, j \in Trips :
        /\ Fits(label, j) /\ j.feed = trip[t].feed
        /\ fpc' = [fpc EXCEPT ![t] = label] /\ trip' = [trip EXCEPT ![t] = j]
  <2>1. CASE Collected(t)
    <3> DEFINE j == [trip[t] EXCEPT !.keep = trip[t].found]
               label == IF trip[t].task = "rate" THEN "sample" ELSE "store"
    <3>1. trip' = [trip EXCEPT ![t] = j] /\ fpc' = [fpc EXCEPT ![t] = label]
      BY <1>2, <2>1 DEF Collected, To
    <3>2. /\ j \in Trips /\ j.found = trip[t].found /\ j.late = trip[t].late
          /\ j.stale = trip[t].stale /\ j.requests = trip[t].requests
          /\ j.offered = trip[t].offered /\ j.feed = trip[t].feed /\ j.task = trip[t].task
      BY <1>2, <1>3 DEF Trips
    <3>3. AllArrived(j)
      BY <1>3, <3>2 DEF AllArrived
    <3> HIDE DEF j
    <3>4. Fits(label, j)
      BY <1>3, <3>2, <3>3 DEF Fits
    <3> QED
      BY <3>1, <3>2, <3>4
  <2>2. CASE Sample(t)
    <3>1. PICK readable \in BOOLEAN : trip' = [trip EXCEPT ![t].sound = @ /\ readable]
      BY <2>2 DEF Sample
    <3> DEFINE j == [trip[t] EXCEPT !.sound = trip[t].sound /\ readable]
    <3>2. trip' = [trip EXCEPT ![t] = j] /\ fpc' = [fpc EXCEPT ![t] = "grade"]
      BY <1>2, <2>2, <3>1 DEF Sample, To
    <3>3. /\ j \in Trips /\ j.found = trip[t].found /\ j.late = trip[t].late
          /\ j.stale = trip[t].stale /\ j.requests = trip[t].requests
          /\ j.offered = trip[t].offered /\ j.feed = trip[t].feed /\ j.task = trip[t].task
      BY <1>2 DEF Trips
    <3>4. AllArrived(j)
      BY <1>3, <3>3 DEF AllArrived
    <3> HIDE DEF j
    <3>5. Fits("grade", j)
      BY <1>3, <3>3, <3>4 DEF Fits
    <3> QED
      BY <3>2, <3>3, <3>5
  <2> QED
    BY <2>1, <2>2
<1>5. PICK label \in {"sample", "store", "grade"}, j \in Trips :
        /\ Fits(label, j) /\ j.feed = trip[t].feed
        /\ fpc' = [fpc EXCEPT ![t] = label] /\ trip' = [trip EXCEPT ![t] = j]
  BY <1>4
<1>6. Only(t) /\ fpc'[t] = label /\ trip'[t] = j
  BY <1>5, Moves DEF FeedInv, Labels
<1>7. /\ TablesFit' /\ GivenFit' /\ RatingFits' /\ ClientsFit'
  BY <1>1 DEF FeedInv, TablesFit, GivenFit, RatingFits, ClientsFit, feedTables, feedHistory
<1>8. ThreadsFit'
  BY <1>5, <1>6, ThreadsKept DEF FeedInv
<1>9. RacedInv'
  <2>1. CASE fpc[t] = "channel" /\ label = "store" /\ trip[t].task # "rate"
    <3>1. FetchingAt(t, trip[t].feed)
      BY <2>1 DEF FetchingAt
    <3> DEFINE g == trip[t].feed
    <3>0. \A f : FetchingAt(t, f)' => f = g
      BY <1>5, <1>6 DEF FetchingAt
    <3> HIDE DEF g
    <3>4. FetchingAt(t, g)
      BY <3>1 DEF g
    <3>5. Fetching(g)
      BY <1>6, <3>4, FetchingMoves DEF FeedInv
    <3>2. \A f : FetchingAt(t, f)' => Fetching(f)
      BY <3>0, <3>5
    <3>3. \A f : ~RemovingAt(t, f)'
      BY <1>6 DEF RemovingAt
    <3> QED
      BY <1>1, <1>6, <3>2, <3>3, RacedKept DEF FeedInv, feedTables, feedHistory
  <2>2. CASE label # "store"
    <3>1. \A f : ~FetchingAt(t, f)' /\ ~RemovingAt(t, f)'
      BY <1>6, <2>2 DEF RemovingAt, FetchingAt
    <3> QED
      BY <1>1, <1>6, <3>1, RacedKept DEF FeedInv, feedTables, feedHistory
  <2>3. label = "store" => fpc[t] = "channel" /\ trip[t].task # "rate"
    <3>1. ASSUME label = "store" PROVE Collected(t) /\ trip[t].task # "rate"
      <4>1. fpc'[t] = "store"
        BY <1>6, <3>1
      <4>2. fpc \in [Threads -> Labels]
        BY DEF FeedInv, ThreadsFit
      <4> QED
        BY <4>1, <4>2 DEF Collected, Sample, To
    <3> QED
      BY <3>1 DEF Collected
  <2> QED
    BY <2>1, <2>2, <2>3
<1>10. ErasedInv'
  <2>1. \A f : Grading(f)' => Grading(f)
    BY <1>1, <1>5, <1>6, GradingKept
  <2> QED
    BY <1>1, <2>1, ErasedKept DEF FeedInv, feedTables, feedHistory
<1> QED
  BY <1>7, <1>8, <1>9, <1>10 DEF FeedInv

\* A fetch is over.
LEMMA FetchIsOver ==
  ASSUME FeedInv, NEW c \in Threads, FetchOver(c)
  PROVE  /\ Only(c) /\ Fits(fpc'[c], trip'[c])
         /\ \A f : ~FetchingAt(c, f)' /\ ~RemovingAt(c, f)'
<1> DEFINE j == [NoTrip EXCEPT !.task = trip[c].task, !.feed = trip[c].feed]
           label == IF trip[c].task = "load" THEN "list" ELSE "idle"
<1>1. trip' = [trip EXCEPT ![c] = j] /\ fpc' = [fpc EXCEPT ![c] = label]
  BY DEF FetchOver, To
<1>2. trip[c] \in Trips
  BY DEF FeedInv, ThreadsFit
<1>3. j \in Trips /\ label \in Labels
  BY <1>2, TripsBegin DEF Trips, Labels
<1>4. Fits(label, j)
  BY DEF Fits, NoTrip
<1> HIDE DEF j
<1>5. label \in {"list", "idle"}
  OBVIOUS
<1> HIDE DEF label
<1>6. Only(c) /\ fpc'[c] = label /\ trip'[c] = j
  BY <1>1, <1>3, Moves DEF FeedInv
<1> QED
  BY <1>4, <1>5, <1>6 DEF FetchingAt, RemovingAt

\* A source's row is read, or cannot be.
LEMMA ReadFeedKeeps ==
  ASSUME FeedInv, NEW c \in Clients, ReadFeed(c)
  PROVE  FeedInv'
<1>0. c \in Threads /\ c \notin Raters
  BY FeedFacts DEF Threads
<1>1. /\ fpc[c] = "source"
      /\ UNCHANGED <<feedTables, listed, rating, errands, given, erased, rerated>>
  BY DEF ReadFeed
<1>2. trip[c] \in Trips /\ Fits(fpc[c], trip[c]) /\ trip \in [Threads -> Trips]
  BY <1>0 DEF FeedInv, ThreadsFit
<1>3. TablesFit' /\ GivenFit' /\ RatingFits' /\ ClientsFit'
  BY <1>1 DEF FeedInv, TablesFit, GivenFit, RatingFits, ClientsFit, feedTables
<1>4. CASE FetchOver(c) /\ UNCHANGED raced
  <2>1. /\ Only(c) /\ Fits(fpc'[c], trip'[c])
        /\ \A f : ~FetchingAt(c, f)' /\ ~RemovingAt(c, f)'
    BY <1>0, <1>4, FetchIsOver
  <2>2. ThreadsFit' /\ RacedInv' /\ ErasedInv'
    BY <1>0, <1>1, <1>4, <2>1, QuietStep DEF feedTables
  <2> QED
    BY <1>3, <2>2 DEF FeedInv
<1>5. CASE ~(FetchOver(c) /\ UNCHANGED raced)
  <2> DEFINE f == trip[c].feed
  <2>1. /\ f \in DOMAIN feeds
        /\ raced' = IF Removing(f) THEN raced \union {f} ELSE raced
        /\ fpc' = [fpc EXCEPT ![c] = "channel"]
    BY <1>1, <1>5 DEF ReadFeed, To
  <2>2. PICK j \in Pipelines(trip[c], feeds[f]) : trip' = [trip EXCEPT ![c] = j]
    BY <1>1, <1>5 DEF ReadFeed
  <2> DEFINE row == feeds[f]
             todo == ChannelsOf(row)
  <2>3. PICK failed \in BOOLEAN : j = [trip[c] EXCEPT !.row = row, !.todo = todo, !.jsError = failed]
    BY <2>2 DEF Pipelines
  <2>4. row \in FeedRows
    BY <2>1 DEF FeedInv, TablesFit
  <2>5. todo \in Seq(BOOLEAN) /\ todo \in Seq(BOOLEAN \union Feeds \union Copies)
    <3>1. <<FALSE>> \in Seq(BOOLEAN)
      OBVIOUS
    <3>2. todo \in Seq(BOOLEAN)
      BY <3>1, FeedFacts DEF ChannelsOf
    <3> QED
      BY <3>2, TodoSeqs
  <2> HIDE DEF row, todo
  <2>6. j \in Trips
    BY <1>2, <2>3, <2>4, <2>5 DEF Trips
  <2>7. /\ j.feed = f /\ j.task = trip[c].task /\ j.todo = todo /\ j.found = trip[c].found
        /\ j.offered = trip[c].offered
    BY <1>2, <2>3 DEF Trips
  <2>8. Fits("channel", j)
    <3>1. f \in Feeds /\ trip[c].found = <<>> /\ trip[c].offered = <<>> /\ trip[c].task # "open"
      BY <1>1, <1>2 DEF Fits
    <3>2. j.found \in Seq(Picked) /\ PlacesInOrder(j.found)
      BY <2>7, <3>1 DEF PlacesInOrder
    <3>3. AllArrived(j)
      BY <2>7, <3>1 DEF AllArrived
    <3> QED
      BY <2>5, <2>7, <3>1, <3>2, <3>3 DEF Fits
  <2>9. Only(c) /\ fpc'[c] = "channel" /\ trip'[c] = j
    BY <1>0, <2>1, <2>2, <2>6, Moves DEF FeedInv, Labels
  <2>10. ThreadsFit'
    BY <1>0, <2>8, <2>9, ThreadsKept DEF FeedInv
  <2>11. RacedInv'
    <3>1. \A g : ~RemovingAt(c, g)'
      BY <2>9 DEF RemovingAt
    <3>2. \A g : FetchingAt(c, g)' => g = f
      BY <2>7, <2>9 DEF FetchingAt
    <3>3. \A g : FetchingAt(c, g)' => g \in DOMAIN feeds' /\ (Removing(g) => g \in raced')
      BY <1>1, <2>1, <3>2 DEF feedTables
    <3>4. raced \subseteq raced'
      BY <2>1
    <3> QED
      BY <1>0, <1>1, <2>9, <3>1, <3>3, <3>4, RacedKept DEF FeedInv, feedTables
  <2>12. ErasedInv'
    <3>1. \A g : Grading(g)' => Grading(g)
      BY <1>0, <1>1, <2>9, GradingKept
    <3> QED
      BY <1>1, <3>1, ErasedKept DEF FeedInv, feedTables
  <2> QED
    BY <1>3, <2>10, <2>11, <2>12 DEF FeedInv
<1> QED
  BY <1>4, <1>5

\* INSERT ... ON CONFLICT DO UPDATE.
LEMMA ArticlePut ==
  ASSUME TablesFit, GivenFit, NEW row \in Articles, PutArticle(row), feeds' = feeds, given' = given
  PROVE  /\ TablesFit' /\ GivenFit'
         /\ \A i \in DOMAIN articles' :
              \/ i \in DOMAIN articles /\ articles'[i].feed = articles[i].feed
              \/ articles'[i].feed = row.feed
<1> DEFINE same == {i \in DOMAIN articles : articles[i].feed = row.feed /\ articles[i].link = row.link}
           id == IF same = {} THEN nextId ELSE CHOOSE i \in same : TRUE
<1>1. /\ articles' = [i \in DOMAIN articles \union {id} |-> IF i = id THEN row ELSE articles[i]]
      /\ nextId' = IF same = {} THEN nextId + 1 ELSE nextId
  BY DEF PutArticle
<1>2. /\ nextId \in Nat \ {0}
      /\ \A i \in DOMAIN articles : i \in 1 .. nextId - 1 /\ articles[i] \in Articles
      /\ \A i, j \in DOMAIN articles :
          articles[i].feed = articles[j].feed /\ articles[i].link = articles[j].link => i = j
  BY DEF TablesFit
<1>3. \/ same = {} /\ id = nextId /\ nextId \notin DOMAIN articles
      \/ same # {} /\ id \in same
  <2>1. nextId \notin DOMAIN articles
    BY <1>2
  <2> QED
    BY <2>1
<1>4. \A i \in DOMAIN articles : articles[i].feed = row.feed /\ articles[i].link = row.link => i = id
  BY <1>2, <1>3
<1>5. id \in DOMAIN articles => articles[id].feed = row.feed /\ articles[id].link = row.link
  BY <1>3
<1>6. /\ nextId' \in Nat \ {0} /\ nextId' >= nextId /\ id \in 1 .. nextId' - 1
      /\ id \notin DOMAIN articles => id = nextId
  BY <1>1, <1>2, <1>3
<1> HIDE DEF id, same
<1>7. /\ DOMAIN articles' = DOMAIN articles \union {id} /\ articles'[id] = row
      /\ \A i \in DOMAIN articles \ {id} : articles'[i] = articles[i]
  BY <1>1
<1>8. \A i \in DOMAIN articles' : i \in 1 .. nextId' - 1 /\ articles'[i] \in Articles
  <2> SUFFICES ASSUME NEW i \in DOMAIN articles' PROVE i \in 1 .. nextId' - 1 /\ articles'[i] \in Articles
    OBVIOUS
  <2>1. CASE i = id
    BY <1>6, <1>7, <2>1
  <2>2. CASE i # id
    BY <1>2, <1>6, <1>7, <2>2
  <2> QED
    BY <2>1, <2>2
<1>9. \A i, j \in DOMAIN articles' :
          articles'[i].feed = articles'[j].feed /\ articles'[i].link = articles'[j].link => i = j
  BY <1>2, <1>4, <1>7
<1>10. TablesFit'
  BY <1>6, <1>8, <1>9 DEF TablesFit
<1>11. GivenFit'
  <2> SUFFICES ASSUME NEW g \in given
               PROVE  g[1] \in 1 .. nextId' - 1 /\ (g[1] \in DOMAIN articles' => articles'[g[1]].link = g[2])
    BY DEF GivenFit
  <2>1. g[1] \in 1 .. nextId - 1 /\ (g[1] \in DOMAIN articles => articles[g[1]].link = g[2])
    BY DEF GivenFit
  <2>2. g[1] # nextId /\ g[1] \in 1 .. nextId' - 1
    BY <1>2, <1>6, <2>1
  <2> QED
    BY <1>5, <1>6, <1>7, <2>1, <2>2
<1>12. \A i \in DOMAIN articles' :
              \/ i \in DOMAIN articles /\ articles'[i].feed = articles[i].feed
              \/ articles'[i].feed = row.feed
  BY <1>7
<1> QED
  BY <1>10, <1>11, <1>12

\* A fetch stores what it found.
LEMMA StoreArticlesKeeps ==
  ASSUME FeedInv, NEW c \in Clients, StoreArticles(c)
  PROVE  FeedInv'
<1>0. c \in Threads /\ c \notin Raters
  BY FeedFacts DEF Threads
<1>1. fpc[c] = "store" /\ UNCHANGED <<feeds, listed, rating, errands, feedHistory>>
  BY DEF StoreArticles
<1>2. trip[c] \in Trips /\ Fits(fpc[c], trip[c]) /\ trip \in [Threads -> Trips]
  BY <1>0 DEF FeedInv, ThreadsFit
<1>3. /\ trip[c].found \in Seq(Picked) /\ PlacesInOrder(trip[c].found) /\ AllArrived(trip[c])
      /\ trip[c].feed \in Feeds /\ trip[c].task \notin {"open", "rate"}
  BY <1>1, <1>2 DEF Fits
<1>4. RatingFits' /\ ClientsFit'
  BY <1>1 DEF FeedInv, RatingFits, ClientsFit
<1>5. CASE trip[c].keep = <<>>
  <2>1. UNCHANGED <<articles, nextId>>
    BY <1>5 DEF StoreArticles
  <2>2. /\ Only(c) /\ Fits(fpc'[c], trip'[c])
        /\ \A f : ~FetchingAt(c, f)' /\ ~RemovingAt(c, f)'
    <3>1. CASE trip[c].found # <<>>
      <4>1. trip' = trip /\ fpc' = [fpc EXCEPT ![c] = "stamp"]
        BY <1>5, <3>1 DEF StoreArticles, To
      <4>2. Only(c) /\ fpc'[c] = "stamp" /\ trip'[c] = trip[c]
        BY <1>0, <1>2, <4>1, Moves DEF FeedInv, Labels
      <4>3. Fits("stamp", trip[c])
        BY <1>3 DEF Fits
      <4> QED
        BY <4>2, <4>3 DEF FetchingAt, RemovingAt
    <3>2. CASE ~(trip[c].found # <<>>)
      <4>1. FetchOver(c)
        BY <1>5, <3>2 DEF StoreArticles
      <4> QED
        BY <1>0, <4>1, FetchIsOver
    <3> QED
      BY <3>1, <3>2
  <2>3. TablesFit' /\ ThreadsFit' /\ RacedInv' /\ ErasedInv' /\ GivenFit'
    BY <1>0, <1>1, <2>1, <2>2, QuietStep DEF feedHistory
  <2> QED
    BY <1>4, <2>3 DEF FeedInv
<1>6. CASE trip[c].keep # <<>>
  <2> DEFINE a == Head(trip[c].keep)
             row == [feed |-> trip[c].feed, link |-> Link(a.item, a.place),
                     item |-> a.item, place |-> a.place]
             j == [trip[c] EXCEPT !.keep = Tail(trip[c].keep)]
  <2>1. PutArticle(row) /\ trip' = [trip EXCEPT ![c] = j] /\ fpc' = fpc
    BY <1>2, <1>6 DEF StoreArticles
  <2>2. trip[c].keep \in Seq(Picked)
    BY <1>2 DEF Trips
  <2>3. a \in Picked /\ Tail(trip[c].keep) \in Seq(Picked)
    BY <1>6, <2>2
  <2>4. row \in Articles /\ row.feed = trip[c].feed
    <3>1. a.item \in Items /\ a.place \in Nat /\ 0 \in Nat
      BY <2>3 DEF Picked
    <3> HIDE DEF a
    <3>2. Link(a.item, a.place) \in Links
      BY <3>1 DEF Link, Links
    <3> QED
      BY <1>3, <3>1, <3>2 DEF Articles
  <2>5. /\ j \in Trips /\ j.found = trip[c].found /\ j.late = trip[c].late
        /\ j.stale = trip[c].stale /\ j.requests = trip[c].requests
        /\ j.offered = trip[c].offered /\ j.feed = trip[c].feed /\ j.task = trip[c].task
    BY <1>2, <2>3 DEF Trips
  <2>6. AllArrived(j)
    BY <1>3, <2>5 DEF AllArrived
  <2>0. trip' = [trip EXCEPT ![c] = j]
    BY <2>1
  <2> HIDE DEF row, j
  <2>7. Fits("store", j)
    BY <1>3, <2>5, <2>6 DEF Fits
  <2>8. Only(c) /\ fpc'[c] = "store" /\ trip'[c] = j
    <3>1. fpc' = fpc /\ "store" = fpc[c] /\ "store" \in Labels
      BY <1>1, <2>1 DEF Labels
    <3>2. trip' = [trip EXCEPT ![c] = j] /\ j \in Trips
      BY <2>0, <2>5
    <3> QED
      BY <1>0, <3>1, <3>2, Moves DEF FeedInv
  <2>9. ThreadsFit'
    BY <1>0, <2>7, <2>8, ThreadsKept DEF FeedInv
  <2>10. /\ TablesFit' /\ GivenFit'
         /\ \A i \in DOMAIN articles' :
              \/ i \in DOMAIN articles /\ articles'[i].feed = articles[i].feed
              \/ articles'[i].feed = row.feed
    BY <1>1, <2>1, <2>4, ArticlePut DEF FeedInv, feedHistory
  <2>11. Fetching(row.feed)
    <3>1. FetchingAt(c, row.feed)
      BY <1>1, <1>3, <2>4 DEF FetchingAt
    <3> QED
      BY <1>0, <2>8, <3>1, FetchingMoves DEF FeedInv
  <2>12. RacedInv'
    <3>1. \A f : ~RemovingAt(c, f)'
      BY <2>8 DEF RemovingAt
    <3>2. \A f : FetchingAt(c, f)' => f = row.feed
      BY <2>4, <2>5, <2>8 DEF FetchingAt
    <3>3. \A i \in DOMAIN articles' : \/ i \in DOMAIN articles /\ articles'[i].feed = articles[i].feed
                                      \/ Fetching(articles'[i].feed)
      BY <2>10, <2>11
    <3>4. \A f : FetchingAt(c, f)' => Fetching(f)
      BY <2>11, <3>2
    <3> QED
      BY <1>0, <1>1, <2>8, <3>1, <3>3, <3>4, RacedKept DEF FeedInv, feedHistory
  <2>13. ErasedInv'
    <3>1. \A f : Grading(f)' => Grading(f)
      BY <1>0, <1>1, <2>8, GradingKept
    <3> QED
      BY <1>1, <3>1, ErasedKept DEF FeedInv, feedHistory
  <2> QED
    BY <1>4, <2>9, <2>10, <2>12, <2>13 DEF FeedInv
<1> QED
  BY <1>5, <1>6

\* updateRssSourceLastUpdateTime
LEMMA StampKeeps ==
  ASSUME FeedInv, NEW c \in Clients, Stamp(c)
  PROVE  FeedInv'
<1>0. c \in Threads /\ c \notin Raters
  BY FeedFacts DEF Threads
<1>1. /\ FetchOver(c) /\ UNCHANGED <<articles, nextId, listed, rating, errands, feedHistory>>
      /\ feeds' = [f \in DOMAIN feeds |-> IF f = trip[c].feed THEN [feeds[f] EXCEPT !.updated = TRUE]
                                                              ELSE feeds[f]]
  BY DEF Stamp
<1>2. /\ Only(c) /\ Fits(fpc'[c], trip'[c])
      /\ \A f : ~FetchingAt(c, f)' /\ ~RemovingAt(c, f)'
  BY <1>0, <1>1, FetchIsOver
<1>3. DOMAIN feeds' = DOMAIN feeds /\ \A f \in DOMAIN feeds' : feeds'[f] \in FeedRows
  <2>1. \A f \in DOMAIN feeds : feeds[f] \in FeedRows /\ [feeds[f] EXCEPT !.updated = TRUE] \in FeedRows
    BY DEF FeedInv, TablesFit, FeedRows
  <2> QED
    BY <1>1, <2>1
<1>4. TablesFit' /\ GivenFit' /\ RatingFits' /\ ClientsFit'
  BY <1>1, <1>3 DEF FeedInv, TablesFit, GivenFit, RatingFits, ClientsFit, feedHistory
<1>5. ThreadsFit'
  BY <1>0, <1>2, ThreadsKept DEF FeedInv
<1>6. RacedInv'
  BY <1>0, <1>1, <1>2, <1>3, RacedKept DEF FeedInv, feedHistory
<1>7. ErasedInv'
  <2>1. \A f : Grading(f)' => Grading(f)
    BY <1>0, <1>1, <1>2, GradingKept
  <2> QED
    BY <1>1, <1>3, <2>1, ErasedKept DEF FeedInv, feedHistory
<1> QED
  BY <1>4, <1>5, <1>6, <1>7 DEF FeedInv

\* INSERT OR REPLACE
LEMMA FeedPut ==
  ASSUME TablesFit, NEW f \in Feeds, NEW row \in FeedRows, PutFeed(f, row),
         articles' = articles, nextId' = nextId
  PROVE  DOMAIN feeds' = DOMAIN feeds \union {f} /\ TablesFit'
<1>1. feeds' = [g \in DOMAIN feeds \union {f} |-> IF g = f THEN row ELSE feeds[g]]
  BY DEF PutFeed
<1>2. DOMAIN feeds' = DOMAIN feeds \union {f} /\ \A g \in DOMAIN feeds' : feeds'[g] \in FeedRows
  BY <1>1 DEF TablesFit
<1> QED
  BY <1>2 DEF TablesFit

\* A source is posted.
LEMMA PostFeedKeeps ==
  ASSUME FeedInv, NEW c \in Clients, PostFeed(c)
  PROVE  FeedInv'
<1>1. PICK f \in Feeds : PutFeed(f, Bare) /\ erased' = erased \ {f}
  BY DEF PostFeed
<1>2. /\ Errand(c, "post")
      /\ UNCHANGED <<articles, nextId, fpc, trip, listed, rating, given, raced, rerated>>
  BY DEF PostFeed
<1>3. c \in Threads /\ c \notin Raters /\ fpc[c] = "idle" /\ ClientsFit'
  BY <1>2, ErrandBegins DEF Errands
<1>4. Only(c) /\ fpc'[c] = "idle" /\ trip'[c] = trip[c] /\ ThreadsFit'
  BY <1>2, <1>3, Waits DEF FeedInv
<1>5. DOMAIN feeds' = DOMAIN feeds \union {f} /\ TablesFit'
  BY <1>1, <1>2, FeedPut, TripsBegin DEF FeedInv
<1>6. GivenFit' /\ RatingFits'
  BY <1>2 DEF FeedInv, GivenFit, RatingFits
<1>7. RacedInv'
  <2>1. \A g : ~FetchingAt(c, g)' /\ ~RemovingAt(c, g)'
    BY <1>4 DEF FetchingAt, RemovingAt
  <2> QED
    BY <1>2, <1>3, <1>4, <1>5, <2>1, RacedKept DEF FeedInv
<1>8. ErasedInv'
  <2>1. \A g : Grading(g)' => Grading(g)
    BY <1>2, <1>3, <1>4, GradingKept
  <2> QED
    BY <1>1, <1>2, <1>5, <2>1, ErasedKept DEF FeedInv
<1> QED
  BY <1>3, <1>4, <1>5, <1>6, <1>7, <1>8 DEF FeedInv

\* The next source of an import.
LEMMA AddFeedKeeps ==
  ASSUME FeedInv, NEW c \in Clients, AddFeed(c)
  PROVE  FeedInv'
<1>0. c \in Threads /\ c \notin Raters
  BY FeedFacts DEF Threads
<1>1. /\ fpc[c] = "add"
      /\ UNCHANGED <<articles, nextId, listed, rating, errands, given, raced, rerated>>
  BY DEF AddFeed
<1>2. trip[c] \in Trips /\ Fits("add", trip[c]) /\ trip \in [Threads -> Trips]
  BY <1>0, <1>1 DEF FeedInv, ThreadsFit
<1>3. trip[c].todo \in Seq(Feeds) /\ trip[c].task # "open"
  BY <1>2 DEF Fits
<1>4. GivenFit' /\ RatingFits' /\ ClientsFit'
  BY <1>1 DEF FeedInv, GivenFit, RatingFits, ClientsFit
<1>5. CASE trip[c].todo = <<>>
  <2>1. fpc' = [fpc EXCEPT ![c] = "idle"] /\ UNCHANGED <<feeds, trip, erased>>
    BY <1>5 DEF AddFeed, To
  <2>2. Only(c) /\ fpc'[c] = "idle" /\ trip'[c] = trip[c]
    BY <1>0, <1>2, <2>1, Moves DEF FeedInv, Labels
  <2>3. Fits("idle", trip[c])
    BY <1>3 DEF Fits
  <2>4. TablesFit' /\ ThreadsFit' /\ RacedInv' /\ ErasedInv'
    BY <1>0, <1>1, <2>1, <2>2, <2>3, QuietStep DEF FetchingAt, RemovingAt
  <2> QED
    BY <1>4, <2>4 DEF FeedInv
<1>6. CASE trip[c].todo # <<>>
  <2> DEFINE f == Head(trip[c].todo)
             rest == Tail(trip[c].todo)
             j == [trip[c] EXCEPT !.todo = rest]
  <2>1. /\ PutFeed(f, Whole) /\ erased' = erased \ {f} /\ fpc' = fpc
        /\ trip' = [trip EXCEPT ![c] = j]
    BY <1>2, <1>6 DEF AddFeed
  <2>2. f \in Feeds /\ rest \in Seq(Feeds)
    BY <1>3, <1>6
  <2>3. rest \in Seq(BOOLEAN \union Feeds \union Copies)
    BY <2>2, TodoSeqs
  <2> HIDE DEF f, rest
  <2>4. j \in Trips /\ j.todo = rest /\ j.task = trip[c].task
    BY <1>2, <2>3 DEF Trips
  <2>5. Fits("add", j)
    BY <1>3, <2>2, <2>4 DEF Fits
  <2> HIDE DEF j
  <2>6. Only(c) /\ fpc'[c] = "add" /\ trip'[c] = j
    <3>1. fpc' = fpc /\ "add" = fpc[c] /\ "add" \in Labels
      BY <1>1, <2>1 DEF Labels
    <3> QED
      BY <1>0, <2>1, <2>4, <3>1, Moves DEF FeedInv
  <2>7. ThreadsFit'
    BY <1>0, <2>5, <2>6, ThreadsKept DEF FeedInv
  <2>8. DOMAIN feeds' = DOMAIN feeds \union {f} /\ TablesFit'
    BY <1>1, <2>1, <2>2, FeedPut, TripsBegin DEF FeedInv
  <2>9. RacedInv'
    <3>1. \A g : ~FetchingAt(c, g)' /\ ~RemovingAt(c, g)'
      BY <2>6 DEF FetchingAt, RemovingAt
    <3> QED
      BY <1>0, <1>1, <2>6, <2>8, <3>1, RacedKept DEF FeedInv
  <2>10. ErasedInv'
    <3>1. \A g : Grading(g)' => Grading(g)
      BY <1>0, <1>1, <2>6, GradingKept
    <3> QED
      BY <1>1, <2>1, <2>8, <3>1, ErasedKept DEF FeedInv
  <2> QED
    BY <1>4, <2>7, <2>8, <2>9, <2>10 DEF FeedInv
<1> QED
  BY <1>5, <1>6

\* The articles of some sources go.
LEMMA ArticlesDropped ==
  ASSUME TablesFit, GivenFit, NEW fs, DropArticles(fs), feeds' = feeds, nextId' = nextId, given' = given
  PROVE  /\ TablesFit' /\ GivenFit'
         /\ \A i \in DOMAIN articles' : /\ i \in DOMAIN articles /\ articles'[i] = articles[i]
                                        /\ articles'[i].feed \notin fs
         /\ raced' = raced \union {f \in fs : Fetching(f)}
<1>1. /\ articles' = [i \in {j \in DOMAIN articles : articles[j].feed \notin fs} |-> articles[i]]
      /\ raced' = raced \union {f \in fs : Fetching(f)}
  BY DEF DropArticles
<1>2. \A i \in DOMAIN articles' : /\ i \in DOMAIN articles /\ articles'[i] = articles[i]
                                  /\ articles'[i].feed \notin fs
  BY <1>1
<1>3. TablesFit'
  BY <1>2 DEF TablesFit
<1>4. GivenFit'
  BY <1>2 DEF GivenFit
<1> QED
  BY <1>1, <1>2, <1>3, <1>4

\* The rows of some sources go, whose articles are gone.
LEMMA FeedsDropped ==
  ASSUME FeedInv, NEW c \in Threads, c \notin Raters, Only(c), Fits(fpc'[c], trip'[c]),
         NEW fs, DropFeeds(fs), UNCHANGED <<articles, nextId, given, rating>>,
         \A f \in fs : RemovingAt(c, f),
         \A f : ~FetchingAt(c, f)' /\ ~RemovingAt(c, f)'
  PROVE  TablesFit' /\ GivenFit' /\ ThreadsFit' /\ RacedInv' /\ ErasedInv'
<1>1. /\ feeds' = [f \in DOMAIN feeds \ fs |-> feeds[f]]
      /\ raced' = raced \union {f \in fs : Fetching(f)}
      /\ erased' = erased \union fs
      /\ rerated' = rerated \union {f \in fs : Grading(f)}
  BY DEF DropFeeds
<1>2. TablesFit' /\ GivenFit'
  BY <1>1 DEF FeedInv, TablesFit, GivenFit
<1>3. ThreadsFit'
  BY ThreadsKept DEF FeedInv
<1>4. RacedInv'
  <2>1. \A f \in fs : Removing(f)
    BY FetchingMoves DEF FeedInv
  <2>2. \A f \in DOMAIN feeds : f \notin DOMAIN feeds' => Removing(f)
    BY <1>1, <2>1
  <2>3. raced \subseteq raced'
    BY <1>1
  <2> QED
    BY <2>2, <2>3, RacedKept DEF FeedInv
<1>5. ErasedInv'
  <2>1. \A f : Grading(f)' => Grading(f)
    BY GradingKept
  <2>2. \A f \in erased' : f \in erased \/ (f \notin DOMAIN feeds' /\ (Grading(f) => f \in rerated'))
    BY <1>1
  <2>3. rerated \subseteq rerated' /\ DOMAIN feeds' \subseteq DOMAIN feeds
    BY <1>1
  <2> QED
    BY <2>1, <2>2, <2>3, ErasedKept DEF FeedInv
<1> QED
  BY <1>2, <1>3, <1>4, <1>5

\* removeRssSource, clearAllRss: the rows.
LEMMA RemoveRowKeeps ==
  ASSUME FeedInv, NEW c \in Clients, RemoveRow(c) \/ ClearRows(c)
  PROVE  FeedInv'
<1>0. c \in Threads /\ c \notin Raters
  BY FeedFacts DEF Threads
<1>1. UNCHANGED <<articles, nextId, trip, listed, rating, errands, given>>
  BY DEF RemoveRow, ClearRows
<1>2. trip[c] \in Trips /\ Fits(fpc[c], trip[c])
  BY <1>0 DEF FeedInv, ThreadsFit
<1>3. RatingFits' /\ ClientsFit'
  BY <1>1 DEF FeedInv, RatingFits, ClientsFit
<1>4. PICK fs \in {{trip[c].feed}, DOMAIN feeds}, label \in {"probe", "weed", "idle"} :
        /\ DropFeeds(fs) /\ fpc' = [fpc EXCEPT ![c] = label]
        /\ \A f \in fs : RemovingAt(c, f)
        /\ Fits(label, trip[c])
  <2>1. CASE RemoveRow(c)
    <3> DEFINE label == CASE trip[c].task = "check" -> "probe" [] trip[c].task = "sweep" -> "weed"
                       [] OTHER -> "idle"
    <3>1. fpc[c] = "row" /\ DropFeeds({trip[c].feed}) /\ fpc' = [fpc EXCEPT ![c] = label]
      BY <2>1 DEF RemoveRow, To
    <3>2. /\ label \in {"probe", "weed", "idle"}
          /\ label \in {"probe", "weed"} => trip[c].task \in {"check", "sweep"}
      OBVIOUS
    <3> HIDE DEF label
    <3>3. Fits(label, trip[c])
      BY <1>2, <3>1, <3>2 DEF Fits
    <3>4. \A f \in {trip[c].feed} : RemovingAt(c, f)
      BY <3>1 DEF RemovingAt
    <3> QED
      BY <3>1, <3>2, <3>3, <3>4
  <2>2. CASE ClearRows(c)
    <3>1. fpc[c] = "every" /\ DropFeeds(DOMAIN feeds) /\ fpc' = [fpc EXCEPT ![c] = "idle"]
      BY <2>2 DEF ClearRows, To
    <3>2. Fits("idle", trip[c])
      BY <1>2, <3>1 DEF Fits
    <3>3. \A f \in DOMAIN feeds : RemovingAt(c, f)
      BY <3>1 DEF RemovingAt
    <3> QED
      BY <3>1, <3>2, <3>3
  <2> QED
    BY <2>1, <2>2
<1>5. Only(c) /\ fpc'[c] = label /\ trip'[c] = trip[c]
  BY <1>0, <1>1, <1>2, <1>4, Moves DEF FeedInv, Labels
<1>6. \A f : ~FetchingAt(c, f)' /\ ~RemovingAt(c, f)'
  BY <1>5 DEF FetchingAt, RemovingAt
<1>7. TablesFit' /\ GivenFit' /\ ThreadsFit' /\ RacedInv' /\ ErasedInv'
  BY <1>0, <1>1, <1>4, <1>5, <1>6, FeedsDropped
<1> QED
  BY <1>3, <1>7 DEF FeedInv

\* removeRssSource, clearAllRss: the articles.
LEMMA RemoveFeedKeeps ==
  ASSUME FeedInv, NEW c \in Clients, RemoveFeed(c) \/ ClearFeeds(c)
  PROVE  FeedInv'
<1>1. UNCHANGED <<feeds, nextId, listed, rating, given, erased, rerated>>
  BY DEF RemoveFeed, ClearFeeds
<1>2. PICK fs \in SUBSET Feeds, label \in {"row", "every"}, j \in Trips, k \in {"remove", "clear"} :
        /\ Errand(c, k) /\ DropArticles(fs) /\ Fits(label, j)
        /\ fpc' = [fpc EXCEPT ![c] = label]
        /\ trip' = [trip EXCEPT ![c] = j] \/ (trip' = trip /\ j = trip[c])
        /\ label = "row" => fs = {j.feed}
        /\ label = "every" => fs = Feeds
  <2>1. CASE RemoveFeed(c)
    <3>1. PICK f \in DOMAIN feeds : /\ DropArticles({f})
                                    /\ trip' = [trip EXCEPT ![c] = [NoTrip EXCEPT !.task = "remove", !.feed = f]]
      BY <2>1 DEF RemoveFeed
    <3> DEFINE j == [NoTrip EXCEPT !.task = "remove", !.feed = f]
    <3>2. Errand(c, "remove") /\ fpc' = [fpc EXCEPT ![c] = "row"]
      BY <2>1 DEF RemoveFeed, To
    <3>3. f \in Feeds
      BY DEF FeedInv, TablesFit
    <3>4. j \in Trips
      BY <3>3, TripsBegin DEF Errands
    <3>5. Fits("row", j) /\ j.feed = f
      BY <3>3 DEF Fits, NoTrip
    <3>6. trip' = [trip EXCEPT ![c] = j]
      BY <3>1
    <3> HIDE DEF j
    <3>7. {f} \in SUBSET Feeds /\ DropArticles({f}) /\ {f} = {j.feed}
      BY <3>1, <3>3, <3>5
    <3> QED
      BY <3>2, <3>4, <3>5, <3>6, <3>7
  <2>2. CASE ClearFeeds(c)
    <3>1. /\ Errand(c, "clear") /\ DropArticles(Feeds) /\ fpc' = [fpc EXCEPT ![c] = "every"]
          /\ trip' = trip
      BY <2>2 DEF ClearFeeds, To
    <3>2. c \in Threads /\ fpc[c] = "idle"
      BY <3>1 DEF Errand, Threads
    <3>3. trip[c] \in Trips /\ Fits("idle", trip[c])
      BY <3>2 DEF FeedInv, ThreadsFit
    <3>4. Fits("every", trip[c])
      BY <3>3 DEF Fits
    <3>5. Feeds \in SUBSET Feeds
      OBVIOUS
    <3> QED
      BY <3>1, <3>3, <3>4, <3>5
  <2> QED
    BY <2>1, <2>2
<1>3. c \in Threads /\ c \notin Raters /\ fpc[c] = "idle" /\ ClientsFit'
  BY <1>1, <1>2, ErrandBegins DEF Errands
<1>4. Only(c) /\ fpc'[c] = label /\ trip'[c] = j
  BY <1>2, <1>3, Moves DEF FeedInv, Labels
<1>5. /\ TablesFit' /\ GivenFit'
      /\ \A i \in DOMAIN articles' : /\ i \in DOMAIN articles /\ articles'[i] = articles[i]
                                     /\ articles'[i].feed \notin fs
      /\ raced' = raced \union {f \in fs : Fetching(f)}
  BY <1>1, <1>2, ArticlesDropped DEF FeedInv
<1>6. ThreadsFit' /\ RatingFits'
  BY <1>1, <1>2, <1>3, <1>4, ThreadsKept DEF FeedInv, RatingFits
<1>7. \A f : Fetching(f) => f \in Feeds
  BY DEF FeedInv, ThreadsFit, Fits, Fetching
<1>8. RacedInv'
  <2>1. \A f : ~FetchingAt(c, f)'
    BY <1>4 DEF FetchingAt
  <2>2. ASSUME NEW f, RemovingAt(c, f)'
        PROVE  (Fetching(f) => f \in raced') /\ \A i \in DOMAIN articles' : articles'[i].feed # f
    <3>1. CASE label = "row"
      <4>1. f \in fs
        BY <1>2, <1>4, <2>2, <3>1 DEF RemovingAt
      <4> QED
        BY <1>5, <4>1
    <3>2. CASE label = "every"
      <4>1. \A i \in DOMAIN articles : articles[i].feed \in Feeds
        BY DEF FeedInv, TablesFit, Articles
      <4>2. \A i \in DOMAIN articles' : FALSE
        BY <1>2, <1>5, <3>2, <4>1
      <4> QED
        BY <1>2, <1>5, <1>7, <3>2, <4>2
    <3> QED
      BY <3>1, <3>2
  <2> QED
    BY <1>1, <1>3, <1>4, <1>5, <2>1, <2>2, RacedKept DEF FeedInv
<1>9. ErasedInv'
  <2>1. \A g : Grading(g)' => Grading(g)
    BY <1>1, <1>3, <1>4, GradingKept
  <2> QED
    BY <1>1, <2>1, ErasedKept DEF FeedInv
<1> QED
  BY <1>3, <1>5, <1>6, <1>8, <1>9 DEF FeedInv

\* The next source of a copy: kept, or its articles go.
LEMMA VisitKeeps ==
  ASSUME FeedInv, NEW c \in Clients, Probe(c) \/ Weed(c)
  PROVE  FeedInv'
<1>0. c \in Threads /\ c \notin Raters
  BY FeedFacts DEF Threads
<1>1. /\ fpc[c] \in {"probe", "weed"} /\ \E keep, drop \in BOOLEAN : Visit(c, keep, drop)
      /\ UNCHANGED <<feeds, nextId, listed, rating, errands, given, erased, rerated>>
  BY DEF Probe, Weed
<1>2. /\ trip[c] \in Trips /\ Fits(fpc[c], trip[c])
      /\ trip \in [Threads -> Trips] /\ fpc \in [Threads -> Labels]
  BY <1>0, <1>1 DEF FeedInv, ThreadsFit
<1>3. trip[c].todo \in Seq(Copies) /\ trip[c].task # "open"
  BY <1>1, <1>2 DEF Fits
<1>4. RatingFits' /\ ClientsFit'
  BY <1>1 DEF FeedInv, RatingFits, ClientsFit
<1>5. CASE trip[c].todo = <<>>
  <2>1. fpc' = [fpc EXCEPT ![c] = "idle"] /\ UNCHANGED <<articles, trip, raced>>
    BY <1>1, <1>5 DEF Visit, To
  <2>2. Only(c) /\ fpc'[c] = "idle" /\ trip'[c] = trip[c]
    BY <1>0, <1>2, <2>1, Moves DEF FeedInv, Labels
  <2>3. Fits("idle", trip[c])
    BY <1>3 DEF Fits
  <2>4. TablesFit' /\ GivenFit' /\ ThreadsFit' /\ RacedInv' /\ ErasedInv'
    BY <1>0, <1>1, <2>1, <2>2, <2>3, QuietStep DEF FetchingAt, RemovingAt
  <2> QED
    BY <1>4, <2>4 DEF FeedInv
<1>6. CASE trip[c].todo # <<>>
  <2> DEFINE list == trip[c].todo
             f == Head(list).feed
             rest == Tail(list)
             j == [trip[c] EXCEPT !.todo = rest, !.feed = f]
  <2>1. /\ trip' = [trip EXCEPT ![c].todo = Tail(@), ![c].feed = f]
        /\ \/ UNCHANGED <<fpc, articles, raced>>
           \/ fpc' = [fpc EXCEPT ![c] = "row"] /\ DropArticles({f})
    BY <1>1, <1>6 DEF Visit, To
  <2>2. Head(list) \in Copies /\ rest \in Seq(Copies)
    BY <1>3, <1>6
  <2>3. f \in Feeds /\ rest \in Seq(BOOLEAN \union Feeds \union Copies)
    BY <2>2, TodoSeqs DEF Copies
  <2>4. trip' = [trip EXCEPT ![c] = j]
    BY <1>0, <1>2, <2>1
  <2> HIDE DEF f, rest
  <2>5. j \in Trips /\ j.todo = rest /\ j.feed = f /\ j.task = trip[c].task
    BY <1>2, <2>3 DEF Trips
  <2> HIDE DEF j
  <2>6. Fits("row", j) /\ Fits("probe", j) /\ Fits("weed", j)
    BY <1>3, <2>2, <2>3, <2>5 DEF Fits
  <2>7. CASE UNCHANGED <<fpc, articles, raced>>
    <3>1. fpc[c] \in Labels /\ fpc' = fpc
      BY <1>0, <1>2, <2>7
    <3>2. Only(c) /\ fpc'[c] = fpc[c] /\ trip'[c] = j
      BY <1>0, <2>4, <2>5, <3>1, Moves DEF FeedInv
    <3>3. Fits(fpc'[c], j)
      BY <1>1, <2>6, <3>2
    <3>4. TablesFit' /\ GivenFit' /\ ThreadsFit' /\ RacedInv' /\ ErasedInv'
      BY <1>0, <1>1, <2>7, <3>2, <3>3, QuietStep DEF FetchingAt, RemovingAt
    <3> QED
      BY <1>4, <3>4 DEF FeedInv
  <2>8. CASE fpc' = [fpc EXCEPT ![c] = "row"] /\ DropArticles({f})
    <3>1. Only(c) /\ fpc'[c] = "row" /\ trip'[c] = j
      BY <1>0, <2>4, <2>5, <2>8, Moves DEF FeedInv, Labels
    <3>2. /\ TablesFit' /\ GivenFit'
          /\ \A i \in DOMAIN articles' : /\ i \in DOMAIN articles /\ articles'[i] = articles[i]
                                         /\ articles'[i].feed \notin {f}
          /\ raced' = raced \union {g \in {f} : Fetching(g)}
      BY <1>1, <2>8, ArticlesDropped DEF FeedInv
    <3>3. ThreadsFit'
      BY <1>0, <2>6, <3>1, ThreadsKept DEF FeedInv
    <3>4. RacedInv'
      <4>1. \A g : ~FetchingAt(c, g)' /\ (RemovingAt(c, g)' => g = f)
        BY <2>5, <3>1 DEF FetchingAt, RemovingAt
      <4>2. (Fetching(f) => f \in raced') /\ raced \subseteq raced'
        BY <3>2
      <4> QED
        BY <1>0, <1>1, <3>1, <3>2, <4>1, <4>2, RacedKept DEF FeedInv
    <3>5. ErasedInv'
      <4>1. \A g : Grading(g)' => Grading(g)
        BY <1>0, <1>1, <3>1, GradingKept
      <4> QED
        BY <1>1, <4>1, ErasedKept DEF FeedInv
    <3> QED
      BY <1>4, <3>2, <3>3, <3>4, <3>5 DEF FeedInv
  <2> QED
    BY <2>1, <2>7, <2>8
<1> QED
  BY <1>5, <1>6

\* A rating begins with a copy of the sources.
LEMMA RateKeeps ==
  ASSUME FeedInv, NEW c \in Clients, Rate(c)
  PROVE  FeedInv'
<1>1. PICK list \in SetToSeqs(DOMAIN feeds) :
        rating' = [i \in DOMAIN list |-> [feed |-> list[i], row |-> feeds[list[i]]]]
  BY DEF Rate
<1>2. Errand(c, "rate") /\ UNCHANGED <<feedTables, fpc, trip, listed, feedHistory>>
  BY DEF Rate
<1>3. c \in Threads /\ c \notin Raters /\ fpc[c] = "idle" /\ ClientsFit'
  BY <1>2, ErrandBegins DEF Errands
<1>4. Only(c) /\ fpc'[c] = "idle" /\ trip'[c] = trip[c] /\ ThreadsFit'
  BY <1>2, <1>3, Waits DEF FeedInv
<1>5. rating' \in Seq(Copies) /\ \A i \in DOMAIN list : list[i] \in DOMAIN feeds
  BY <1>1, CopyOfFeeds DEF FeedInv
<1>6. TablesFit' /\ GivenFit' /\ RatingFits'
  BY <1>2, <1>5 DEF FeedInv, TablesFit, GivenFit, RatingFits, feedTables, feedHistory
<1>7. RacedInv'
  <2>1. \A f : ~FetchingAt(c, f)' /\ ~RemovingAt(c, f)'
    BY <1>4 DEF FetchingAt, RemovingAt
  <2> QED
    BY <1>2, <1>3, <1>4, <2>1, RacedKept DEF FeedInv, feedTables, feedHistory
<1>8. ErasedInv'
  <2>1. \A f : Grading(f)' => Grading(f) \/ f \in DOMAIN feeds
    <3> SUFFICES ASSUME NEW f, Grading(f)' PROVE Grading(f) \/ f \in DOMAIN feeds
      OBVIOUS
    <3>1. CASE \E k \in DOMAIN rating' : rating'[k].feed = f
      BY <1>1, <1>5, <3>1
    <3>2. CASE \E u \in Raters : fpc'[u] # "idle" /\ trip'[u].feed = f
      BY <1>2, <3>2 DEF Grading
    <3> QED
      BY <3>1, <3>2 DEF Grading
  <2> QED
    BY <1>2, <2>1, ErasedKept DEF FeedInv, feedTables, feedHistory
<1> QED
  BY <1>3, <1>4, <1>6, <1>7, <1>8 DEF FeedInv

\* A thread of the rating takes the next source.
LEMMA ClaimFeedKeeps ==
  ASSUME FeedInv, NEW t \in Raters, ClaimFeed(t)
  PROVE  FeedInv'
<1>0. t \in Threads
  BY DEF Threads
<1> DEFINE next == Head(rating)
           mine == [NoTrip EXCEPT !.task = "rate", !.feed = next.feed, !.row = next.row]
<1>1. /\ fpc[t] = "idle" /\ rating # <<>> /\ rating' = Tail(rating)
      /\ fpc' = [fpc EXCEPT ![t] = "channel"]
      /\ UNCHANGED <<feedTables, listed, errands, feedHistory>>
  BY DEF ClaimFeed, To
<1>2. PICK j \in {mine} \union Pipelines(mine, next.row) : trip' = [trip EXCEPT ![t] = j]
  BY DEF ClaimFeed
<1>3. rating \in Seq(Copies)
  BY DEF FeedInv, RatingFits
<1>4. next \in Copies /\ rating' \in Seq(Copies) /\ \E k \in DOMAIN rating : rating[k] = next
  <2>1. Head(rating) = rating[1] /\ 1 \in DOMAIN rating
    BY <1>1, <1>3
  <2> QED
    BY <1>1, <1>3, <2>1
<1>5. \A k \in DOMAIN rating' : \E i \in DOMAIN rating : rating[i] = rating'[k]
  <2>1. /\ DOMAIN rating = 1 .. Len(rating) /\ Len(rating) \in Nat \ {0}
        /\ DOMAIN rating' = 1 .. Len(rating) - 1
        /\ \A k \in 1 .. Len(rating) - 1 : rating'[k] = rating[k + 1]
    BY <1>1, <1>3
  <2>2. \A k \in DOMAIN rating' : k + 1 \in DOMAIN rating
    BY <2>1
  <2> QED
    BY <2>1, <2>2
<1> HIDE DEF next
<1>6. mine \in Trips /\ mine.found = <<>> /\ mine.offered = <<>> /\ mine.todo = <<>>
      /\ mine.task = "rate" /\ mine.feed = next.feed
  <2>1. next.feed \in Feeds /\ next.row \in FeedRows
    BY <1>4 DEF Copies
  <2>2. "rate" \in Errands
    BY DEF Errands
  <2>3. NoTrip.found = <<>> /\ NoTrip.offered = <<>> /\ NoTrip.todo = <<>>
    BY DEF NoTrip
  <2> HIDE DEF NoTrip
  <2> QED
    BY <2>1, <2>2, <2>3, TripsBegin DEF Trips
<1> DEFINE todo == ChannelsOf(next.row)
<1>7. todo \in Seq(BOOLEAN) /\ todo \in Seq(BOOLEAN \union Feeds \union Copies)
  <2>1. <<FALSE>> \in Seq(BOOLEAN)
    OBVIOUS
  <2>2. todo \in Seq(BOOLEAN)
    BY <2>1, FeedFacts DEF ChannelsOf
  <2> QED
    BY <2>2, TodoSeqs
<1>8. j = mine \/ \E failed \in BOOLEAN : j = [mine EXCEPT !.row = next.row, !.todo = todo, !.jsError = failed]
  BY <1>2 DEF Pipelines
<1>9. next.row \in FeedRows /\ next.feed \in Feeds
  BY <1>4 DEF Copies
<1> HIDE DEF mine, todo
<1>10. /\ j \in Trips /\ j.found = <<>> /\ j.offered = <<>> /\ j.todo \in Seq(BOOLEAN)
       /\ j.task = "rate" /\ j.feed = next.feed
  <2>1. CASE j = mine
    <3>1. <<>> \in Seq(BOOLEAN)
      BY EmptySeq
    <3> QED
      BY <1>6, <2>1, <3>1
  <2>2. CASE j # mine
    <3>1. PICK failed \in BOOLEAN : j = [mine EXCEPT !.row = next.row, !.todo = todo, !.jsError = failed]
      BY <1>8, <2>2
    <3> QED
      BY <1>6, <1>7, <1>9, <3>1 DEF Trips
  <2> QED
    BY <2>1, <2>2
<1>11. Fits("channel", j)
  <2>1. j.found \in Seq(Picked) /\ PlacesInOrder(j.found)
    BY <1>10 DEF PlacesInOrder
  <2>2. AllArrived(j)
    BY <1>10 DEF AllArrived
  <2> QED
    BY <1>9, <1>10, <2>1, <2>2 DEF Fits
<1>12. Only(t) /\ fpc'[t] = "channel" /\ trip'[t] = j
  BY <1>0, <1>1, <1>2, <1>10, Moves DEF FeedInv, Labels
<1>13. ThreadsFit' /\ RatingFits'
  BY <1>0, <1>4, <1>11, <1>12, ThreadsKept DEF FeedInv, RatingFits
<1>14. TablesFit' /\ GivenFit' /\ ClientsFit'
  BY <1>1 DEF FeedInv, TablesFit, GivenFit, ClientsFit, feedTables, feedHistory
<1>15. RacedInv'
  <2>1. \A f : ~FetchingAt(t, f)' /\ ~RemovingAt(t, f)'
    BY <1>10, <1>12 DEF FetchingAt, RemovingAt
  <2> QED
    BY <1>0, <1>1, <1>12, <2>1, RacedKept DEF FeedInv, feedTables, feedHistory
<1>16. ErasedInv'
  <2>1. \A f : Grading(f)' => Grading(f)
    <3> SUFFICES ASSUME NEW f, Grading(f)' PROVE Grading(f)
      OBVIOUS
    <3>1. CASE \E k \in DOMAIN rating' : rating'[k].feed = f
      BY <1>5, <3>1 DEF Grading
    <3>2. CASE \E u \in Raters : fpc'[u] # "idle" /\ trip'[u].feed = f
      <4>1. PICK u \in Raters : fpc'[u] # "idle" /\ trip'[u].feed = f
        BY <3>2
      <4>2. CASE u = t
        BY <1>4, <1>10, <1>12, <4>1, <4>2 DEF Grading
      <4>3. CASE u # t
        BY <1>12, <4>1, <4>3 DEF Only, Grading, Threads
      <4> QED
        BY <4>2, <4>3
    <3> QED
      BY <3>1, <3>2 DEF Grading
  <2> QED
    BY <1>1, <2>1, ErasedKept DEF FeedInv, feedTables, feedHistory
<1> QED
  BY <1>13, <1>14, <1>15, <1>16 DEF FeedInv

\* A grade is written.
LEMMA WriteGradeKeeps ==
  ASSUME FeedInv, NEW t \in Raters, WriteGrade(t)
  PROVE  FeedInv'
<1>0. t \in Threads
  BY DEF Threads
<1>1. /\ fpc[t] = "grade" /\ trip' = [trip EXCEPT ![t] = NoTrip] /\ fpc' = [fpc EXCEPT ![t] = "idle"]
      /\ UNCHANGED <<articles, nextId, listed, rating, errands, feedHistory>>
  BY DEF WriteGrade, To
<1>2. PICK g \in FeedGrades : PutFeed(trip[t].feed, [trip[t].row EXCEPT !.grade = g])
  BY DEF WriteGrade, FeedGrades
<1>3. trip[t] \in Trips /\ Fits("grade", trip[t])
  BY <1>0, <1>1 DEF FeedInv, ThreadsFit
<1> DEFINE f == trip[t].feed
           row == [trip[t].row EXCEPT !.grade = g]
<1>4. f \in Feeds /\ row \in FeedRows
  <2>1. trip[t].row \in FeedRows
    BY <1>3 DEF Trips
  <2> QED
    BY <1>3, <2>1 DEF Fits, FeedRows
<1>5. PutFeed(f, row)
  BY <1>2
<1> HIDE DEF row
<1>6. DOMAIN feeds' = DOMAIN feeds \union {f} /\ TablesFit'
  BY <1>1, <1>4, <1>5, FeedPut DEF FeedInv
<1>7. Only(t) /\ fpc'[t] = "idle" /\ trip'[t] = NoTrip
  BY <1>0, <1>1, TripsBegin, Moves DEF FeedInv, Labels
<1>8. Fits("idle", NoTrip)
  BY DEF Fits, NoTrip, NoFeed
<1>9. ThreadsFit' /\ GivenFit' /\ RatingFits' /\ ClientsFit'
  BY <1>0, <1>1, <1>7, <1>8, ThreadsKept DEF FeedInv, GivenFit, RatingFits, ClientsFit, feedHistory
<1>10. RacedInv'
  <2>1. \A h : ~FetchingAt(t, h)' /\ ~RemovingAt(t, h)'
    BY <1>7 DEF FetchingAt, RemovingAt
  <2> QED
    BY <1>0, <1>1, <1>6, <1>7, <2>1, RacedKept DEF FeedInv, feedHistory
<1>11. ErasedInv'
  <2>1. \A h : Grading(h)' => Grading(h)
    BY <1>0, <1>1, <1>7, GradingKept
  <2>2. Grading(f)
    BY <1>1 DEF Grading
  <2>3. \A h \in DOMAIN feeds' : h \in DOMAIN feeds \/ Grading(h)
    BY <1>6, <2>2
  <2> QED
    BY <1>1, <2>1, <2>3, ErasedKept DEF FeedInv, feedHistory
<1> QED
  BY <1>6, <1>9, <1>10, <1>11 DEF FeedInv

-----------------------------------------------------------------------------

\* Every step of a client, and of a rating, keeps all of it.
LEMMA FeedKeeps ==
  ASSUME FeedInv, FeedNext
  PROVE  FeedInv'
<1>0. Clients \subseteq Threads /\ Raters \subseteq Threads
  BY DEF Threads
<1>1. ASSUME NEW c \in Clients,
             \/ PostFeed(c) \/ ImportFeeds(c) \/ AddFeed(c)
             \/ RemoveFeed(c) \/ RemoveRow(c) \/ ClearFeeds(c) \/ ClearRows(c)
             \/ CheckFeeds(c) \/ Probe(c) \/ SweepFeeds(c) \/ Weed(c)
      PROVE  FeedInv'
  BY <1>1, PostFeedKeeps, ImportFeedsKeeps, AddFeedKeeps, RemoveFeedKeeps, RemoveRowKeeps,
     CopyFeedsKeeps, VisitKeeps
<1>2. ASSUME NEW c \in Clients,
             \/ FetchFeed(c) \/ ReadFeed(c) \/ Channel(c) \/ Collected(c) \/ StoreArticles(c) \/ Stamp(c)
             \/ Rate(c)
             \/ LoadArticles(c) \/ List(c) \/ OpenArticle(c) \/ ReadArticle(c) \/ ReadOrigin(c)
             \/ LoadContent(c)
      PROVE  FeedInv'
  BY <1>0, <1>2, FetchFeedKeeps, ReadFeedKeeps, ChannelKeeps, CollectedKeeps, StoreArticlesKeeps,
     StampKeeps, RateKeeps, ListKeeps, OpenArticleKeeps, ReadArticleKeeps
<1>3. ASSUME NEW t \in Raters,
             ClaimFeed(t) \/ Channel(t) \/ Collected(t) \/ Sample(t) \/ WriteGrade(t)
      PROVE  FeedInv'
  BY <1>0, <1>3, ClaimFeedKeeps, ChannelKeeps, CollectedKeeps, WriteGradeKeeps
<1> QED
  BY <1>1, <1>2, <1>3 DEF FeedNext

\* Nothing of the feeds changes by itself.
LEMMA FeedWaits ==
  ASSUME FeedInv, UNCHANGED feedVars
  PROVE  FeedInv'
<1>1. UNCHANGED <<feeds, articles, nextId, fpc, trip, listed, rating, errands, given, raced, erased, rerated>>
  BY DEF feedVars, feedTables, feedHistory
<1>2. TablesFit' /\ GivenFit' /\ ThreadsFit' /\ RatingFits' /\ ClientsFit'
  BY <1>1 DEF FeedInv, TablesFit, GivenFit, ThreadsFit, RatingFits, ClientsFit
<1>3. RacedInv' /\ ErasedInv'
  BY <1>1 DEF FeedInv, RacedInv, ErasedInv, Fetching, Removing, Grading
<1> QED
  BY <1>2, <1>3 DEF FeedInv

\* The feeds at first.
LEMMA FeedBegins ==
  ASSUME NEW outing \in [Clients -> [Errands -> Nat]], FeedStart(outing)
  PROVE  FeedInv
<1>1. /\ feeds \in [Feeds -> {Whole}] /\ articles = <<>> /\ nextId = 1
      /\ fpc = [t \in Threads |-> "idle"]
      /\ trip = [t \in Threads |-> NoTrip]
      /\ listed = [c \in Clients |-> <<>>]
      /\ rating = <<>>
      /\ errands = outing
      /\ given = {} /\ raced = {} /\ erased = {} /\ rerated = {}
  BY DEF FeedStart, Threads
<1>2. TablesFit
  <2>1. DOMAIN feeds = Feeds /\ \A f \in Feeds : feeds[f] \in FeedRows
    BY <1>1, TripsBegin
  <2>2. \A i \in DOMAIN articles : FALSE
    BY <1>1
  <2> QED
    BY <1>1, <2>1, <2>2 DEF TablesFit
<1>3. GivenFit /\ RatingFits
  BY <1>1 DEF GivenFit, RatingFits
<1>4. ThreadsFit
  <2>1. Fits("idle", NoTrip) /\ "idle" \in Labels
    BY DEF Fits, NoTrip, NoFeed, Labels
  <2> QED
    BY <1>1, <2>1, TripsBegin DEF ThreadsFit
<1>5. ClientsFit
  BY <1>1 DEF ClientsFit
<1>6. RacedInv /\ ErasedInv
  BY <1>1 DEF RacedInv, ErasedInv, Fetching, Removing
<1> QED
  BY <1>2, <1>3, <1>4, <1>5, <1>6 DEF FeedInv

\* What a reader of the feeds may rely on.
LEMMA FeedIsHonest ==
  ASSUME FeedInv
  PROVE  FeedTypeOK /\ FeedRowsAgree /\ ChannelsAreIndependent /\ AnswersAreHonest
<1>1. FeedTypeOK
  <2>1. \A i \in DOMAIN articles : i \in 1 .. nextId - 1 /\ articles[i].feed \in Feeds
    BY DEF FeedInv, TablesFit, Articles
  <2>2. \A t \in DOMAIN trip : trip[t].requests <= MaxRequests + 1
    <3> SUFFICES ASSUME NEW t \in DOMAIN trip PROVE trip[t].requests <= MaxRequests + 1
      OBVIOUS
    <3>1. trip[t] \in Trips
      BY DEF FeedInv, ThreadsFit
    <3>2. trip[t].requests \in 0 .. MaxRequests + 1
      BY <3>1 DEF Trips
    <3> QED
      BY <3>2, FeedFacts
  <2> QED
    BY <2>1, <2>2 DEF FeedInv, TablesFit, ThreadsFit, ClientsFit, FeedTypeOK, Threads, Labels
<1>2. FeedRowsAgree
  BY DEF FeedInv, RacedInv, ErasedInv, GivenFit, FeedRowsAgree
<1>3. ChannelsAreIndependent
  <2> SUFFICES ASSUME NEW t \in DOMAIN trip, fpc[t] \in {"channel", "store", "stamp", "sample", "grade"}
               PROVE  PlacesInOrder(trip[t].found) /\ AllArrived(trip[t])
    BY DEF ChannelsAreIndependent, PlacesInOrder, AllArrived
  <2>1. Fits(fpc[t], trip[t])
    BY DEF FeedInv, ThreadsFit
  <2> QED
    BY <2>1 DEF Fits
<1>4. AnswersAreHonest
  <2> SUFFICES ASSUME NEW c \in Clients, trip[c].task = "open"
               PROVE  trip[c].sound /\ (trip[c].answer.shown = "" => trip[c].answer.error)
    BY DEF AnswersAreHonest
  <2>1. Fits(fpc[c], trip[c])
    BY DEF FeedInv, ThreadsFit, Threads
  <2> QED
    BY <2>1 DEF Fits
<1> QED
  BY <1>1, <1>2, <1>3, <1>4
-----------------------------------------------------------------------------
(* The parts next to each other. *)

ReaderInv == ReadingInv /\ FeedInv /\ WalkInv /\ ViewInv

\* A part begins with its work, or at rest.
LEMMA ReaderBegins == ReaderInit => ReaderInv
<1> SUFFICES ASSUME ReaderInit PROVE ReaderInv
  OBVIOUS
<1>1. ReadingInv
  <2>1. PICK session \in [plan : [Requests -> Nat], stored : Seq(Entries)] : ReadingStart(session)
    <3>1. CASE part = "book"
      BY <3>1, ReadingConstants DEF ReaderInit, ReadingInit
    <3>2. CASE part # "book"
      <4> DEFINE session == [plan |-> [k \in Requests |-> 0], stored |-> <<>>]
      <4>1. ReadingStart(session)
        BY <3>2 DEF ReaderInit, BookAtRest
      <4>2. session \in [plan : [Requests -> Nat], stored : Seq(Entries)]
        OBVIOUS
      <4> HIDE DEF session
      <4> QED
        BY <4>1, <4>2
    <3> QED
      BY <3>1, <3>2
  <2> QED
    BY <2>1, ReadingBegins
<1>2. FeedInv
  <2>1. PICK outing \in [Clients -> [Errands -> Nat]] : FeedStart(outing)
    <3>1. CASE part = "feeds"
      BY <3>1, FeedConstants DEF ReaderInit, FeedInit
    <3>2. CASE part # "feeds"
      <4> DEFINE outing == [c \in Clients |-> [k \in Errands |-> 0]]
      <4>1. FeedStart(outing)
        BY <3>2 DEF ReaderInit, FeedsAtRest
      <4>2. outing \in [Clients -> [Errands -> Nat]]
        OBVIOUS
      <4> HIDE DEF outing
      <4> QED
        BY <4>1, <4>2
    <3> QED
      BY <3>1, <3>2
  <2> QED
    BY <2>1, FeedBegins
<1>3. WalkInv
  <2>1. CASE part = "walk"
    <3>1. PICK s \in Sites : \/ WalkStart(s, TRUE, "search")
                             \/ WalkStart(s, FALSE, "catalog")
                             \/ WalkStart(s, FALSE, "content")
      BY <2>1 DEF ReaderInit, WalkInit
    <3> QED
      BY <3>1, WalkBegins
  <2>2. CASE part # "walk"
    <3> DEFINE s == CHOOSE s \in Sites : TRUE
    <3>1. s \in Sites
      BY WalkConstants
    <3>2. WalkStart(s, FALSE, "done")
      BY <2>2 DEF ReaderInit, WalkAtRest
    <3> HIDE DEF s
    <3> QED
      BY <3>1, <3>2, WalkBegins
  <2> QED
    BY <2>1, <2>2
<1>4. ViewInv
  <2>1. CASE part = "views"
    <3>1. PICK v \in Visits : ViewStart(v)
      BY <2>1 DEF ReaderInit, ViewInit
    <3>2. /\ v.screen \in {"search", "shelf", "reader", "sources", "none"}
          /\ v.clicks \in Seq(Doings)
      BY ViewFacts
    <3> QED
      BY <3>1, <3>2, ViewBegins
  <2>2. CASE part # "views"
    <3> DEFINE v == [screen |-> "none", clicks |-> <<>>]
    <3>1. ViewStart(v)
      BY <2>2 DEF ReaderInit, ViewsAtRest
    <3>2. v.screen = "none" /\ v.clicks \in Seq(Doings)
      OBVIOUS
    <3> HIDE DEF v
    <3> QED
      BY <3>1, <3>2, ViewBegins
  <2> QED
    BY <2>1, <2>2
<1> QED
  BY <1>1, <1>2, <1>3, <1>4 DEF ReaderInv

\* One part takes a step, the others wait.
LEMMA ReaderKeeps == ReaderInv /\ [ReaderNext]_readerVars => ReaderInv'
<1> SUFFICES ASSUME ReaderInv, [ReaderNext]_readerVars PROVE ReaderInv'
  OBVIOUS
<1>1. ReadingNext \/ UNCHANGED readingVars
  BY DEF ReaderNext, readerVars
<1>2. FeedNext \/ UNCHANGED feedVars
  BY DEF ReaderNext, readerVars
<1>3. WalkNext \/ UNCHANGED walkVars
  BY DEF ReaderNext, readerVars
<1>4. ViewNext \/ UNCHANGED viewVars
  BY DEF ReaderNext, readerVars
<1>5. ReadingInv'
  BY <1>1, ReadingKeeps, ReadingWaits DEF ReaderInv
<1>6. FeedInv'
  BY <1>2, FeedKeeps, FeedWaits DEF ReaderInv
<1>7. WalkInv'
  BY <1>3, WalkKeeps, WalkWaits DEF ReaderInv
<1>8. ViewInv'
  BY <1>4, ViewKeeps, ViewWaits DEF ReaderInv
<1> QED
  BY <1>5, <1>6, <1>7, <1>8 DEF ReaderInv

\* The four parts next to each other, always.
LEMMA ReaderInvariant == ReaderSpec => []ReaderInv
  BY ReaderBegins, ReaderKeeps, PTL DEF ReaderSpec

\* Contents are looked up by position alone (engine_core.cpp:1029, engine_export.cpp:71): for
\* any chapters and any catalogs the source may return, as long as these agree, whatever
\* downloads, refreshes, removals and readers do next to each other, what is stored and
\* shown for a chapter is the text of that chapter.
THEOREM TextsAreOfTheirChapters == ReaderSpec => []TextOfItsChapter
<1>1. ReaderInv => TextOfItsChapter
  BY ReadingIsTrue DEF ReaderInv
<1> QED
  BY <1>1, ReaderInvariant, PTL

\* A download (engine_download.cpp:307, types.h:324), with any number of workers and next to
\* any requests: no number is reported twice, no report claims more chapters done than were
\* cached or failed, and in the end every chapter is one or the other; a book said to be
\* full has all its chapters, as long as its catalog is one and nobody deletes contents.
THEOREM DownloadsTellTheTruth == ReaderSpec => []DownloadsAreTrue
<1>1. ReaderInv => DownloadsAreTrue
  BY ReadingIsTrue DEF ReaderInv, DownloadsAreTrue
<1> QED
  BY <1>1, ReaderInvariant, PTL

\* The tables of the feeds (database.cpp:1323), for any feeds and items and any number of
\* clients and raters: only a fetch under way brings articles of a removed feed back, only
\* a rating under way the feed, and an id never changes its link for a client that has it.
THEOREM FeedTablesAgree == ReaderSpec => []FeedRowsAgree
<1>1. ReaderInv => FeedRowsAgree
  BY FeedIsHonest DEF ReaderInv
<1> QED
  BY <1>1, ReaderInvariant, PTL

\* The channels of a feed fail alone, and a reader is told when there is nothing to show
\* (engine_rss.cpp:661, 667).
THEOREM ArticlesAreHonest == ReaderSpec => []ArticlesReachReaders
<1>1. ReaderInv => ArticlesReachReaders
  BY FeedIsHonest DEF ReaderInv, ArticlesReachReaders
<1> QED
  BY <1>1, ReaderInvariant, PTL

\* The walks of getCatalog and getContent (engine_core.cpp:438, 499, 736) lose and repeat
\* nothing on any site, of any number of pages, whatever its pages link to; and a debug
\* session (source_debug.h:27) tells each stage in turn, nothing after its client is gone.
THEOREM PagesStayWhole == ReaderSpec => []PagesAreWhole
<1>1. ReaderInv => PagesAreWhole
  BY WalkIsHonest DEF ReaderInv, PagesAreWhole
<1> QED
  BY <1>1, ReaderInvariant, PTL

\* The screens of the view models (async_command.h, ui_dispatcher.h), for any clicks and any
\* order in which commands and the UI thread take turns: a list of results is that of one
\* search, a shelf that is at rest shows what is in the table, the reader shows the text of
\* the chapter it names, and a validation ends and never claims more than it has done.
THEOREM ScreensTellTheTruth == ReaderSpec => []ScreensAreTrue
<1>1. ReaderInv => ScreensAreTrue
  BY ViewIsTrue DEF ReaderInv
<1> QED
  BY <1>1, ReaderInvariant, PTL

\* Type correctness of the four parts.
THEOREM ReaderTypeCorrect == ReaderSpec => []ReaderTypeOK
<1>1. ReaderInv => ReaderTypeOK
  BY ReadingIsTrue, FeedIsHonest, WalkIsHonest, ViewIsTrue DEF ReaderInv, ReaderTypeOK
<1> QED
  BY <1>1, ReaderInvariant, PTL
=============================================================================
