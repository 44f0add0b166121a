------------------------- MODULE ViewModelsProofs --------------------------
(***************************************************************************)
(* For any clicks on any screen, and any order in which commands and the   *)
(* UI thread take turns: what a screen shows is what its commands found.   *)
(*                                                                         *)
(* The queue of the UI thread is described by what each task in it stands  *)
(* for: how often it can be in the queue, who posted it, what comes before *)
(* it, and what it will do to the screen when it is executed.  An ended    *)
(* task comes after everything its command posted.                         *)
(***************************************************************************)
EXTENDS ViewModels, SequenceTheorems, FiniteSetTheorems, TLAPS

-----------------------------------------------------------------------------
(* A screen. *)

ShelfParts == [book : Books \union {NoBook}, n : Nat]
Counts == [count : Nat, graded : BOOLEAN]
Loaded == [chapter : ShelfParts, index : Nat]
Doings == UNION {ToSet(v.clicks) : v \in Visits}
Wants == {d.of : d \in Doings} \union {<<>>}
Keys == {d.of : d \in {e \in Doings : e.is = "search"}}
Hits == {k[1] : k \in Keys}
Gots == {<<>>} \union Seq(SUBSET Books) \union Seq(ShelfParts) \union Seq(Nat) \union Seq(Counts)
Steps == {"idle", "begun", "asking", "emit", "changed", "read", "sized", "picked", "return",
          "ending"}

EndOf(c) == [is |-> "ended", of |-> <<c>>, got |-> <<>>]
UiTasks ==
    [is : {"clear", "progress", "validated"}, of : {<<>>}, got : {<<>>}]
    \union [is : {"append"}, of : Keys, got : {<<>>}]
    \union {EndOf(c) : c \in Commands}
    \union [is : {"shelf"}, of : {<<>>}, got : Seq(SUBSET Books) \ {<<>>}]
    \union [is : {"catalog"}, of : {<<>>}, got : Seq(ShelfParts)]
    \union [is : {"chapters"}, of : {<<>>}, got : Seq(ShelfParts) \ {<<>>}]
    \union [is : {"content"}, of : {<<>>}, got : Seq(Loaded) \ {<<>>}]
    \union [is : {"sources"}, of : {<<>>}, got : Seq(Counts) \ {<<>>}]

\* Tasks of a kind, tasks in a queue.
Kind(k) == {t \in UiTasks : t.is = k}
None(q, S) == \A i \in DOMAIN q : q[i] \notin S
Once(q, S) == \A i, j \in DOMAIN q : q[i] \in S /\ q[j] \in S => i = j
Ordered(q, S, T) == \A i, j \in DOMAIN q : q[i] \in S /\ q[j] \in T => i < j
Number(q, S) == Cardinality({i \in DOMAIN q : q[i] \in S})

\* Where each command may be.
StepsOf(c) ==
    {"idle", "begun", "return", "ending"} \union
    CASE c = "search" -> {"asking", "emit"}
      [] c \in {"remove", "add", "import", "clear"} -> {"changed", "read"}
      [] c = "content" -> {"sized", "picked"}
      [] OTHER -> {"read"}
Late == {"return", "ending"}

CmdTypes ==
    /\ screen \in {"search", "shelf", "reader", "sources", "none"}
    /\ clicks \in Seq(Doings) /\ ui \in Seq(UiTasks)
    /\ cmd \in [Commands -> [at : Steps, of : Wants, got : Gots]]
    /\ \A c \in Commands : cmd[c].at \in StepsOf(c)

\* A command that has returned has one task in the queue that says so.
EndInv ==
    \A c \in Commands : /\ Once(ui, {EndOf(c)})
                        /\ cmd[c].at = "ending" <=> ~None(ui, {EndOf(c)})

\* The tasks of a search.
SearchInv ==
    LET s == cmd["search"]
        clear == Kind("clear")
        append == Kind("append")
    IN  /\ search \in [cancel : BOOLEAN, left : 0 .. Found, sum : Nat, results : Seq(Hits),
                       total : Nat, late : {0, 1}]
        /\ search.late = 1 => search.cancel /\ s.at # "emit"
        /\ s.at = "emit" => search.left > 0
        /\ s.at # "idle" => s.of \in Keys
        /\ s.at \in {"idle", "begun"} => None(ui, clear) /\ None(ui, append)
        /\ Once(ui, clear) /\ Ordered(ui, clear, append)
        /\ Ordered(ui, clear, {EndOf("search")}) /\ Ordered(ui, append, {EndOf("search")})
        /\ None(ui, {t \in append : t.of # s.of})
        /\ \A i, j \in DOMAIN search.results : search.results[i] = search.results[j]
        /\ s.at \in {"idle", "begun"} => search.total = Len(search.results)
        /\ s.at \notin {"idle", "begun"} =>
             /\ ~None(ui, clear) => Number(ui, append) = search.sum
             /\ None(ui, clear) =>
                  /\ Len(search.results) + Number(ui, append) = search.sum
                  /\ \A k \in DOMAIN search.results : search.results[k] = s.of[1]

\* As long as no two commands of the shelf have overlapped, the rows on their way to the
\* screen are those in the table.
ShelfTypes ==
    /\ shelfView \in [table : SUBSET Books, shown : SUBSET Books, overlap : BOOLEAN]
    /\ \A c \in ShelfCommands : cmd[c].at = "read" => cmd[c].got \in Seq(SUBSET Books) \ {<<>>}
    /\ \A c \in {"add", "remove"} : cmd[c].of \in Seq(Books)

RowsInv ==
    LET shown == Kind("shelf")
    IN  /\ \A c, d \in ShelfCommands : Executing(c) /\ Executing(d) => c = d
        /\ Once(ui, shown) /\ \A c \in ShelfCommands : Ordered(ui, shown, {EndOf(c)})
        /\ ~None(ui, shown) => \E c \in ShelfCommands : cmd[c].at \in Late
        /\ None(ui, {t \in shown : t.got[1] # shelfView.table})
        /\ \A c \in ShelfCommands : cmd[c].at = "read" => cmd[c].got[1] = shelfView.table
        /\ None(ui, shown) /\ (\A c \in ShelfCommands : cmd[c].at \in {"idle"} \union Late)
             => shelfView.shown = shelfView.table

ShelfScreenInv == ShelfTypes /\ (shelfView.overlap \/ RowsInv)

\* As long as the user waits for what a click depends on, the chapters on their way to the
\* screen and on it are those of the book, and a text is that of its chapter.
Holds(list, book, from) == \A k \in DOMAIN list : list[k] = ChapterOf(book, from + k - 1)
ReaderStates ==
    [book : Books \union {NoBook}, chapters : Seq(ShelfParts), index : Nat,
     title : Seq(ShelfParts), text : Seq(ShelfParts),
     saved : Seq([index : Nat, title : Seq(ShelfParts)]),
     asked : Seq([book : Books \union {NoBook}, chapter : ShelfParts]), mixed : BOOLEAN]
ReaderTypes ==
    /\ reader \in ReaderStates
    /\ cmd["catalog"].at = "read" => cmd["catalog"].got \in Seq(ShelfParts)
    /\ Executing("content") => cmd["content"].of[1] \in Nat
    /\ cmd["content"].at = "picked" => cmd["content"].got \in Seq(ShelfParts) \ {<<>>}
    /\ cmd["save"].at = "read" => cmd["save"].got \in Seq(Nat) \ {<<>>}

CatalogInv ==
    LET c == cmd["catalog"]
        whole == Kind("catalog")
        rest == Kind("chapters")
    IN  /\ Once(ui, whole \union rest) /\ Ordered(ui, whole \union rest, {EndOf("catalog")})
        /\ ~None(ui, whole \union rest) => c.at \in Late
        /\ None(ui, {t \in whole : ~Holds(t.got, reader.book, 0)})
        /\ None(ui, {t \in rest : ~Holds(t.got, reader.book, Len(reader.chapters))})
        /\ c.at = "read" => Holds(c.got, reader.book, 0)
        /\ None(ui, whole) /\ c.at \in {"idle"} \union Late => Holds(reader.chapters, reader.book, 0)

TitleInv ==
    LET c == cmd["content"]
        text == Kind("content")
    IN  /\ Executing("content") => ~Executing("catalog") /\ ~Executing("save")
        /\ c.at = "picked" => c.got[1] = ChapterOf(reader.book, c.of[1])
        /\ Ordered(ui, text, {EndOf("content")})
        /\ ~None(ui, text) => c.at \in Late
        /\ None(ui, {t \in text : t.got[1].chapter.n # t.got[1].index})
        /\ reader.title # <<>> => reader.title[1].n = reader.index
        /\ cmd["save"].at = "read" => cmd["save"].got[1] = reader.index
        /\ \A k \in DOMAIN reader.asked : reader.asked[k].book = reader.asked[k].chapter.book
        /\ \A k \in DOMAIN reader.saved : LET s == reader.saved[k] IN
                s.title # <<>> => Head(s.title).n = s.index

ReaderScreenInv ==
    ReaderTypes /\ reader.text = reader.title /\ (reader.mixed \/ (CatalogInv /\ TitleInv))

\* A validation is over when its last task is taken; until then, and as long as no two
\* commands have overlapped, the list on its way to the screen is the engine's.
ManagerStates ==
    [list : 0 .. Grades, graded : BOOLEAN, shown : Counts, validating : BOOLEAN, done : Nat, all : Nat,
     left : 0 .. Grades, blocked : BOOLEAN, cancelled : BOOLEAN, stale : BOOLEAN, overlap : BOOLEAN]
ManagerTypes ==
    /\ manager \in ManagerStates
    /\ \A c \in ManagerCommands : cmd[c].at = "read" => cmd[c].got \in Seq(Counts) \ {<<>>}

GradingInv ==
    LET over == Kind("validated")
        graded == Kind("progress")
    IN  /\ manager.validating <=> manager.blocked \/ ~None(ui, over)
        /\ manager.blocked => None(ui, over)
        /\ Once(ui, over) /\ Ordered(ui, graded, over)
        /\ ~None(ui, graded) => manager.validating
        /\ manager.stale \/ manager.done + Number(ui, graded) + manager.left <= manager.all

Now == [count |-> manager.list, graded |-> manager.graded]
ListInv ==
    LET shown == Kind("sources")
    IN  /\ \A c, d \in ManagerCommands : Executing(c) /\ Executing(d) => c = d
        /\ Once(ui, shown) /\ \A c \in ManagerCommands : Ordered(ui, shown, {EndOf(c)})
        /\ ~None(ui, shown) => \E c \in ManagerCommands : cmd[c].at \in Late
        /\ manager.validating \/
            /\ None(ui, {t \in shown : t.got[1] # Now})
            /\ \A c \in ManagerCommands : cmd[c].at = "read" => cmd[c].got[1] = Now
            /\ None(ui, shown) /\ (\A c \in ManagerCommands : cmd[c].at \in {"idle"} \union Late)
                 => manager.shown = Now

ManagerInv == ManagerTypes /\ GradingInv /\ (manager.overlap \/ ListInv)

ViewInv == CmdTypes /\ EndInv /\ SearchInv /\ ShelfScreenInv /\ ReaderScreenInv /\ ManagerInv

\* A task that is posted.
Added(q, t, r) ==
    /\ r \in Seq(UiTasks)
    /\ \A S : None(r, S) <=> None(q, S) /\ t \notin S
    /\ \A S : Once(q, S) /\ (t \notin S \/ None(q, S)) => Once(r, S)
    /\ \A S, T : Ordered(q, S, T) /\ (t \notin S \/ (None(q, T) /\ t \notin T)) => Ordered(r, S, T)
    /\ \A S : Number(q, S) \in Nat /\ Number(r, S) = Number(q, S) + (IF t \in S THEN 1 ELSE 0)

\* A task is added at the end of the queue.
LEMMA AddFacts ==
  ASSUME NEW q \in Seq(UiTasks), NEW t \in UiTasks, NEW r, r = Append(q, t)
  PROVE  Added(q, t, r)
<1>1. /\ r \in Seq(UiTasks) /\ Len(r) = Len(q) + 1 /\ Len(q) \in Nat
      /\ \A i \in 1 .. Len(q) : r[i] = q[i]
      /\ r[Len(q) + 1] = t
  BY AppendProperties
<1>2. /\ DOMAIN r = DOMAIN q \union {Len(q) + 1} /\ Len(q) + 1 \notin DOMAIN q
      /\ \A i \in DOMAIN q : r[i] = q[i] /\ i < Len(q) + 1
  BY <1>1
<1>3. ASSUME NEW S PROVE None(r, S) <=> None(q, S) /\ t \notin S
  BY <1>1, <1>2 DEF None
<1>4. ASSUME NEW S, Once(q, S), t \notin S \/ None(q, S) PROVE Once(r, S)
  BY <1>1, <1>2, <1>4 DEF None, Once
<1>5. ASSUME NEW S, NEW T, Ordered(q, S, T), t \notin S \/ (None(q, T) /\ t \notin T)
      PROVE  Ordered(r, S, T)
  <2> SUFFICES ASSUME NEW i \in DOMAIN r, NEW j \in DOMAIN r, r[i] \in S, r[j] \in T PROVE i < j
    BY DEF Ordered
  <2>1. CASE i \in DOMAIN q /\ j \in DOMAIN q
    BY <1>2, <1>5, <2>1 DEF Ordered
  <2>2. CASE i \in DOMAIN q /\ j = Len(q) + 1
    BY <1>2, <2>2
  <2>3. CASE i = Len(q) + 1
    <3>1. None(q, T) /\ t \notin T
      BY <1>1, <1>5, <2>3
    <3> QED
      BY <1>1, <1>2, <3>1 DEF None
  <2> QED
    BY <1>2, <2>1, <2>2, <2>3
<1>6. ASSUME NEW S
      PROVE  Number(q, S) \in Nat /\ Number(r, S) = Number(q, S) + (IF t \in S THEN 1 ELSE 0)
  <2> DEFINE old == {i \in DOMAIN q : q[i] \in S}
  <2>1. IsFiniteSet(old) /\ Cardinality(old) \in Nat
    <3>1. IsFiniteSet(1 .. Len(q))
      BY <1>1, FS_Interval
    <3>2. old \subseteq 1 .. Len(q)
      BY <1>1
    <3> HIDE DEF old
    <3> QED
      BY <3>1, <3>2, FS_Subset, FS_CardinalityType
  <2>2. {i \in DOMAIN r : r[i] \in S} = IF t \in S THEN old \union {Len(q) + 1} ELSE old
    BY <1>1, <1>2
  <2>3. Len(q) + 1 \notin old
    BY <1>2
  <2>4. Number(q, S) = Cardinality(old)
    BY DEF Number
  <2>5. Number(r, S) = Cardinality({i \in DOMAIN r : r[i] \in S})
    BY DEF Number
  <2> HIDE DEF old
  <2>6. CASE t \in S
    <3>1. Cardinality(old \union {Len(q) + 1}) = Cardinality(old) + 1
      BY <2>1, <2>3, FS_AddElement
    <3>2. Number(r, S) = Cardinality(old \union {Len(q) + 1})
      BY <2>2, <2>5, <2>6, Zenon
    <3> QED
      BY <2>1, <2>4, <2>6, <3>1, <3>2
  <2>7. CASE t \notin S
    <3>1. Number(r, S) = Cardinality(old)
      BY <2>2, <2>5, <2>7, Zenon
    <3> QED
      BY <2>1, <2>4, <2>7, <3>1
  <2> QED
    BY <2>6, <2>7
<1> QED
  BY <1>1, <1>3, <1>4, <1>5, <1>6 DEF Added

\* A task that is taken.
Taken(q, t, r) ==
    /\ r \in Seq(UiTasks) /\ t \in UiTasks
    /\ \A S : None(q, S) <=> None(r, S) /\ t \notin S
    /\ \A S : Once(q, S) => Once(r, S) /\ (t \in S => None(r, S))
    /\ \A S, T : Ordered(q, S, T) => Ordered(r, S, T) /\ (t \in T => None(q, S))
    /\ \A S : Number(r, S) \in Nat /\ Number(q, S) = Number(r, S) + (IF t \in S THEN 1 ELSE 0)

\* The first task is taken from the queue.
LEMMA DropFacts ==
  ASSUME NEW q \in Seq(UiTasks), q # <<>>, NEW r, r = Tail(q), NEW t, t = Head(q)
  PROVE  Taken(q, t, r)
<1>1. /\ r \in Seq(UiTasks) /\ Len(r) = Len(q) - 1 /\ Len(q) \in Nat \ {0} /\ Len(r) \in Nat
      /\ \A i \in 1 .. Len(r) : r[i] = q[i + 1]
      /\ t = q[1] /\ t \in UiTasks
  BY HeadTailProperties
<1>2. /\ \A i \in DOMAIN r : i \in Int /\ i + 1 \in DOMAIN q /\ i + 1 # 1 /\ r[i] = q[i + 1]
      /\ 1 \in DOMAIN q
      /\ \A i \in DOMAIN q : i = 1 \/ (i - 1 \in DOMAIN r /\ (i - 1) + 1 = i)
  BY <1>1
<1>3. ASSUME NEW S PROVE None(q, S) <=> None(r, S) /\ t \notin S
  <2>1. ASSUME None(q, S) PROVE None(r, S) /\ t \notin S
    BY <1>1, <1>2, <2>1 DEF None
  <2>2. ASSUME None(r, S), t \notin S PROVE None(q, S)
    <3> SUFFICES ASSUME NEW i \in DOMAIN q PROVE q[i] \notin S
      BY DEF None
    <3>1. CASE i = 1
      BY <1>1, <2>2, <3>1
    <3>2. CASE i # 1
      <4>1. i - 1 \in DOMAIN r /\ r[i - 1] = q[i]
        BY <1>2, <3>2
      <4> QED
        BY <2>2, <4>1 DEF None
    <3> QED
      BY <3>1, <3>2
  <2> QED
    BY <2>1, <2>2
<1>4. ASSUME NEW S, Once(q, S) PROVE Once(r, S) /\ (t \in S => None(r, S))
  <2>1. ASSUME NEW i \in DOMAIN r, NEW j \in DOMAIN r, r[i] \in S, r[j] \in S PROVE i = j
    <3>1. i + 1 = j + 1
      BY <1>2, <1>4, <2>1 DEF Once
    <3> QED
      BY <3>1, <1>2
  <2>2. ASSUME t \in S, NEW i \in DOMAIN r PROVE r[i] \notin S
    BY <1>1, <1>2, <1>4, <2>2 DEF Once
  <2> QED
    BY <2>1, <2>2 DEF Once, None
<1>5. ASSUME NEW S, NEW T, Ordered(q, S, T)
      PROVE  Ordered(r, S, T) /\ (t \in T => None(q, S))
  <2>1. ASSUME NEW i \in DOMAIN r, NEW j \in DOMAIN r, r[i] \in S, r[j] \in T PROVE i < j
    <3>1. i + 1 < j + 1
      BY <1>2, <1>5, <2>1 DEF Ordered
    <3> QED
      BY <3>1, <1>2
  <2>2. ASSUME t \in T, NEW i \in DOMAIN q PROVE q[i] \notin S
    BY <1>1, <1>2, <1>5, <2>2 DEF Ordered
  <2> QED
    BY <2>1, <2>2 DEF Ordered, None
<1>6. ASSUME NEW S
      PROVE  Number(r, S) \in Nat /\ Number(q, S) = Number(r, S) + (IF t \in S THEN 1 ELSE 0)
  <2> DEFINE new == {i \in DOMAIN r : r[i] \in S}
             old == {i \in DOMAIN q : q[i] \in S}
             rest == old \ {1}
             f == [i \in new |-> i + 1]
  <2>1. IsFiniteSet(new) /\ Cardinality(new) \in Nat
    <3>1. IsFiniteSet(1 .. Len(r))
      BY <1>1, FS_Interval
    <3>2. new \subseteq 1 .. Len(r)
      BY <1>1
    <3> HIDE DEF new
    <3> QED
      BY <3>1, <3>2, FS_Subset, FS_CardinalityType
  <2>2. \A i \in new : i \in Int /\ i + 1 \in rest
    BY <1>2
  <2>3. \A j \in rest : j \in Int /\ j - 1 \in new /\ (j - 1) + 1 = j
    BY <1>1, <1>2
  <2>4. f \in Bijection(new, rest)
    <3> HIDE DEF new, rest
    <3>1. f \in [new -> rest] /\ \A i \in new : f[i] = i + 1
      BY <2>2
    <3>2. \A i, j \in new : f[i] = f[j] => i = j
      BY <3>1, <2>2
    <3>3. \A j \in rest : \E i \in new : f[i] = j
      BY <3>1, <2>3
    <3> QED
      BY <3>1, <3>2, <3>3, Zenon DEF Bijection, Injection, Surjection, IsInjective
  <2>5. IsFiniteSet(rest) /\ Cardinality(rest) = Cardinality(new)
    <3>1. ExistsBijection(new, rest)
      BY <2>4 DEF ExistsBijection
    <3> HIDE DEF new, rest, f
    <3> QED
      BY <2>1, <3>1, FS_Bijection
  <2>6. old = IF t \in S THEN rest \union {1} ELSE rest
    BY <1>1
  <2>7. 1 \notin rest /\ Number(q, S) = Cardinality(old) /\ Number(r, S) = Cardinality(new)
    BY DEF Number
  <2> HIDE DEF new, old, rest, f
  <2>8. CASE t \in S
    <3>1. Cardinality(rest \union {1}) = Cardinality(rest) + 1
      BY <2>5, <2>7, FS_AddElement
    <3>2. Number(q, S) = Cardinality(rest \union {1})
      BY <2>6, <2>7, <2>8, Zenon
    <3> QED
      BY <2>1, <2>5, <2>7, <2>8, <3>1, <3>2
  <2>9. CASE t \notin S
    <3>1. Number(q, S) = Cardinality(rest)
      BY <2>6, <2>7, <2>9, Zenon
    <3> QED
      BY <2>1, <2>5, <2>7, <2>9, <3>1
  <2> QED
    BY <2>8, <2>9
<1> QED
  BY <1>1, <1>3, <1>4, <1>5, <1>6 DEF Taken

\* Nothing in it, nothing to count.
LEMMA NoneCounted ==
  ASSUME NEW q, NEW S, None(q, S)
  PROVE  Number(q, S) = 0
<1>1. {i \in DOMAIN q : q[i] \in S} = {}
  BY DEF None
<1> QED
  BY <1>1, FS_EmptySet DEF Number

\* The head of a queue is replaced.
Turned(q, t, u, r) ==
    /\ r \in Seq(UiTasks)
    /\ \A S : None(q, S) /\ u \notin S => None(r, S)
    /\ \A S : Once(q, S) /\ (t \in S \/ u \notin S) => Once(r, S)
    /\ \A S : Once(q, S) /\ t \in S /\ u \notin S => None(r, S)
    /\ \A S, T : Ordered(q, S, T) /\ u \notin T => Ordered(r, S, T)
    /\ \A S : t \notin S /\ u \notin S => /\ None(r, S) <=> None(q, S)
                                          /\ Number(r, S) = Number(q, S)

\* The first task of the queue is replaced by another one.
LEMMA TurnFacts ==
  ASSUME NEW q \in Seq(UiTasks), q # <<>>, NEW u \in UiTasks, NEW r, r = <<u>> \o Tail(q),
         NEW t, t = Head(q)
  PROVE  Turned(q, t, u, r)
<1>1. /\ Tail(q) \in Seq(UiTasks) /\ Len(Tail(q)) = Len(q) - 1 /\ Len(q) \in Nat \ {0}
      /\ \A i \in 1 .. Len(q) - 1 : Tail(q)[i] = q[i + 1]
      /\ t = q[1]
  BY HeadTailProperties
<1>2. <<u>> \in Seq(UiTasks) /\ Len(<<u>>) = 1 /\ <<u>>[1] = u
  OBVIOUS
<1>3. /\ r \in Seq(UiTasks) /\ Len(r) = 1 + Len(Tail(q))
      /\ \A i \in 1 .. 1 + Len(Tail(q)) : r[i] = IF i <= 1 THEN <<u>>[i] ELSE Tail(q)[i - 1]
  BY <1>1, <1>2, ConcatProperties
<1>4. /\ DOMAIN r = DOMAIN q /\ 1 \in DOMAIN q /\ r[1] = u
      /\ \A i \in DOMAIN q : i >= 1 /\ i \in Int /\ (i # 1 => r[i] = q[i])
  BY <1>1, <1>2, <1>3
<1>5. ASSUME NEW S, None(q, S), u \notin S PROVE None(r, S)
  BY <1>4, <1>5 DEF None
<1>6. ASSUME NEW S, Once(q, S), t \in S \/ u \notin S PROVE Once(r, S)
  BY <1>1, <1>4, <1>6 DEF Once
<1>7. ASSUME NEW S, Once(q, S), t \in S, u \notin S PROVE None(r, S)
  BY <1>1, <1>4, <1>7 DEF Once, None
<1>8. ASSUME NEW S, NEW T, Ordered(q, S, T), u \notin T PROVE Ordered(r, S, T)
  BY <1>4, <1>8 DEF Ordered
<1>9. ASSUME NEW S, t \notin S, u \notin S
      PROVE  (None(r, S) <=> None(q, S)) /\ Number(r, S) = Number(q, S)
  <2>1. \A i \in DOMAIN q : r[i] \in S <=> q[i] \in S
    BY <1>1, <1>4, <1>9
  <2>2. {i \in DOMAIN r : r[i] \in S} = {i \in DOMAIN q : q[i] \in S}
    BY <1>4, <2>1
  <2> QED
    BY <1>4, <2>1, <2>2 DEF None, Number
<1> QED
  BY <1>3, <1>5, <1>6, <1>7, <1>8, <1>9 DEF Turned

\* What a step that posts or takes other tasks leaves of those in a set.
Elsewhere(K) ==
    \/ ui' = ui
    \/ \E t \in UiTasks \ K : ui' = Append(ui, t)
    \/ ui # <<>> /\ Head(ui) \notin K /\ ui' = Tail(ui)
    \/ \E t \in UiTasks \ K : ui # <<>> /\ Head(ui) \notin K /\ ui' = <<t>> \o Tail(ui)
Keeps(q, r, K) ==
    /\ \A S \in SUBSET K : /\ None(q, S) <=> None(r, S)
                           /\ Once(q, S) => Once(r, S)
                           /\ Number(q, S) = Number(r, S)
    /\ \A S, T \in SUBSET K : Ordered(q, S, T) => Ordered(r, S, T)

\* A step on the tasks outside K leaves those in K as they are, and in their order.
LEMMA ElsewhereFacts ==
  ASSUME ui \in Seq(UiTasks), NEW K, Elsewhere(K)
  PROVE  ui' \in Seq(UiTasks) /\ Keeps(ui, ui', K)
<1>1. CASE ui' = ui
  BY <1>1 DEF Keeps
<1>2. ASSUME NEW t \in UiTasks \ K, ui' = Append(ui, t)
      PROVE  ui' \in Seq(UiTasks) /\ Keeps(ui, ui', K)
  <2>1. \A S \in SUBSET K : t \notin S
    BY <1>2
  <2>2. Added(ui, t, ui')
    BY <1>2, AddFacts
  <2>3. \A S \in SUBSET K : Number(ui, S) = Number(ui', S)
    BY <2>1, <2>2 DEF Added
  <2> QED
    BY <2>1, <2>2, <2>3, Zenon DEF Keeps, Added
<1>3. ASSUME ui # <<>>, Head(ui) \notin K, ui' = Tail(ui)
      PROVE  ui' \in Seq(UiTasks) /\ Keeps(ui, ui', K)
  <2> DEFINE t == Head(ui)
  <2>1. \A S \in SUBSET K : t \notin S
    BY <1>3
  <2>2. Taken(ui, t, ui')
    BY <1>3, DropFacts
  <2> HIDE DEF t
  <2>3. \A S \in SUBSET K : Number(ui, S) = Number(ui', S)
    BY <2>1, <2>2 DEF Taken
  <2> QED
    BY <2>1, <2>2, <2>3, Zenon DEF Keeps, Taken
<1>4. ASSUME NEW u \in UiTasks \ K, ui # <<>>, Head(ui) \notin K, ui' = <<u>> \o Tail(ui)
      PROVE  ui' \in Seq(UiTasks) /\ Keeps(ui, ui', K)
  <2> DEFINE t == Head(ui)
  <2>1. \A S \in SUBSET K : t \notin S /\ u \notin S
    BY <1>4
  <2>2. Turned(ui, t, u, ui')
    BY <1>4, TurnFacts
  <2> HIDE DEF t
  <2> QED
    BY <2>1, <2>2, Zenon DEF Keeps, Turned
<1> QED
  BY <1>1, <1>2, <1>3, <1>4 DEF Elsewhere

\* The constants, one by one.
LEMMA ViewFacts ==
  /\ Found \in Nat /\ Parallel \in Nat \ {0} /\ Grades \in Nat \ {0}
  /\ \A v \in Visits : v.screen \in {"search", "shelf", "reader", "sources"} /\ v.clicks \in Seq(Doings)
  /\ \A d \in Doings : /\ d.of \in Wants
                       /\ d.is = "search" => d.of \in Keys
                       /\ d.is \in {"add", "remove"} => d.of \in Seq(Books)
                       /\ d.is = "book" => d.of[1] \in Books
                       /\ d.is = "chapter" => d.of[1] \in Nat
  /\ Keys \subseteq Wants /\ <<>> \in Wants /\ \A k \in Keys : k = <<k[1]>> /\ k[1] \in Hits
<1>1. ASSUME NEW v \in Visits PROVE v.clicks \in Seq(Doings)
  <2>1. Len(v.clicks) \in Nat /\ v.clicks = [k \in 1 .. Len(v.clicks) |-> v.clicks[k]]
    BY ViewConstants
  <2>2. \A k \in 1 .. Len(v.clicks) : v.clicks[k] \in ToSet(v.clicks)
    <3>1. DOMAIN v.clicks = 1 .. Len(v.clicks)
      BY <2>1
    <3> QED
      BY <3>1 DEF ToSet
  <2>3. ToSet(v.clicks) \subseteq Doings
    BY DEF Doings
  <2> DEFINE n == Len(v.clicks)
  <2>4. \A k \in 1 .. n : v.clicks[k] \in Doings
    BY <2>2, <2>3
  <2>5. [k \in 1 .. n |-> v.clicks[k]] \in Seq(Doings)
    <3> HIDE DEF n
    <3>1. n \in Nat
      BY <2>1 DEF n
    <3> QED
      BY <2>4, <3>1
  <2> QED
    BY <2>1, <2>5
<1>2. ASSUME NEW d \in Doings
      PROVE  /\ d.of \in Wants
             /\ d.is = "search" => d.of \in Keys /\ d.of = <<d.of[1]>>
             /\ d.is \in {"add", "remove"} => d.of \in Seq(Books)
             /\ d.is = "book" => d.of[1] \in Books
             /\ d.is = "chapter" => d.of[1] \in Nat
  <2>1. PICK v \in Visits : d \in ToSet(v.clicks)
    BY <1>2 DEF Doings
  <2>2. PICK k \in DOMAIN v.clicks : d = v.clicks[k]
    BY <2>1 DEF ToSet
  <2>3. d.of \in Wants /\ (d.is = "search" => d.of \in Keys)
    BY <1>2 DEF Wants, Keys
  <2> QED
    BY <2>2, <2>3, ViewConstants
<1>3. \A k \in Keys : k \in Wants /\ k = <<k[1]>> /\ k[1] \in Hits
  BY <1>2 DEF Keys, Hits
<1>4. \A v \in Visits : v.screen \in {"search", "shelf", "reader", "sources"}
  BY ViewConstants
<1>5. Found \in Nat /\ Parallel \in Nat \ {0} /\ Grades \in Nat \ {0} /\ <<>> \in Wants
  BY ViewConstants DEF Wants
<1> QED
  BY <1>1, <1>2, <1>3, <1>4, <1>5

\* What a task of each kind carries.
LEMMA TaskFacts ==
  /\ \A t \in UiTasks : /\ t.is = "append" => t.of \in Keys
                        /\ t.is = "ended" => \E c \in Commands : t = EndOf(c)
                        /\ t.is = "shelf" => t.got \in Seq(SUBSET Books) \ {<<>>}
                        /\ t.is = "catalog" => t.got \in Seq(ShelfParts) /\ t.of = <<>>
                        /\ t.is = "chapters" => t.got \in Seq(ShelfParts) \ {<<>>} /\ t.of = <<>>
                        /\ t.is = "content" => t.got \in Seq(Loaded) \ {<<>>}
                        /\ t.is = "sources" => t.got \in Seq(Counts) \ {<<>>}
                        /\ t = [is |-> t.is, of |-> t.of, got |-> t.got]
  /\ Task("clear") \in UiTasks /\ Task("progress") \in UiTasks /\ Task("validated") \in UiTasks
  /\ \A k \in Keys : [is |-> "append", of |-> k, got |-> <<>>] \in UiTasks
  /\ \A c \in Commands : EndOf(c) \in UiTasks
  /\ \A g \in Seq(SUBSET Books) \ {<<>>} : [is |-> "shelf", of |-> <<>>, got |-> g] \in UiTasks
  /\ \A g \in Seq(ShelfParts) : [is |-> "catalog", of |-> <<>>, got |-> g] \in UiTasks
  /\ \A g \in Seq(ShelfParts) \ {<<>>} : [is |-> "chapters", of |-> <<>>, got |-> g] \in UiTasks
  /\ \A g \in Seq(Loaded) \ {<<>>} : [is |-> "content", of |-> <<>>, got |-> g] \in UiTasks
  /\ \A g \in Seq(Counts) \ {<<>>} : [is |-> "sources", of |-> <<>>, got |-> g] \in UiTasks
<1>1. ASSUME NEW t \in UiTasks
      PROVE  /\ t.is = "append" => t.of \in Keys
             /\ t.is = "ended" => \E c \in Commands : t = EndOf(c)
             /\ t.is = "shelf" => t.got \in Seq(SUBSET Books) \ {<<>>}
             /\ t.is = "catalog" => t.got \in Seq(ShelfParts) /\ t.of = <<>>
             /\ t.is = "chapters" => t.got \in Seq(ShelfParts) \ {<<>>} /\ t.of = <<>>
             /\ t.is = "content" => t.got \in Seq(Loaded) \ {<<>>}
             /\ t.is = "sources" => t.got \in Seq(Counts) \ {<<>>}
             /\ t = [is |-> t.is, of |-> t.of, got |-> t.got]
  <2>1. CASE \E c \in Commands : t = EndOf(c)
    BY <2>1 DEF EndOf
  <2>2. CASE t \notin {EndOf(c) : c \in Commands}
    BY <2>2 DEF UiTasks
  <2> QED
    BY <2>1, <2>2
<1>2. Task("clear") \in UiTasks /\ Task("progress") \in UiTasks /\ Task("validated") \in UiTasks
  BY DEF UiTasks, Task
<1>3. \A k \in Keys : [is |-> "append", of |-> k, got |-> <<>>] \in UiTasks
  BY DEF UiTasks
<1>4. \A c \in Commands : EndOf(c) \in UiTasks
  BY DEF UiTasks
<1>5. /\ \A g \in Seq(SUBSET Books) \ {<<>>} : [is |-> "shelf", of |-> <<>>, got |-> g] \in UiTasks
      /\ \A g \in Seq(ShelfParts) : [is |-> "catalog", of |-> <<>>, got |-> g] \in UiTasks
  BY DEF UiTasks
<1>6. /\ \A g \in Seq(ShelfParts) \ {<<>>} : [is |-> "chapters", of |-> <<>>, got |-> g] \in UiTasks
      /\ \A g \in Seq(Loaded) \ {<<>>} : [is |-> "content", of |-> <<>>, got |-> g] \in UiTasks
      /\ \A g \in Seq(Counts) \ {<<>>} : [is |-> "sources", of |-> <<>>, got |-> g] \in UiTasks
  BY DEF UiTasks
<1> QED
  BY <1>1, <1>2, <1>3, <1>4, <1>5, <1>6

\* The tasks that say that commands have ended are different ones.
LEMMA EndsDiffer ==
  \A c \in Commands : /\ EndOf(c).is = "ended" /\ EndOf(c).of = <<c>> /\ EndOf(c).of[1] = c
                      /\ \A d \in Commands : EndOf(c) = EndOf(d) => c = d
<1>1. \A c \in Commands : EndOf(c).is = "ended" /\ EndOf(c).of = <<c>> /\ EndOf(c).of[1] = c
  BY DEF EndOf
<1> QED
  BY <1>1

\* Where a command may be, written out.
LEMMA StepFacts ==
  /\ \A c \in Commands : {"idle", "begun", "return", "ending"} \subseteq StepsOf(c)
  /\ StepsOf("search") = {"idle", "begun", "asking", "emit", "return", "ending"}
  /\ StepsOf("load") = {"idle", "begun", "read", "return", "ending"}
  /\ StepsOf("catalog") = {"idle", "begun", "read", "return", "ending"}
  /\ StepsOf("save") = {"idle", "begun", "read", "return", "ending"}
  /\ StepsOf("refresh") = {"idle", "begun", "read", "return", "ending"}
  /\ StepsOf("content") = {"idle", "begun", "sized", "picked", "return", "ending"}
  /\ \A c \in {"remove", "add", "import", "clear"} :
       StepsOf(c) = {"idle", "begun", "changed", "read", "return", "ending"}
  /\ \A c \in Commands : StepsOf(c) \subseteq Steps
  BY DEF StepsOf, Commands, Steps

\* A command that goes on, and one that is begun.
LEMMA GoesOn ==
  ASSUME CmdTypes, NEW c \in Commands, NEW label \in StepsOf(c), NEW got \in Gots,
         Continues(c, label, got)
  PROVE  /\ cmd' \in [Commands -> [at : Steps, of : Wants, got : Gots]]
         /\ \A d \in Commands : cmd'[d].at \in StepsOf(d)
         /\ cmd'[c].at = label /\ cmd'[c].of = cmd[c].of /\ cmd'[c].got = got
         /\ \A d \in Commands \ {c} : cmd'[d] = cmd[d]
<1> DEFINE r == [at |-> label, of |-> cmd[c].of, got |-> got]
<1>1. cmd \in [Commands -> [at : Steps, of : Wants, got : Gots]] /\ label \in Steps
  BY StepFacts DEF CmdTypes
<1>2. r \in [at : Steps, of : Wants, got : Gots] /\ r.at = label /\ r.of = cmd[c].of /\ r.got = got
  BY <1>1
<1>3. cmd' = [cmd EXCEPT ![c] = r]
  <2> DEFINE a == [cmd EXCEPT ![c].at = label]
  <2>1. cmd' = [a EXCEPT ![c].got = got]
    BY DEF Continues
  <2>2. /\ a \in [Commands -> [at : Steps, of : Wants, got : Gots]]
        /\ a[c] = [at |-> label, of |-> cmd[c].of, got |-> cmd[c].got]
        /\ \A d \in Commands \ {c} : a[d] = cmd[d]
    BY <1>1
  <2> HIDE DEF a
  <2>3. /\ cmd' \in [Commands -> [at : Steps, of : Wants, got : Gots]] /\ cmd'[c] = r
        /\ \A d \in Commands \ {c} : cmd'[d] = a[d]
    BY <2>1, <2>2
  <2> HIDE DEF r
  <2> QED
    BY <1>1, <1>2, <2>2, <2>3
<1> HIDE DEF r
<1>4. /\ cmd' \in [Commands -> [at : Steps, of : Wants, got : Gots]] /\ cmd'[c] = r
      /\ \A d \in Commands \ {c} : cmd'[d] = cmd[d]
  BY <1>1, <1>2, <1>3
<1> QED
  BY <1>2, <1>4 DEF CmdTypes

\* AsyncCommand::execute: a command that is executing is not begun again.
LEMMA IsBegun ==
  ASSUME CmdTypes, NEW c \in Commands, NEW of \in Wants, Execute(c, of)
  PROVE  /\ cmd' \in [Commands -> [at : Steps, of : Wants, got : Gots]]
         /\ \A d \in Commands : cmd'[d].at \in StepsOf(d)
         /\ Executing(c) => cmd' = cmd
         /\ ~Executing(c) => cmd'[c].at = "begun" /\ cmd'[c].of = of
         /\ \A d \in Commands \ {c} : cmd'[d] = cmd[d]
         /\ cmd'[c].at = "ending" <=> cmd[c].at = "ending"
<1> DEFINE r == [at |-> "begun", of |-> of, got |-> <<>>]
<1>1. cmd \in [Commands -> [at : Steps, of : Wants, got : Gots]]
  BY DEF CmdTypes
<1>2. r \in [at : Steps, of : Wants, got : Gots] /\ r.at = "begun" /\ r.of = of
  BY DEF Steps, Gots
<1>3. cmd' = IF Executing(c) THEN cmd ELSE [cmd EXCEPT ![c] = r]
  BY DEF Execute
<1> HIDE DEF r
<1>4. CASE Executing(c)
  BY <1>1, <1>3, <1>4 DEF CmdTypes
<1>5. CASE ~Executing(c)
  <2>1. /\ cmd' \in [Commands -> [at : Steps, of : Wants, got : Gots]] /\ cmd'[c] = r
        /\ \A d \in Commands \ {c} : cmd'[d] = cmd[d]
    BY <1>1, <1>2, <1>3, <1>5
  <2> QED
    BY <1>2, <1>5, <2>1, StepFacts DEF CmdTypes, Executing
<1> QED
  BY <1>4, <1>5

\* What a command may have got.
LEMMA GotFacts ==
  /\ <<>> \in Gots /\ Seq(SUBSET Books) \subseteq Gots /\ Seq(ShelfParts) \subseteq Gots
  /\ Seq(Nat) \subseteq Gots /\ Seq(Counts) \subseteq Gots
  BY DEF Gots

\* A click, and a task that is taken.
LEMMA Clicked1 ==
  ASSUME CmdTypes, NEW k, Click(k)
  PROVE  clicks' \in Seq(Doings) /\ Head(clicks) \in Doings /\ Head(clicks).is = k /\ ~manager.blocked
  BY HeadTailProperties DEF CmdTypes, Click, Free

\* The UI thread takes a task from its queue.
LEMMA Posted1 ==
  ASSUME CmdTypes, NEW k, Posted(k)
  PROVE  /\ Taken(ui, Head(ui), ui') /\ Head(ui) \in Kind(k) /\ ui # <<>> /\ ui' = Tail(ui)
         /\ ~manager.blocked
<1>1. ui \in Seq(UiTasks) /\ ui # <<>> /\ ui' = Tail(ui) /\ Head(ui).is = k /\ ~manager.blocked
  BY DEF CmdTypes, Posted, Free
<1>2. Taken(ui, Head(ui), ui')
  BY <1>1, DropFacts
<1> QED
  BY <1>1, <1>2 DEF Taken, Kind

\* What a step of some commands leaves to the others.
Frame(K, C) ==
    /\ CmdTypes' /\ Keeps(ui, ui', K)
    /\ \A c \in Commands \ C : cmd'[c] = cmd[c]
    /\ \A c \in C : cmd'[c].at = "ending" <=> cmd[c].at = "ending"

\* What a step of one screen leaves to the others: the tasks in K, all commands but those in C.
LEMMA FrameFacts ==
  ASSUME CmdTypes, screen' = screen, clicks' \in Seq(Doings), NEW K, Elsewhere(K),
         cmd' \in [Commands -> [at : Steps, of : Wants, got : Gots]],
         \A d \in Commands : cmd'[d].at \in StepsOf(d),
         NEW C, \A c \in Commands \ C : cmd'[c] = cmd[c],
         \A c \in C : cmd'[c].at = "ending" <=> cmd[c].at = "ending"
  PROVE  Frame(K, C)
<1>1. ui' \in Seq(UiTasks) /\ Keeps(ui, ui', K)
  BY ElsewhereFacts DEF CmdTypes
<1> QED
  BY <1>1 DEF Frame, CmdTypes

OfSearch == Kind("clear") \union Kind("append")
OfShelf == Kind("shelf")
OfReader == Kind("catalog") \union Kind("chapters") \union Kind("content")
OfManager == Kind("progress") \union Kind("validated") \union Kind("sources")
ReaderCommands == {"catalog", "content", "save"}

\* Each kind of task is in one of these.
LEMMA KindFacts ==
  /\ OfSearch \subseteq UiTasks /\ OfShelf \subseteq UiTasks /\ OfReader \subseteq UiTasks
  /\ OfManager \subseteq UiTasks
  /\ \A k, S, T : S = Kind(k) /\ T \subseteq S => T \subseteq UiTasks
  /\ OfSearch \intersect OfShelf = {} /\ OfSearch \intersect OfReader = {}
  /\ OfSearch \intersect OfManager = {} /\ OfShelf \intersect OfReader = {}
  /\ OfShelf \intersect OfManager = {} /\ OfReader \intersect OfManager = {}
  /\ \A c \in Commands : EndOf(c) \in UiTasks \ (OfSearch \union OfShelf \union OfReader \union OfManager)
<1>1. \A c \in Commands : EndOf(c) \in UiTasks /\ EndOf(c).is = "ended"
  BY TaskFacts, EndsDiffer
<1>2. /\ \A t \in OfSearch : t \in UiTasks /\ t.is \in {"clear", "append"}
      /\ \A t \in OfShelf : t \in UiTasks /\ t.is = "shelf"
      /\ \A t \in OfReader : t \in UiTasks /\ t.is \in {"catalog", "chapters", "content"}
      /\ \A t \in OfManager : t \in UiTasks /\ t.is \in {"progress", "validated", "sources"}
  BY DEF OfSearch, OfShelf, OfReader, OfManager, Kind
<1>3. \A k, S, T : S = Kind(k) /\ T \subseteq S => T \subseteq UiTasks
  BY DEF Kind
<1> QED
  BY <1>1, <1>2, <1>3

\* A step of a search leaves the other tasks and commands alone.
SearchStep == ClickSearch \/ ClickCancel \/ SearchBegins \/ SourceAnswers \/ Emit \/ SearchReturns
              \/ ShowResults

\* A step of the search screen is of no other screen.
LEMMA SearchLeaves ==
  ASSUME CmdTypes, SearchInv, SearchStep
  PROVE  Frame(UiTasks \ OfSearch, {"search"}) /\ UNCHANGED <<shelfView, reader, manager>>
<1> DEFINE K == UiTasks \ OfSearch
<1>0. /\ UNCHANGED <<screen, shelfView, reader, manager>> /\ clicks \in Seq(Doings)
      /\ "search" \in Commands
  BY DEF SearchStep, ClickSearch, ClickCancel, SearchBegins, SourceAnswers, Emit, SearchReturns,
         ShowResults, CmdTypes, Commands
<1>1. CASE ClickSearch
  <2>1. Click("search") /\ Execute("search", Head(clicks).of) /\ ui' = ui
    BY <1>1 DEF ClickSearch
  <2>2. clicks' \in Seq(Doings) /\ Head(clicks).of \in Wants
    BY <2>1, Clicked1, ViewFacts
  <2>3. Elsewhere(K)
    BY <2>1 DEF Elsewhere
  <2> HIDE DEF K
  <2> QED
    BY <1>0, <2>1, <2>2, <2>3, IsBegun, FrameFacts DEF K
<1>2. CASE ClickCancel
  <2>1. Click("cancel") /\ UNCHANGED <<ui, cmd>>
    BY <1>2 DEF ClickCancel
  <2>2. clicks' \in Seq(Doings)
    BY <2>1, Clicked1
  <2>3. Elsewhere(K)
    BY <2>1 DEF Elsewhere
  <2> QED
    BY <1>0, <2>1, <2>2, <2>3, FrameFacts DEF CmdTypes
<1>3. CASE ~ClickSearch /\ ~ClickCancel
  <2>1. clicks' = clicks
    BY <1>3 DEF SearchStep, ClickSearch, ClickCancel, SearchBegins, SourceAnswers, Emit,
                SearchReturns, ShowResults
  <2>2. Elsewhere(K)
    <3>1. CASE ui' = ui
      BY <3>1 DEF Elsewhere
    <3>2. CASE ShowResults
      <4>1. PICK k \in {"clear", "append"} : Posted(k)
        BY <3>2 DEF ShowResults
      <4>2. ui # <<>> /\ ui' = Tail(ui) /\ Head(ui) \in OfSearch
        BY <4>1, Posted1 DEF OfSearch
      <4> QED
        BY <4>2 DEF Elsewhere
    <3>3. CASE SearchBegins
      <4>1. Task("clear") \in OfSearch /\ ui' = Append(ui, Task("clear"))
        BY <3>3, TaskFacts DEF SearchBegins, PostTask, OfSearch, Kind, Task
      <4> QED
        BY <4>1, KindFacts DEF Elsewhere
    <3>4. CASE Emit
      <4> DEFINE t == [is |-> "append", of |-> cmd["search"].of, got |-> <<>>]
      <4>1. t \in OfSearch /\ ui' = Append(ui, t)
        BY <3>4, TaskFacts DEF Emit, PostTask, OfSearch, Kind, SearchInv
      <4> HIDE DEF t
      <4> QED
        BY <4>1, KindFacts DEF Elsewhere
    <3>5. CASE SourceAnswers \/ SearchReturns
      BY <3>1, <3>5 DEF SourceAnswers, SearchReturns
    <3> QED
      BY <1>3, <3>2, <3>3, <3>4, <3>5 DEF SearchStep
  <2>3. \/ cmd' = cmd
        \/ \E label \in {"asking", "emit", "return"} :
              Continues("search", label, <<>>) /\ cmd["search"].at # "ending"
    BY <1>3 DEF SearchStep, SearchBegins, SourceAnswers, Emit, SearchReturns, ShowResults
  <2>4. CASE cmd' = cmd
    BY <1>0, <2>1, <2>2, <2>4, FrameFacts DEF CmdTypes
  <2>5. CASE cmd' # cmd
    <3>1. PICK label \in {"asking", "emit", "return"} :
              Continues("search", label, <<>>) /\ cmd["search"].at # "ending"
      BY <2>3, <2>5
    <3>2. label \in StepsOf("search") /\ <<>> \in Gots
      BY StepFacts, GotFacts
    <3> HIDE DEF K
    <3> QED
      BY <1>0, <2>1, <2>2, <3>1, <3>2, GoesOn, FrameFacts DEF K
  <2> QED
    BY <2>4, <2>5
<1> QED
  BY <1>0, <1>1, <1>2, <1>3

\* A step of the bookshelf.
ShelfStep == ClickShelf \/ ShelfChanges \/ ShelfReads \/ ShelfPosts \/ ShowShelf

\* A step of the shelf is of no other screen.
LEMMA ShelfLeaves ==
  ASSUME CmdTypes, ShelfTypes, ShelfStep
  PROVE  Frame(UiTasks \ OfShelf, ShelfCommands) /\ UNCHANGED <<search, reader, manager>>
<1> DEFINE K == UiTasks \ OfShelf
<1>0. /\ UNCHANGED <<screen, search, reader, manager>> /\ clicks \in Seq(Doings)
      /\ ShelfCommands \subseteq Commands
  BY DEF ShelfStep, ClickShelf, ShelfChanges, ShelfReads, ShelfPosts, ShowShelf, CmdTypes,
         Commands, ShelfCommands
<1>1. CASE ClickShelf
  <2>1. PICK c \in ShelfCommands : Click(c) /\ Execute(c, Head(clicks).of) /\ ui' = ui
    BY <1>1 DEF ClickShelf
  <2>2. clicks' \in Seq(Doings) /\ Head(clicks).of \in Wants /\ c \in Commands
    BY <1>0, <2>1, Clicked1, ViewFacts
  <2>3. Elsewhere(K)
    BY <2>1 DEF Elsewhere
  <2> HIDE DEF K
  <2>4. /\ cmd' \in [Commands -> [at : Steps, of : Wants, got : Gots]]
        /\ \A d \in Commands : cmd'[d].at \in StepsOf(d)
        /\ \A d \in Commands \ {c} : cmd'[d] = cmd[d]
        /\ cmd'[c].at = "ending" <=> cmd[c].at = "ending"
    BY <2>1, <2>2, IsBegun
  <2>5. Frame(K, ShelfCommands)
    BY <1>0, <2>1, <2>2, <2>3, <2>4, FrameFacts
  <2> QED
    BY <1>0, <2>5 DEF K
<1>2. CASE ShowShelf
  <2>1. Posted("shelf") /\ UNCHANGED <<clicks, cmd>>
    BY <1>2 DEF ShowShelf
  <2>2. ui # <<>> /\ ui' = Tail(ui) /\ Head(ui) \in OfShelf
    BY <2>1, Posted1 DEF OfShelf
  <2>3. Elsewhere(K)
    BY <2>2 DEF Elsewhere
  <2> QED
    BY <1>0, <2>1, <2>3, FrameFacts DEF CmdTypes
<1>3. CASE ShelfChanges \/ ShelfReads \/ ShelfPosts
  <2>1. PICK c \in ShelfCommands, label \in {"changed", "read", "return"}, got \in Gots :
          /\ Continues(c, label, got) /\ cmd[c].at # "ending" /\ label \in StepsOf(c)
          /\ clicks' = clicks
          /\ ui' = ui \/ (cmd[c].at = "read"
                            /\ ui' = Append(ui, [is |-> "shelf", of |-> <<>>, got |-> cmd[c].got]))
    <3>1. CASE ShelfChanges
      <4>1. PICK c \in {"remove", "add"} : cmd[c].at = "begun" /\ Continues(c, "changed", <<>>)
        BY <3>1 DEF ShelfChanges
      <4> QED
        BY <3>1, <4>1, StepFacts, GotFacts DEF ShelfChanges, ShelfCommands
    <3>2. CASE ShelfReads
      <4>1. PICK c \in ShelfCommands : /\ cmd[c].at = IF c = "load" THEN "begun" ELSE "changed"
                                       /\ Continues(c, "read", <<shelfView.table>>)
        BY <3>2 DEF ShelfReads
      <4>2. <<shelfView.table>> \in Gots
        <5>1. shelfView.table \in SUBSET Books
          BY DEF ShelfTypes
        <5>2. <<shelfView.table>> \in Seq(SUBSET Books)
          BY <5>1
        <5> QED
          BY <5>2, GotFacts
      <4> QED
        BY <3>2, <4>1, <4>2, StepFacts DEF ShelfReads, ShelfCommands
    <3>3. CASE ShelfPosts
      <4>1. PICK c \in ShelfCommands :
              /\ cmd[c].at = "read" /\ Continues(c, "return", cmd[c].got)
              /\ PostTask([is |-> "shelf", of |-> <<>>, got |-> cmd[c].got])
        BY <3>3 DEF ShelfPosts
      <4>2. cmd[c].got \in Gots
        BY <1>0, <4>1 DEF CmdTypes
      <4> QED
        BY <1>0, <3>3, <4>1, <4>2, StepFacts DEF ShelfPosts, PostTask
    <3> QED
      BY <1>3, <3>1, <3>2, <3>3
  <2>2. Elsewhere(K)
    <3>1. CASE ui' = ui
      BY <3>1 DEF Elsewhere
    <3>2. CASE ui' # ui
      <4> DEFINE t == [is |-> "shelf", of |-> <<>>, got |-> cmd[c].got]
      <4>1. t \in OfShelf /\ ui' = Append(ui, t)
        BY <2>1, <3>2, TaskFacts DEF OfShelf, Kind, ShelfTypes
      <4> HIDE DEF t
      <4> QED
        BY <4>1, KindFacts DEF Elsewhere
    <3> QED
      BY <3>1, <3>2
  <2>3. /\ cmd' \in [Commands -> [at : Steps, of : Wants, got : Gots]]
        /\ \A d \in Commands : cmd'[d].at \in StepsOf(d)
        /\ \A d \in Commands \ {c} : cmd'[d] = cmd[d]
        /\ cmd'[c].at # "ending"
    BY <1>0, <2>1, GoesOn
  <2> HIDE DEF K
  <2>4. Frame(K, ShelfCommands)
    BY <1>0, <2>1, <2>2, <2>3, FrameFacts
  <2> QED
    BY <1>0, <2>4 DEF K
<1> QED
  BY <1>0, <1>1, <1>2, <1>3 DEF ShelfStep

\* A step of the reader's screen.
ReaderStep ==
    \/ ClickBook \/ ClickChapter \/ ClickSave \/ CatalogLoads \/ CatalogPosts \/ ApplyCatalog
    \/ ContentSizes \/ ContentPicks \/ ContentLoads \/ ApplyContent \/ SaveReads \/ SaveStores

\* A step of the reader is of no other screen.
LEMMA ReaderLeaves ==
  ASSUME CmdTypes, ReaderTypes, ReaderStep
  PROVE  Frame(UiTasks \ OfReader, ReaderCommands) /\ UNCHANGED <<search, shelfView, manager>>
<1> DEFINE K == UiTasks \ OfReader
<1>0. /\ UNCHANGED <<screen, search, shelfView, manager>> /\ clicks \in Seq(Doings)
      /\ ReaderCommands \subseteq Commands
  BY DEF ReaderStep, ClickBook, ClickChapter, ClickSave, CatalogLoads, CatalogPosts, ApplyCatalog,
         ContentSizes, ContentPicks, ContentLoads, ApplyContent, SaveReads, SaveStores, CmdTypes,
         Commands, ReaderCommands
<1>1. CASE ClickBook \/ ClickChapter \/ ClickSave
  <2>1. PICK k \in {"book", "chapter", "save"}, c \in ReaderCommands, of \in {Head(clicks).of, <<>>} :
          Click(k) /\ Execute(c, of) /\ ui' = ui
    BY <1>1 DEF ClickBook, ClickChapter, ClickSave, ReaderCommands
  <2>2. clicks' \in Seq(Doings) /\ of \in Wants /\ c \in Commands
    BY <1>0, <2>1, Clicked1, ViewFacts
  <2>3. Elsewhere(K)
    BY <2>1 DEF Elsewhere
  <2>4. /\ cmd' \in [Commands -> [at : Steps, of : Wants, got : Gots]]
        /\ \A d \in Commands : cmd'[d].at \in StepsOf(d)
        /\ \A d \in Commands \ {c} : cmd'[d] = cmd[d]
        /\ cmd'[c].at = "ending" <=> cmd[c].at = "ending"
    BY <2>1, <2>2, IsBegun
  <2> HIDE DEF K
  <2>5. Frame(K, ReaderCommands)
    BY <1>0, <2>1, <2>2, <2>3, <2>4, FrameFacts
  <2> QED
    BY <1>0, <2>5 DEF K
<1>2. CASE ApplyCatalog
  <2>1. /\ ui # <<>> /\ Head(ui).is \in {"catalog", "chapters"} /\ UNCHANGED <<clicks, cmd>>
        /\ \/ ui' = Tail(ui)
           \/ /\ Head(ui).is = "catalog" /\ Head(ui).got # <<>>
              /\ ui' = << [Head(ui) EXCEPT !.is = "chapters"] >> \o Tail(ui)
           \/ /\ Head(ui).is = "chapters" /\ Len(Head(ui).got) # 1
              /\ ui' = << [Head(ui) EXCEPT !.got = Tail(@)] >> \o Tail(ui)
    BY <1>2 DEF ApplyCatalog
  <2>2. Head(ui) \in UiTasks /\ Head(ui) \in OfReader
    BY <2>1, HeadTailProperties DEF CmdTypes, OfReader, Kind
  <2>3. Elsewhere(K)
    <3>1. CASE ui' = Tail(ui)
      BY <2>1, <2>2, <3>1 DEF Elsewhere
    <3>2. CASE /\ Head(ui).is = "catalog" /\ Head(ui).got # <<>>
               /\ ui' = << [Head(ui) EXCEPT !.is = "chapters"] >> \o Tail(ui)
      <4> DEFINE t == [is |-> "chapters", of |-> <<>>, got |-> Head(ui).got]
      <4>1. [Head(ui) EXCEPT !.is = "chapters"] = t
        BY <2>2, <3>2, TaskFacts
      <4>2. t \in UiTasks /\ t \in OfReader
        BY <2>2, <3>2, TaskFacts DEF OfReader, Kind
      <4>3. ui' = <<t>> \o Tail(ui) /\ t \in UiTasks \ K
        BY <3>2, <4>1, <4>2
      <4> HIDE DEF t
      <4> QED
        BY <2>1, <2>2, <4>3 DEF Elsewhere
    <3>3. CASE /\ Head(ui).is = "chapters" /\ Len(Head(ui).got) # 1
               /\ ui' = << [Head(ui) EXCEPT !.got = Tail(@)] >> \o Tail(ui)
      <4> DEFINE t == [is |-> "chapters", of |-> <<>>, got |-> Tail(Head(ui).got)]
      <4>1. [Head(ui) EXCEPT !.got = Tail(@)] = t
        <5>1. Head(ui) = [is |-> "chapters", of |-> <<>>, got |-> Head(ui).got]
          BY <2>2, <3>3, TaskFacts
        <5>2. \A h, g, n : h = [is |-> "chapters", of |-> <<>>, got |-> g]
                             => [h EXCEPT !.got = n] = [is |-> "chapters", of |-> <<>>, got |-> n]
          OBVIOUS
        <5> DEFINE n == Tail(Head(ui).got)
                   h == Head(ui)
        <5>3. h = [is |-> "chapters", of |-> <<>>, got |-> h.got]
          BY <5>1
        <5>4. [h EXCEPT !.got = n] = [is |-> "chapters", of |-> <<>>, got |-> n]
          <6> HIDE DEF h, n
          <6> QED
            BY <5>2, <5>3
        <5> QED
          BY <5>4
      <4>2. Tail(Head(ui).got) \in Seq(ShelfParts) \ {<<>>}
        <5>1. Head(ui).got \in Seq(ShelfParts) /\ Head(ui).got # <<>>
          BY <2>2, <3>3, TaskFacts
        <5>2. Len(Head(ui).got) \in Nat /\ Len(Head(ui).got) # 0
          BY <5>1, EmptySeq
        <5>3. Tail(Head(ui).got) \in Seq(ShelfParts) /\ Len(Tail(Head(ui).got)) = Len(Head(ui).got) - 1
          BY <5>1, HeadTailProperties
        <5>4. Len(Tail(Head(ui).got)) # 0
          BY <3>3, <5>2, <5>3
        <5>5. Tail(Head(ui).got) # <<>>
          BY <5>4, EmptySeq
        <5> QED
          BY <5>3, <5>5
      <4>3. t \in UiTasks /\ t \in OfReader
        BY <4>2, TaskFacts DEF OfReader, Kind
      <4>4. ui' = <<t>> \o Tail(ui) /\ t \in UiTasks \ K
        BY <3>3, <4>1, <4>3
      <4> HIDE DEF t
      <4> QED
        BY <2>1, <2>2, <4>4 DEF Elsewhere
    <3> QED
      BY <2>1, <3>1, <3>2, <3>3
  <2> QED
    BY <1>0, <2>1, <2>3, FrameFacts DEF CmdTypes
<1>3. CASE ApplyContent
  <2>1. Posted("content") /\ UNCHANGED <<clicks, cmd>>
    BY <1>3 DEF ApplyContent
  <2>2. ui # <<>> /\ ui' = Tail(ui) /\ Head(ui) \in OfReader
    BY <2>1, Posted1 DEF OfReader
  <2>3. Elsewhere(K)
    BY <2>2 DEF Elsewhere
  <2> QED
    BY <1>0, <2>1, <2>3, FrameFacts DEF CmdTypes
<1>4. ASSUME NEW c \in ReaderCommands, NEW label \in StepsOf(c), NEW got \in Gots,
             Continues(c, label, got), label # "ending", cmd[c].at # "ending", clicks' = clicks,
             \/ ui' = ui
             \/ \E t \in OfReader : ui' = Append(ui, t)
      PROVE  Frame(K, ReaderCommands)
  <2>1. Elsewhere(K)
    BY <1>4, KindFacts DEF Elsewhere
  <2>2. /\ cmd' \in [Commands -> [at : Steps, of : Wants, got : Gots]]
        /\ \A d \in Commands : cmd'[d].at \in StepsOf(d)
        /\ \A d \in Commands \ {c} : cmd'[d] = cmd[d]
        /\ cmd'[c].at # "ending"
    BY <1>0, <1>4, GoesOn
  <2> HIDE DEF K
  <2> QED
    BY <1>0, <1>4, <2>1, <2>2, FrameFacts
<1>5. CASE CatalogLoads
  <2>1. PICK label \in {"read", "return"}, got \in {ChaptersOf(reader.book), <<>>} :
          Continues("catalog", label, got) /\ cmd["catalog"].at = "begun" /\ UNCHANGED <<clicks, ui>>
    BY <1>5 DEF CatalogLoads
  <2>2. got \in Gots
    <3>1. reader.book \in Books \union {NoBook}
      BY DEF ReaderTypes, ReaderStates
    <3>2. ChapterOf(reader.book, 0) \in ShelfParts /\ ChapterOf(reader.book, 1) \in ShelfParts
      BY <3>1 DEF ChapterOf, ShelfParts
    <3>3. ChaptersOf(reader.book) \in Seq(ShelfParts)
      BY <3>2 DEF ChaptersOf
    <3> QED
      BY <2>1, <3>3, GotFacts
  <2>3. "catalog" \in ReaderCommands /\ label \in StepsOf("catalog")
    BY <2>1, StepFacts DEF ReaderCommands
  <2> QED
    BY <1>0, <1>4, <2>1, <2>2, <2>3
<1>6. CASE CatalogPosts
  <2> DEFINE t == [is |-> "catalog", of |-> <<>>, got |-> cmd["catalog"].got]
  <2>1. /\ Continues("catalog", "return", <<>>) /\ cmd["catalog"].at = "read" /\ clicks' = clicks
        /\ ui' = Append(ui, t)
    BY <1>6 DEF CatalogPosts, PostTask
  <2>2. t \in OfReader
    BY <2>1, TaskFacts DEF OfReader, Kind, ReaderTypes
  <2>3. "catalog" \in ReaderCommands /\ "return" \in StepsOf("catalog") /\ <<>> \in Gots
    BY StepFacts, GotFacts DEF ReaderCommands
  <2> HIDE DEF t
  <2> QED
    BY <1>0, <1>4, <2>1, <2>2, <2>3
<1>7. CASE ContentSizes \/ ContentPicks
  <2>1. PICK label \in {"sized", "picked", "return"}, got \in Gots :
          /\ Continues("content", label, got) /\ cmd["content"].at \in {"begun", "sized"}
          /\ UNCHANGED <<clicks, ui>>
    <3>1. CASE ContentSizes
      BY <3>1, GotFacts DEF ContentSizes
    <3>2. CASE ContentPicks
      <4> DEFINE i == cmd["content"].of[1]
      <4>1. i \in Nat /\ cmd["content"].at = "sized" /\ UNCHANGED <<clicks, ui>>
        BY <3>2 DEF ContentPicks, ReaderTypes, Executing
      <4>2. CASE i < Len(reader.chapters)
        <5>1. Continues("content", "picked", <<reader.chapters[i + 1]>>)
          BY <3>2, <4>2 DEF ContentPicks
        <5>2. reader.chapters \in Seq(ShelfParts)
          BY DEF ReaderTypes, ReaderStates
        <5> HIDE DEF i
        <5>3. reader.chapters[i + 1] \in ShelfParts
          BY <4>1, <4>2, <5>2
        <5>4. <<reader.chapters[i + 1]>> \in Seq(ShelfParts)
          BY <5>3
        <5> QED
          BY <4>1, <5>1, <5>4, GotFacts
      <4>3. CASE ~(i < Len(reader.chapters))
        BY <3>2, <4>1, <4>3, GotFacts DEF ContentPicks
      <4> QED
        BY <4>2, <4>3
    <3> QED
      BY <1>7, <3>1, <3>2
  <2>2. "content" \in ReaderCommands /\ label \in StepsOf("content")
    BY <2>1, StepFacts DEF ReaderCommands
  <2> QED
    BY <1>0, <1>4, <2>1, <2>2
<1>8. CASE ContentLoads
  <2> DEFINE x == [chapter |-> Head(cmd["content"].got), index |-> cmd["content"].of[1]]
             t == [is |-> "content", of |-> <<>>, got |-> <<x>>]
  <2>1. /\ Continues("content", "return", <<>>) /\ cmd["content"].at = "picked" /\ clicks' = clicks
        /\ ui' = Append(ui, t)
    BY <1>8 DEF ContentLoads, PostTask
  <2>2. t \in OfReader
    <3>1. cmd["content"].got \in Seq(ShelfParts) /\ cmd["content"].got # <<>> /\ cmd["content"].of[1] \in Nat
      BY <2>1 DEF ReaderTypes, Executing
    <3>2. x \in Loaded
      BY <3>1, HeadTailProperties DEF Loaded
    <3> HIDE DEF x
    <3>3. <<x>> \in Seq(Loaded) \ {<<>>}
      BY <3>2
    <3> QED
      BY <3>3, TaskFacts DEF OfReader, Kind
  <2>3. "content" \in ReaderCommands /\ "return" \in StepsOf("content") /\ <<>> \in Gots
    BY StepFacts, GotFacts DEF ReaderCommands
  <2> HIDE DEF t
  <2> QED
    BY <1>0, <1>4, <2>1, <2>2, <2>3
<1>9. CASE SaveReads \/ SaveStores
  <2>1. PICK label \in {"read", "return"}, got \in {<<reader.index>>, <<>>} :
          /\ Continues("save", label, got) /\ cmd["save"].at \in {"begun", "read"}
          /\ UNCHANGED <<clicks, ui>>
    BY <1>9 DEF SaveReads, SaveStores
  <2>2. got \in Gots
    <3>1. reader.index \in Nat
      BY DEF ReaderTypes, ReaderStates
    <3>2. <<reader.index>> \in Seq(Nat)
      BY <3>1
    <3> QED
      BY <2>1, <3>2, GotFacts
  <2>3. "save" \in ReaderCommands /\ label \in StepsOf("save")
    BY <2>1, StepFacts DEF ReaderCommands
  <2> QED
    BY <1>0, <1>4, <2>1, <2>2, <2>3
<1>10. Frame(K, ReaderCommands)
  BY <1>0, <1>1, <1>2, <1>3, <1>5, <1>6, <1>7, <1>8, <1>9 DEF ReaderStep
<1> QED
  BY <1>0, <1>10

\* A step of the source manager.
ManagerStep ==
    \/ ClickManager \/ ClickValidate \/ ClickCancelValidate \/ SourceGraded \/ SourcesGraded
    \/ ShowProgress \/ ManagerChanges \/ ManagerReads \/ ManagerPosts \/ ShowSources

\* A step of the source manager is of no other screen.
LEMMA ManagerLeaves ==
  ASSUME CmdTypes, ManagerTypes, ManagerStep
  PROVE  Frame(UiTasks \ OfManager, ManagerCommands) /\ UNCHANGED <<search, shelfView, reader>>
<1> DEFINE K == UiTasks \ OfManager
<1>0. /\ UNCHANGED <<screen, search, shelfView, reader>> /\ clicks \in Seq(Doings)
      /\ ManagerCommands \subseteq Commands
  BY DEF ManagerStep, ClickManager, ClickValidate, ClickCancelValidate, SourceGraded, SourcesGraded,
         ShowProgress, ManagerChanges, ManagerReads, ManagerPosts, ShowSources, CmdTypes,
         Commands, ManagerCommands
<1>1. ASSUME NEW c \in ManagerCommands, NEW of \in Wants, Execute(c, of), clicks' \in Seq(Doings),
             Elsewhere(K)
      PROVE  Frame(K, ManagerCommands)
  <2>1. /\ cmd' \in [Commands -> [at : Steps, of : Wants, got : Gots]]
        /\ \A d \in Commands : cmd'[d].at \in StepsOf(d)
        /\ \A d \in Commands \ {c} : cmd'[d] = cmd[d]
        /\ cmd'[c].at = "ending" <=> cmd[c].at = "ending"
    BY <1>0, <1>1, IsBegun
  <2> HIDE DEF K
  <2> QED
    BY <1>0, <1>1, <2>1, FrameFacts
<1>2. CASE ClickManager
  <2>1. PICK c \in ManagerCommands : Click(c) /\ Execute(c, <<>>) /\ ui' = ui
    BY <1>2 DEF ClickManager
  <2>2. clicks' \in Seq(Doings) /\ <<>> \in Wants
    BY <2>1, Clicked1, ViewFacts
  <2>3. Elsewhere(K)
    BY <2>1 DEF Elsewhere
  <2>4. Frame(K, ManagerCommands)
    BY <1>1, <2>1, <2>2, <2>3
  <2> QED
    BY <1>0, <2>4
<1>3. CASE ClickValidate \/ ClickCancelValidate
  <2>1. PICK k \in {"validate", "stop"} : Click(k) /\ UNCHANGED <<ui, cmd>>
    BY <1>3 DEF ClickValidate, ClickCancelValidate
  <2>2. clicks' \in Seq(Doings)
    BY <2>1, Clicked1
  <2>3. Elsewhere(K)
    BY <2>1 DEF Elsewhere
  <2> QED
    BY <1>0, <2>1, <2>2, <2>3, FrameFacts DEF CmdTypes
<1>4. CASE SourceGraded \/ SourcesGraded
  <2>1. PICK k \in {"progress", "validated"} : ui' = Append(ui, Task(k)) /\ UNCHANGED <<clicks, cmd>>
    BY <1>4 DEF SourceGraded, SourcesGraded, PostTask
  <2>2. Task(k) \in OfManager
    BY <2>1, TaskFacts DEF OfManager, Kind, Task
  <2>3. Elsewhere(K)
    BY <2>1, <2>2, KindFacts DEF Elsewhere
  <2> QED
    BY <1>0, <2>1, <2>3, FrameFacts DEF CmdTypes
<1>5. CASE ShowProgress \/ ShowSources
  <2>1. PICK k \in {"progress", "validated", "sources"} :
          /\ Posted(k) /\ clicks' = clicks
          /\ cmd' = cmd \/ (k = "validated" /\ Execute("refresh", <<>>))
    BY <1>5 DEF ShowProgress, ShowSources
  <2>2. ui # <<>> /\ ui' = Tail(ui) /\ Head(ui) \in OfManager
    BY <2>1, Posted1 DEF OfManager
  <2>3. Elsewhere(K)
    BY <2>2 DEF Elsewhere
  <2>4. CASE cmd' = cmd
    BY <1>0, <2>1, <2>3, <2>4, FrameFacts DEF CmdTypes
  <2>5. CASE cmd' # cmd
    <3>1. Execute("refresh", <<>>) /\ "refresh" \in ManagerCommands /\ <<>> \in Wants
      BY <2>1, <2>5, ViewFacts DEF ManagerCommands
    <3> QED
      BY <1>0, <1>1, <2>1, <2>3, <3>1
  <2> QED
    BY <2>4, <2>5
<1>6. CASE ManagerChanges \/ ManagerReads \/ ManagerPosts
  <2>1. PICK c \in ManagerCommands, label \in {"changed", "read", "return"}, got \in Gots :
          /\ Continues(c, label, got) /\ cmd[c].at # "ending" /\ label \in StepsOf(c)
          /\ clicks' = clicks
          /\ ui' = ui \/ (cmd[c].at = "read"
                            /\ ui' = Append(ui, [is |-> "sources", of |-> <<>>, got |-> cmd[c].got]))
    <3>1. CASE ManagerChanges
      <4>1. PICK c \in {"import", "clear"} : cmd[c].at = "begun" /\ Continues(c, "changed", <<>>)
        BY <3>1 DEF ManagerChanges
      <4> QED
        BY <3>1, <4>1, StepFacts, GotFacts DEF ManagerChanges, ManagerCommands
    <3>2. CASE ManagerReads
      <4>1. PICK c \in ManagerCommands :
              /\ cmd[c].at = IF c = "refresh" THEN "begun" ELSE "changed"
              /\ Continues(c, "read", <<Now>>)
        BY <3>2 DEF ManagerReads, Now
      <4>2. <<Now>> \in Gots
        <5>1. Now \in Counts
          BY ViewFacts DEF ManagerTypes, ManagerStates, Now, Counts
        <5>2. <<Now>> \in Seq(Counts)
          BY <5>1
        <5> QED
          BY <5>2, GotFacts
      <4> QED
        BY <3>2, <4>1, <4>2, StepFacts DEF ManagerReads, ManagerCommands
    <3>3. CASE ManagerPosts
      <4>1. PICK c \in ManagerCommands :
              /\ cmd[c].at = "read" /\ Continues(c, "return", <<>>)
              /\ PostTask([is |-> "sources", of |-> <<>>, got |-> cmd[c].got])
        BY <3>3 DEF ManagerPosts
      <4> QED
        BY <1>0, <3>3, <4>1, GotFacts, StepFacts DEF ManagerPosts, PostTask
    <3> QED
      BY <1>6, <3>1, <3>2, <3>3
  <2>2. Elsewhere(K)
    <3>1. CASE ui' = ui
      BY <3>1 DEF Elsewhere
    <3>2. CASE ui' # ui
      <4> DEFINE t == [is |-> "sources", of |-> <<>>, got |-> cmd[c].got]
      <4>1. t \in OfManager /\ ui' = Append(ui, t)
        BY <2>1, <3>2, TaskFacts DEF OfManager, Kind, ManagerTypes
      <4> HIDE DEF t
      <4> QED
        BY <4>1, KindFacts DEF Elsewhere
    <3> QED
      BY <3>1, <3>2
  <2>3. /\ cmd' \in [Commands -> [at : Steps, of : Wants, got : Gots]]
        /\ \A d \in Commands : cmd'[d].at \in StepsOf(d)
        /\ \A d \in Commands \ {c} : cmd'[d] = cmd[d]
        /\ cmd'[c].at # "ending"
    BY <1>0, <2>1, GoesOn
  <2> HIDE DEF K
  <2>4. Frame(K, ManagerCommands)
    BY <1>0, <2>1, <2>2, <2>3, FrameFacts
  <2> QED
    BY <1>0, <2>4 DEF K
<1>7. Frame(K, ManagerCommands)
  BY <1>2, <1>3, <1>4, <1>5, <1>6 DEF ManagerStep
<1> QED
  BY <1>0, <1>7

\* What is said of one part holds as long as its tasks and commands are left alone.
LEMMA SearchRests ==
  ASSUME SearchInv, NEW K, Keeps(ui, ui', K), OfSearch \union {EndOf("search")} \subseteq K,
         search' = search, cmd'["search"] = cmd["search"]
  PROVE  SearchInv'
<1> DEFINE clear == Kind("clear")
           append == Kind("append")
           ends == {EndOf("search")}
           strange == {t \in append : t.of # cmd["search"].of}
<1>1. clear \in SUBSET K /\ append \in SUBSET K /\ ends \in SUBSET K /\ strange \in SUBSET K
  BY DEF OfSearch
<1>2. /\ None(ui, clear) <=> None(ui', clear)
      /\ None(ui, append) <=> None(ui', append)
      /\ None(ui, strange) => None(ui', strange)
      /\ Once(ui, clear) => Once(ui', clear)
      /\ Number(ui, append) = Number(ui', append)
      /\ Ordered(ui, clear, append) => Ordered(ui', clear, append)
      /\ Ordered(ui, clear, ends) => Ordered(ui', clear, ends)
      /\ Ordered(ui, append, ends) => Ordered(ui', append, ends)
  <2> HIDE DEF clear, append, ends, strange
  <2> QED
    BY <1>1 DEF Keeps
<1> QED
  BY <1>2 DEF SearchInv

\* The shelf stays true while its tasks and commands are left alone.
LEMMA ShelfRests ==
  ASSUME ShelfScreenInv, NEW K, Keeps(ui, ui', K), OfShelf \subseteq K, {EndOf(c) : c \in ShelfCommands} \subseteq K,
         shelfView' = shelfView, \A c \in ShelfCommands : cmd'[c] = cmd[c]
  PROVE  ShelfScreenInv'
<1> DEFINE shown == Kind("shelf")
           strange == {t \in shown : t.got[1] # shelfView.table}
<1>1. /\ shown \in SUBSET K /\ strange \in SUBSET K
      /\ \A c \in ShelfCommands : {EndOf(c)} \in SUBSET K
  BY DEF OfShelf
<1>2. /\ None(ui, shown) <=> None(ui', shown)
      /\ None(ui, strange) => None(ui', strange)
      /\ Once(ui, shown) => Once(ui', shown)
      /\ \A c \in ShelfCommands : Ordered(ui, shown, {EndOf(c)}) => Ordered(ui', shown, {EndOf(c)})
  <2> HIDE DEF shown, strange
  <2> QED
    BY <1>1 DEF Keeps
<1> QED
  BY <1>2 DEF ShelfScreenInv, ShelfTypes, RowsInv, Executing, ShelfCommands

\* The reader stays true while its tasks and commands are left alone.
LEMMA ReaderRests ==
  ASSUME ReaderScreenInv, NEW K, Keeps(ui, ui', K), OfReader \subseteq K,
         {EndOf(c) : c \in ReaderCommands} \subseteq K,
         reader' = reader, \A c \in ReaderCommands : cmd'[c] = cmd[c]
  PROVE  ReaderScreenInv'
<1> DEFINE both == Kind("catalog") \union Kind("chapters")
           oddWhole == {t \in Kind("catalog") : ~Holds(t.got, reader.book, 0)}
           oddRest == {t \in Kind("chapters") : ~Holds(t.got, reader.book, Len(reader.chapters))}
           odd == {t \in Kind("content") : t.got[1].chapter.n # t.got[1].index}
<1>1. /\ both \in SUBSET K /\ Kind("catalog") \in SUBSET K /\ Kind("content") \in SUBSET K
      /\ oddWhole \in SUBSET K /\ oddRest \in SUBSET K /\ odd \in SUBSET K
      /\ \A c \in ReaderCommands : {EndOf(c)} \in SUBSET K
      /\ {"catalog", "content", "save"} = ReaderCommands
  BY DEF OfReader, ReaderCommands
<1>2. /\ None(ui, both) <=> None(ui', both)
      /\ None(ui, Kind("catalog")) <=> None(ui', Kind("catalog"))
      /\ None(ui, Kind("content")) <=> None(ui', Kind("content"))
      /\ None(ui, oddWhole) => None(ui', oddWhole)
      /\ None(ui, oddRest) => None(ui', oddRest)
      /\ None(ui, odd) => None(ui', odd)
      /\ Once(ui, both) => Once(ui', both)
      /\ Ordered(ui, both, {EndOf("catalog")}) => Ordered(ui', both, {EndOf("catalog")})
      /\ Ordered(ui, Kind("content"), {EndOf("content")}) => Ordered(ui', Kind("content"), {EndOf("content")})
  <2> HIDE DEF both, oddWhole, oddRest, odd
  <2> QED
    BY <1>1 DEF Keeps
<1>3. cmd'["catalog"] = cmd["catalog"] /\ cmd'["content"] = cmd["content"] /\ cmd'["save"] = cmd["save"]
  BY <1>1
<1>4. ReaderTypes' /\ (reader.text = reader.title)'
  BY <1>3 DEF ReaderScreenInv, ReaderTypes, Executing
<1>5. CatalogInv => CatalogInv'
  BY <1>2, <1>3 DEF CatalogInv
<1>6. TitleInv => TitleInv'
  BY <1>2, <1>3 DEF TitleInv, Executing
<1> QED
  BY <1>4, <1>5, <1>6 DEF ReaderScreenInv

\* The source manager stays true while its tasks and commands are left alone.
LEMMA ManagerRests ==
  ASSUME ManagerInv, NEW K, Keeps(ui, ui', K), OfManager \subseteq K,
         {EndOf(c) : c \in ManagerCommands} \subseteq K,
         manager' = manager, \A c \in ManagerCommands : cmd'[c] = cmd[c]
  PROVE  ManagerInv'
<1> DEFINE over == Kind("validated")
           graded == Kind("progress")
           shown == Kind("sources")
           strange == {t \in shown : t.got[1] # Now}
<1>1. /\ over \in SUBSET K /\ graded \in SUBSET K /\ shown \in SUBSET K /\ strange \in SUBSET K
      /\ \A c \in ManagerCommands : {EndOf(c)} \in SUBSET K
  BY DEF OfManager
<1>2. /\ None(ui, over) <=> None(ui', over)
      /\ None(ui, graded) <=> None(ui', graded)
      /\ None(ui, shown) <=> None(ui', shown)
      /\ None(ui, strange) => None(ui', strange)
      /\ Once(ui, over) => Once(ui', over)
      /\ Once(ui, shown) => Once(ui', shown)
      /\ Number(ui, graded) = Number(ui', graded)
      /\ Ordered(ui, graded, over) => Ordered(ui', graded, over)
      /\ \A c \in ManagerCommands : Ordered(ui, shown, {EndOf(c)}) => Ordered(ui', shown, {EndOf(c)})
  <2> HIDE DEF over, graded, shown, strange
  <2> QED
    BY <1>1 DEF Keeps
<1>3. ManagerTypes'
  BY DEF ManagerInv, ManagerTypes, ManagerStates
<1>4. GradingInv'
  BY <1>2 DEF ManagerInv, GradingInv
<1>5. Now' = Now
  BY DEF Now
<1>6. ListInv => ListInv'
  BY <1>2, <1>5 DEF ListInv, Executing
<1> QED
  BY <1>3, <1>4, <1>6 DEF ManagerInv

\* Commands that have returned stay so while nobody takes their last task.
LEMMA EndsRest ==
  ASSUME EndInv, NEW K, Keeps(ui, ui', K), {EndOf(c) : c \in Commands} \subseteq K,
         \A c \in Commands : cmd'[c].at = "ending" <=> cmd[c].at = "ending"
  PROVE  EndInv'
<1>1. \A c \in Commands : {EndOf(c)} \in SUBSET K
  OBVIOUS
<1>2. \A c \in Commands : /\ None(ui, {EndOf(c)}) <=> None(ui', {EndOf(c)})
                          /\ Once(ui, {EndOf(c)}) => Once(ui', {EndOf(c)})
  BY <1>1 DEF Keeps
<1> QED
  BY <1>2 DEF EndInv

\* None of a set, none of a smaller one.
LEMMA NoneOfFewer == \A q, S, T : None(q, S) /\ T \subseteq S => None(q, T)
  BY DEF None

\* The search keeps what is said of it.
LEMMA SearchKeeps1 ==
  ASSUME CmdTypes, EndInv, SearchInv, SearchStep
  PROVE  SearchInv'
<1> DEFINE clear == Kind("clear")
           append == Kind("append")
           ends == {EndOf("search")}
           strange(of) == {t \in append : t.of # of}
<1>0. "search" \in Commands /\ ui \in Seq(UiTasks)
  BY DEF Commands, CmdTypes
<1>1. CASE ClickSearch
  <2>1. /\ Click("search") /\ Execute("search", Head(clicks).of) /\ ui' = ui
        /\ search' = [search EXCEPT !.cancel = FALSE, !.late = 0]
    BY <1>1 DEF ClickSearch
  <2>2. Head(clicks).of \in Keys /\ Head(clicks).of \in Wants
    BY <2>1, Clicked1, ViewFacts
  <2>3. /\ search' \in [cancel : BOOLEAN, left : 0 .. Found, sum : Nat, results : Seq(Hits),
                        total : Nat, late : {0, 1}]
        /\ search'.late = 0 /\ search'.left = search.left /\ search'.sum = search.sum
        /\ search'.results = search.results /\ search'.total = search.total
    BY <2>1 DEF SearchInv
  <2>4. CASE Executing("search")
    <3>1. cmd' = cmd
      BY <1>0, <2>1, <2>2, <2>4, IsBegun
    <3> QED
      BY <2>1, <2>3, <3>1 DEF SearchInv
  <2>5. CASE ~Executing("search")
    <3>1. cmd["search"].at = "idle" /\ cmd'["search"].at = "begun" /\ cmd'["search"].of \in Keys
      BY <1>0, <2>1, <2>2, <2>5, IsBegun DEF Executing
    <3>2. None(ui, append) /\ None(ui, strange(cmd'["search"].of))
      BY <3>1, NoneOfFewer DEF SearchInv
    <3> QED
      BY <2>1, <2>3, <3>1, <3>2 DEF SearchInv
  <2> QED
    BY <2>4, <2>5
<1>2. CASE ClickCancel
  <2>1. UNCHANGED <<ui, cmd>> /\ search' = [search EXCEPT !.cancel = TRUE]
    BY <1>2 DEF ClickCancel
  <2>2. /\ search' \in [cancel : BOOLEAN, left : 0 .. Found, sum : Nat, results : Seq(Hits),
                        total : Nat, late : {0, 1}]
        /\ search'.cancel = TRUE
        /\ search'.late = search.late /\ search'.left = search.left /\ search'.sum = search.sum
        /\ search'.results = search.results /\ search'.total = search.total
    BY <2>1 DEF SearchInv
  <2> QED
    BY <2>1, <2>2 DEF SearchInv
<1>3. CASE SearchBegins
  <2> DEFINE t == Task("clear")
  <2>1. /\ cmd["search"].at = "begun" /\ ui' = Append(ui, t)
        /\ search' = [search EXCEPT !.left = Found, !.sum = 0]
        /\ Continues("search", "asking", <<>>)
    BY <1>3 DEF SearchBegins, PostTask
  <2>2. /\ search' \in [cancel : BOOLEAN, left : 0 .. Found, sum : Nat, results : Seq(Hits),
                        total : Nat, late : {0, 1}]
        /\ search'.cancel = search.cancel /\ search'.late = search.late /\ search'.sum = 0
        /\ search'.results = search.results
    <3>1. Found \in 0 .. Found /\ 0 \in Nat
      BY ViewFacts
    <3>2. search' = [search EXCEPT !.left = Found, !.sum = 0]
      BY <2>1
    <3>3. search \in [cancel : BOOLEAN, left : 0 .. Found, sum : Nat, results : Seq(Hits),
                      total : Nat, late : {0, 1}]
      BY DEF SearchInv
    <3> QED
      BY <3>1, <3>2, <3>3
  <2>3. cmd'["search"].at = "asking" /\ cmd'["search"].of = cmd["search"].of
    BY <1>0, <2>1, GoesOn, StepFacts, GotFacts
  <2>4. t \in clear /\ t \notin append /\ t \notin ends /\ t \in UiTasks
    BY TaskFacts DEF Kind, Task, EndOf
  <2>5. Added(ui, t, ui')
    BY <1>0, <2>1, <2>4, AddFacts
  <2>6. None(ui, clear) /\ None(ui, append)
    BY <2>1 DEF SearchInv
  <2>7. None(ui', append) /\ ~None(ui', clear) /\ Number(ui', append) = 0 /\ Once(ui', clear)
    BY <2>4, <2>5, <2>6, NoneCounted DEF Added, SearchInv
  <2>8. Ordered(ui', clear, append) /\ Ordered(ui', append, ends)
    BY <2>4, <2>5, <2>6 DEF Added, SearchInv
  <2>9. Ordered(ui', clear, ends)
    <3>1. None(ui, ends)
      BY <1>0, <2>1 DEF EndInv
    <3> QED
      BY <2>4, <2>5, <3>1 DEF Added, SearchInv
  <2>10. None(ui', strange(cmd'["search"].of))
    BY <2>7, NoneOfFewer
  <2> QED
    BY <2>1, <2>2, <2>3, <2>7, <2>8, <2>9, <2>10 DEF SearchInv
<1>4. CASE SourceAnswers \/ SearchReturns
  <2>1. /\ ui' = ui /\ cmd["search"].at = "asking"
        /\ \/ cmd' = cmd /\ \E n \in 0 .. Found : search' = [search EXCEPT !.left = n]
           \/ /\ search' = search
              /\ \/ Continues("search", "emit", <<>>) /\ ~search.cancel /\ search.left > 0
                 \/ Continues("search", "return", <<>>)
    <3>1. search.left > 0 => search.left - 1 \in 0 .. Found
      BY ViewFacts DEF SearchInv
    <3> QED
      BY <1>4, <3>1 DEF SourceAnswers, SearchReturns
  <2>2. CASE cmd' = cmd /\ \E n \in 0 .. Found : search' = [search EXCEPT !.left = n]
    <3>1. PICK n \in 0 .. Found : search' = [search EXCEPT !.left = n]
      BY <2>2
    <3>2. /\ search' \in [cancel : BOOLEAN, left : 0 .. Found, sum : Nat, results : Seq(Hits),
                          total : Nat, late : {0, 1}]
          /\ search'.cancel = search.cancel /\ search'.late = search.late /\ search'.sum = search.sum
          /\ search'.results = search.results /\ search'.total = search.total
      BY <3>1 DEF SearchInv
    <3> QED
      BY <2>1, <2>2, <3>2 DEF SearchInv
  <2>3. CASE search' = search /\ \E label \in {"emit", "return"} :
               Continues("search", label, <<>>) /\ (label = "emit" => ~search.cancel /\ search.left > 0)
    <3>1. PICK label \in {"emit", "return"} :
               Continues("search", label, <<>>) /\ (label = "emit" => ~search.cancel /\ search.left > 0)
      BY <2>3
    <3>2. cmd'["search"].at = label /\ cmd'["search"].of = cmd["search"].of
      BY <1>0, <3>1, GoesOn, StepFacts, GotFacts
    <3> QED
      BY <2>1, <2>3, <3>1, <3>2 DEF SearchInv
  <2> QED
    BY <2>1, <2>2, <2>3
<1>5. CASE Emit
  <2> DEFINE t == [is |-> "append", of |-> cmd["search"].of, got |-> <<>>]
  <2>1. /\ cmd["search"].at = "emit" /\ ui' = Append(ui, t)
        /\ search' = [search EXCEPT !.sum = @ + 1, !.left = @ - 1,
                                    !.late = IF search.cancel THEN @ + 1 ELSE @]
        /\ Continues("search", "asking", <<>>)
    BY <1>5 DEF Emit, PostTask
  <2>2. /\ search.late = 0 /\ search.left \in 1 .. Found /\ search.sum \in Nat /\ search.cancel \in BOOLEAN
        /\ search.left - 1 \in 0 .. Found /\ search.sum + 1 \in Nat
    BY <2>1, ViewFacts DEF SearchInv
  <2>3. /\ search' \in [cancel : BOOLEAN, left : 0 .. Found, sum : Nat, results : Seq(Hits),
                        total : Nat, late : {0, 1}]
        /\ search'.cancel = search.cancel /\ search'.sum = search.sum + 1
        /\ search'.late = (IF search.cancel THEN 1 ELSE 0)
        /\ search'.results = search.results
    <3> DEFINE l == IF search.cancel THEN 1 ELSE 0
    <3>1. search' = [search EXCEPT !.sum = search.sum + 1, !.left = search.left - 1, !.late = l]
      BY <2>1, <2>2
    <3>2. l \in {0, 1}
      OBVIOUS
    <3> HIDE DEF l
    <3>3. /\ search' \in [cancel : BOOLEAN, left : 0 .. Found, sum : Nat, results : Seq(Hits),
                          total : Nat, late : {0, 1}]
          /\ search'.cancel = search.cancel /\ search'.sum = search.sum + 1
          /\ search'.late = l /\ search'.results = search.results
      BY <2>2, <3>1, <3>2 DEF SearchInv
    <3> QED
      BY <3>3 DEF l
  <2>4. cmd'["search"].at = "asking" /\ cmd'["search"].of = cmd["search"].of
    BY <1>0, <2>1, GoesOn, StepFacts, GotFacts
  <2>5. t \notin clear /\ t \in append /\ t \notin ends /\ t \in UiTasks /\ t.of = cmd["search"].of
    BY <2>1, TaskFacts DEF Kind, EndOf, SearchInv
  <2>6. Added(ui, t, ui')
    BY <1>0, <2>1, <2>5, AddFacts
  <2> HIDE DEF t, clear, append, ends
  <2>7. /\ (None(ui', clear) <=> None(ui, clear)) /\ Once(ui', clear) /\ Ordered(ui', clear, append)
        /\ Ordered(ui', clear, ends) /\ Number(ui', append) = Number(ui, append) + 1
        /\ Number(ui, append) \in Nat
    <3>1. Once(ui, clear) /\ Ordered(ui, clear, append) /\ Ordered(ui, clear, ends)
      BY DEF SearchInv, clear, append, ends
    <3> QED
      BY <2>5, <2>6, <3>1 DEF Added
  <2>8. None(ui, ends)
    <3>1. \A c \in Commands : ~None(ui, {EndOf(c)}) => cmd[c].at = "ending"
      BY DEF EndInv
    <3> QED
      BY <1>0, <2>1, <3>1 DEF ends
  <2>9. Ordered(ui', append, ends)
    <3>1. Ordered(ui, append, ends)
      BY DEF SearchInv, append, ends
    <3> QED
      BY <2>5, <2>6, <2>8, <3>1 DEF Added
  <2>10. None(ui', strange(cmd'["search"].of))
    <3>1. None(ui, strange(cmd["search"].of))
      BY DEF SearchInv, append
    <3>2. t \notin strange(cmd["search"].of)
      BY <2>5
    <3> HIDE DEF strange
    <3> QED
      BY <2>4, <2>6, <3>1, <3>2 DEF Added
  <2>11. None(ui, clear) => Len(search.results) + Number(ui, append) = search.sum
    BY <2>1 DEF SearchInv, clear, append
  <2>12. Len(search.results) \in Nat
    BY DEF SearchInv
  <2>13. None(ui', clear) => Len(search'.results) + Number(ui', append) = search'.sum
    BY <2>3, <2>7, <2>11, <2>12
  <2>14. ~None(ui', clear) => Number(ui', append) = search'.sum
    BY <2>1, <2>3, <2>7 DEF SearchInv, clear, append
  <2> QED
    BY <2>1, <2>2, <2>3, <2>4, <2>7, <2>9, <2>10, <2>13, <2>14 DEF SearchInv, clear, append, ends
<1>6. CASE ShowResults
  <2> DEFINE t == Head(ui)
  <2>1. /\ cmd' = cmd
        /\ \/ Posted("clear") /\ search' = [search EXCEPT !.results = <<>>]
           \/ Posted("append") /\ search' = [search EXCEPT !.results = @ \o t.of]
    BY <1>6 DEF ShowResults
  <2>2. Taken(ui, t, ui') /\ (t \in clear \/ t \in append)
    BY <2>1, Posted1
  <2>3. cmd["search"].at \notin {"idle", "begun"}
    BY <2>2 DEF Taken, SearchInv
  <2> HIDE DEF t, clear, append, ends
  <2>4. /\ Once(ui', clear) /\ Ordered(ui', clear, append) /\ Ordered(ui', clear, ends)
        /\ Ordered(ui', append, ends) /\ None(ui', strange(cmd["search"].of))
    <3>1. /\ Once(ui, clear) /\ Ordered(ui, clear, append) /\ Ordered(ui, clear, ends)
          /\ Ordered(ui, append, ends) /\ None(ui, strange(cmd["search"].of))
      BY DEF SearchInv, clear, append, ends
    <3> HIDE DEF strange
    <3> QED
      BY <2>2, <3>1 DEF Taken
  <2>5. t \notin clear \/ t \notin append
    BY DEF clear, append, Kind
  <2>6. CASE Posted("clear") /\ search' = [search EXCEPT !.results = <<>>]
    <3>1. t \in clear
      BY <2>6, Posted1 DEF clear, t
    <3>2. ~None(ui, clear) /\ None(ui', clear) /\ Number(ui', append) = Number(ui, append)
          /\ Number(ui', append) \in Nat
      <4>1. Once(ui, clear)
        BY DEF SearchInv, clear
      <4> QED
        BY <2>2, <2>5, <3>1, <4>1 DEF Taken
    <3>3. /\ search' \in [cancel : BOOLEAN, left : 0 .. Found, sum : Nat, results : Seq(Hits),
                          total : Nat, late : {0, 1}]
          /\ search'.cancel = search.cancel /\ search'.late = search.late /\ search'.sum = search.sum
          /\ search'.results = <<>> /\ Len(search'.results) = 0 /\ search'.left = search.left
      <4>1. <<>> \in Seq(Hits) /\ Len(<<>>) = 0
        OBVIOUS
      <4> QED
        BY <2>6, <4>1 DEF SearchInv
    <3>4. Number(ui, append) = search.sum
      BY <2>3, <3>2 DEF SearchInv, clear, append
    <3>5. Len(search'.results) + Number(ui', append) = search'.sum
      BY <3>2, <3>3, <3>4
    <3>6. DOMAIN search'.results = {}
      BY <3>3
    <3> QED
      BY <2>1, <2>3, <2>4, <3>2, <3>3, <3>5, <3>6 DEF SearchInv, clear, append, ends
  <2>7. CASE Posted("append") /\ search' = [search EXCEPT !.results = @ \o t.of]
    <3>1. t \in append /\ t \in UiTasks /\ t.is = "append"
      BY <2>7, Posted1 DEF append, t, Kind
    <3>2. /\ t \notin clear /\ t.of = cmd["search"].of
      <4>1. None(ui, strange(cmd["search"].of))
        BY DEF SearchInv, append
      <4>2. t \notin strange(cmd["search"].of)
        <5> HIDE DEF strange
        <5> QED
          BY <2>2, <4>1 DEF Taken
      <4> QED
        BY <2>5, <3>1, <4>2
    <3>3. None(ui, clear) /\ None(ui', clear)
      <4>1. Ordered(ui, clear, append)
        BY DEF SearchInv, clear, append
      <4>2. None(ui, clear)
        BY <2>2, <3>1, <4>1 DEF Taken
      <4> QED
        BY <2>2, <4>2 DEF Taken
    <3>4. Number(ui, append) = Number(ui', append) + 1 /\ Number(ui', append) \in Nat
      BY <2>2, <3>1 DEF Taken
    <3>5. PICK x \in Hits : t.of = <<x>> /\ cmd["search"].of[1] = x
      <4>1. t.of \in Keys
        BY <3>1, TaskFacts
      <4>2. t.of = <<t.of[1]>> /\ t.of[1] \in Hits
        BY <4>1, ViewFacts
      <4> QED
        BY <3>2, <4>2
    <3>6. /\ search.results \in Seq(Hits) /\ search.sum \in Nat
          /\ Len(search.results) + Number(ui, append) = search.sum
          /\ \A k \in DOMAIN search.results : search.results[k] = x
      BY <2>3, <3>3, <3>5 DEF SearchInv, clear, append
    <3> DEFINE more == search.results \o <<x>>
    <3>7. /\ more \in Seq(Hits) /\ Len(more) = Len(search.results) + 1
          /\ \A k \in DOMAIN more : more[k] = x
      <4>1. <<x>> \in Seq(Hits) /\ Len(<<x>>) = 1 /\ <<x>>[1] = x
        OBVIOUS
      <4>2. /\ more \in Seq(Hits) /\ Len(more) = Len(search.results) + Len(<<x>>)
            /\ \A k \in 1 .. Len(search.results) + Len(<<x>>) :
                  more[k] = IF k <= Len(search.results) THEN search.results[k]
                            ELSE <<x>>[k - Len(search.results)]
        BY <3>6, <4>1, ConcatProperties
      <4> HIDE DEF more
      <4>3. DOMAIN more = 1 .. Len(search.results) + 1 /\ DOMAIN search.results = 1 .. Len(search.results)
            /\ Len(search.results) \in Nat
        BY <3>6, <4>1, <4>2
      <4>4. \A k \in DOMAIN more : more[k] = x
        <5> TAKE k \in DOMAIN more
        <5>1. CASE k <= Len(search.results)
          BY <3>6, <4>1, <4>2, <4>3, <5>1
        <5>2. CASE ~(k <= Len(search.results))
          <6>1. k - Len(search.results) = 1
            BY <4>3, <5>2
          <6> QED
            BY <4>1, <4>2, <4>3, <5>2, <6>1
        <5> QED
          BY <5>1, <5>2
      <4> QED
        BY <4>1, <4>2, <4>4
    <3>8. search' = [search EXCEPT !.results = more]
      BY <2>7, <3>5
    <3> HIDE DEF more
    <3>9. /\ search' \in [cancel : BOOLEAN, left : 0 .. Found, sum : Nat, results : Seq(Hits),
                          total : Nat, late : {0, 1}]
          /\ search'.cancel = search.cancel /\ search'.late = search.late /\ search'.sum = search.sum
          /\ search'.results = more /\ search'.left = search.left
      BY <3>7, <3>8 DEF SearchInv
    <3>10. Len(search'.results) + Number(ui', append) = search'.sum
      BY <3>4, <3>6, <3>7, <3>9
    <3>11. \A k \in DOMAIN search'.results : search'.results[k] = cmd["search"].of[1]
      BY <3>5, <3>7, <3>9
    <3> QED
      BY <2>1, <2>3, <2>4, <3>3, <3>9, <3>10, <3>11 DEF SearchInv, clear, append, ends
  <2> QED
    BY <2>1, <2>6, <2>7
<1> QED
  BY <1>1, <1>2, <1>3, <1>4, <1>5, <1>6 DEF SearchStep

\* The bookshelf keeps what is said of it.
LEMMA ShelfKeeps1 ==
  ASSUME CmdTypes, EndInv, ShelfScreenInv, ShelfStep
  PROVE  ShelfScreenInv'
<1> DEFINE shown == Kind("shelf")
           strange(table) == {t \in shown : t.got[1] # table}
<1>0. /\ ShelfCommands \subseteq Commands /\ ui \in Seq(UiTasks) /\ ShelfTypes
      /\ "add" \in ShelfCommands /\ "remove" \in ShelfCommands /\ "load" \in ShelfCommands
  BY DEF Commands, CmdTypes, ShelfCommands, ShelfScreenInv
<1>1. CASE ClickShelf
  <2>1. PICK c \in ShelfCommands :
          /\ Click(c) /\ Execute(c, Head(clicks).of) /\ ui' = ui
          /\ shelfView' = [shelfView EXCEPT !.overlap = @ \/ AnyAtWork]
    BY <1>1 DEF ClickShelf
  <2>2. /\ Head(clicks).of \in Wants /\ c \in Commands
        /\ c \in {"add", "remove"} => Head(clicks).of \in Seq(Books)
    BY <1>0, <2>1, Clicked1, ViewFacts
  <2>3. /\ Executing(c) => cmd' = cmd
        /\ ~Executing(c) => cmd'[c].at = "begun" /\ cmd'[c].of = Head(clicks).of
        /\ \A d \in Commands \ {c} : cmd'[d] = cmd[d]
    BY <2>1, <2>2, IsBegun
  <2>4. /\ shelfView' \in [table : SUBSET Books, shown : SUBSET Books, overlap : BOOLEAN]
        /\ shelfView'.overlap = (shelfView.overlap \/ AnyAtWork)
        /\ shelfView'.shown = shelfView.shown /\ shelfView'.table = shelfView.table
    BY <1>0, <2>1 DEF ShelfTypes
  <2>5. ShelfTypes'
    BY <1>0, <2>2, <2>3, <2>4 DEF ShelfTypes
  <2>6. CASE shelfView'.overlap
    BY <2>5, <2>6 DEF ShelfScreenInv
  <2>7. CASE ~shelfView'.overlap
    <3>1. ~shelfView.overlap /\ ~AnyAtWork
      BY <2>4, <2>7
    <3>2. RowsInv /\ \A d \in Commands : ~Executing(d)
      BY <3>1 DEF AnyAtWork, ShelfScreenInv
    <3>3. /\ None(ui', shown) /\ None(ui', strange(shelfView'.table))
          /\ Once(ui', shown) /\ \A d \in ShelfCommands : Ordered(ui', shown, {EndOf(d)})
      BY <1>0, <2>1, <2>4, <3>2 DEF RowsInv, Executing, Late
    <3>4. cmd'[c].at = "begun" /\ \A d \in ShelfCommands \ {c} : cmd'[d].at = "idle"
      BY <1>0, <2>2, <2>3, <3>2 DEF Executing
    <3> QED
      BY <2>5, <2>1, <3>3, <3>4 DEF ShelfScreenInv, RowsInv, Executing, Late
  <2> QED
    BY <2>6, <2>7
<1>2. ASSUME NEW c \in ShelfCommands, NEW label \in StepsOf(c) \ {"ending", "idle"}, NEW got \in Gots,
             Continues(c, label, got), cmd[c].at \notin Late \union {"idle"},
             label = "read" => got \in Seq(SUBSET Books) \ {<<>>},
             shelfView' \in [table : SUBSET Books, shown : SUBSET Books, overlap : BOOLEAN],
             shelfView'.overlap = shelfView.overlap
      PROVE  /\ ShelfTypes'
             /\ cmd'[c].at = label /\ cmd'[c].got = got
             /\ \A d \in ShelfCommands \ {c} : cmd'[d] = cmd[d]
             /\ ~shelfView.overlap =>
                  /\ RowsInv /\ None(ui, shown) /\ \A d \in ShelfCommands \ {c} : cmd[d].at = "idle"
                  /\ \A d \in ShelfCommands : None(ui, {EndOf(d)})
  <2>1. /\ cmd'[c].at = label /\ cmd'[c].got = got /\ cmd'[c].of = cmd[c].of
        /\ \A d \in ShelfCommands \ {c} : cmd'[d] = cmd[d]
    BY <1>0, <1>2, GoesOn
  <2>2. ShelfTypes'
    BY <1>0, <1>2, <2>1 DEF ShelfTypes
  <2>3. ASSUME ~shelfView.overlap
        PROVE  /\ RowsInv /\ None(ui, shown) /\ \A d \in ShelfCommands \ {c} : cmd[d].at = "idle"
               /\ \A d \in ShelfCommands : None(ui, {EndOf(d)})
    <3>1. RowsInv
      BY <2>3 DEF ShelfScreenInv
    <3>2. \A d \in ShelfCommands \ {c} : cmd[d].at = "idle"
      BY <1>2, <3>1 DEF RowsInv, Executing
    <3>3. None(ui, shown)
      BY <1>2, <3>1, <3>2 DEF RowsInv, Late
    <3>4. \A d \in ShelfCommands : cmd[d].at # "ending"
      BY <1>2, <3>2 DEF Late
    <3> QED
      BY <1>0, <3>1, <3>2, <3>3, <3>4 DEF EndInv
  <2> QED
    BY <2>1, <2>2, <2>3
<1>3. CASE ShelfChanges
  <2>1. PICK c \in {"remove", "add"} :
          /\ cmd[c].at = "begun" /\ Continues(c, "changed", <<>>) /\ ui' = ui
          /\ shelfView' = [shelfView EXCEPT !.table = IF c = "add" THEN @ \union ToSet(cmd[c].of)
                                                      ELSE @ \ ToSet(cmd[c].of)]
    BY <1>3 DEF ShelfChanges
  <2> DEFINE table == IF c = "add" THEN shelfView.table \union ToSet(cmd[c].of)
                      ELSE shelfView.table \ ToSet(cmd[c].of)
  <2>2. table \in SUBSET Books
    <3>1. cmd[c].of \in Seq(Books) /\ shelfView.table \in SUBSET Books
      BY <1>0, <2>1 DEF ShelfTypes
    <3>2. ToSet(cmd[c].of) \subseteq Books
      BY <3>1 DEF ToSet
    <3> QED
      BY <3>1, <3>2
  <2>3. shelfView' = [shelfView EXCEPT !.table = table]
    BY <2>1
  <2> HIDE DEF table
  <2>4. /\ shelfView' \in [table : SUBSET Books, shown : SUBSET Books, overlap : BOOLEAN]
        /\ shelfView'.overlap = shelfView.overlap
    BY <1>0, <2>2, <2>3 DEF ShelfTypes
  <2>5. /\ c \in ShelfCommands /\ "changed" \in StepsOf(c) \ {"ending", "idle"} /\ <<>> \in Gots
        /\ cmd[c].at \notin Late \union {"idle"}
    BY <1>0, <2>1, StepFacts, GotFacts DEF Late
  <2>6. /\ ShelfTypes' /\ cmd'[c].at = "changed" /\ \A d \in ShelfCommands \ {c} : cmd'[d] = cmd[d]
        /\ ~shelfView.overlap =>
             RowsInv /\ None(ui, shown) /\ \A d \in ShelfCommands \ {c} : cmd[d].at = "idle"
    BY <1>2, <2>1, <2>4, <2>5
  <2>7. CASE ~shelfView.overlap
    <3>1. None(ui', shown) /\ None(ui', strange(shelfView'.table))
      BY <2>1, <2>6, <2>7, NoneOfFewer
    <3> QED
      BY <2>1, <2>5, <2>6, <2>7, <3>1 DEF ShelfScreenInv, RowsInv, Executing, Late
  <2> QED
    BY <2>4, <2>6, <2>7 DEF ShelfScreenInv
<1>4. CASE ShelfReads
  <2>1. PICK c \in ShelfCommands :
          /\ cmd[c].at = (IF c = "load" THEN "begun" ELSE "changed")
          /\ Continues(c, "read", <<shelfView.table>>) /\ UNCHANGED <<ui, shelfView>>
    BY <1>4 DEF ShelfReads
  <2> DEFINE g == <<shelfView.table>>
  <2>2. g \in Seq(SUBSET Books) \ {<<>>} /\ g \in Gots /\ g[1] = shelfView.table
    <3>1. shelfView.table \in SUBSET Books
      BY <1>0 DEF ShelfTypes
    <3>2. g \in Seq(SUBSET Books) \ {<<>>} /\ g[1] = shelfView.table
      BY <3>1
    <3> QED
      BY <3>2, GotFacts
  <2>3. "read" \in StepsOf(c) \ {"ending", "idle"} /\ cmd[c].at \notin Late \union {"idle"}
    BY <2>1, StepFacts DEF Late, ShelfCommands
  <2>4. /\ shelfView' \in [table : SUBSET Books, shown : SUBSET Books, overlap : BOOLEAN]
        /\ shelfView'.overlap = shelfView.overlap /\ Continues(c, "read", g)
    BY <1>0, <2>1 DEF ShelfTypes
  <2> HIDE DEF g
  <2>6. /\ ShelfTypes' /\ cmd'[c].at = "read" /\ cmd'[c].got = g
        /\ \A d \in ShelfCommands \ {c} : cmd'[d] = cmd[d]
        /\ ~shelfView.overlap =>
             RowsInv /\ None(ui, shown) /\ \A d \in ShelfCommands \ {c} : cmd[d].at = "idle"
    BY <1>2, <2>2, <2>3, <2>4
  <2>7. CASE ~shelfView.overlap
    BY <2>1, <2>2, <2>6, <2>7 DEF ShelfScreenInv, RowsInv, Executing, Late
  <2> QED
    BY <2>4, <2>6, <2>7 DEF ShelfScreenInv
<1>5. CASE ShelfPosts
  <2>1. PICK c \in ShelfCommands :
          /\ cmd[c].at = "read" /\ Continues(c, "return", cmd[c].got) /\ shelfView' = shelfView
          /\ PostTask([is |-> "shelf", of |-> <<>>, got |-> cmd[c].got])
    BY <1>5 DEF ShelfPosts
  <2> DEFINE t == [is |-> "shelf", of |-> <<>>, got |-> cmd[c].got]
  <2>2. t \in shown /\ t \in UiTasks /\ t.got = cmd[c].got /\ ui' = Append(ui, t)
    BY <1>0, <2>1, TaskFacts DEF Kind, ShelfTypes, PostTask
  <2>3. /\ "return" \in StepsOf(c) \ {"ending", "idle"} /\ cmd[c].at \notin Late \union {"idle"}
        /\ cmd[c].got \in Gots
    BY <1>0, <2>1, StepFacts DEF Late, ShelfCommands, CmdTypes
  <2>4. /\ shelfView' \in [table : SUBSET Books, shown : SUBSET Books, overlap : BOOLEAN]
        /\ shelfView'.overlap = shelfView.overlap /\ shelfView'.table = shelfView.table
    BY <1>0, <2>1 DEF ShelfTypes
  <2>5. Added(ui, t, ui') /\ \A d \in ShelfCommands : t \notin {EndOf(d)}
    <3>1. \A d \in ShelfCommands : EndOf(d).is # t.is
      BY <1>0, EndsDiffer
    <3> HIDE DEF t
    <3> QED
      BY <1>0, <2>2, <3>1, AddFacts
  <2> HIDE DEF t
  <2>6. /\ ShelfTypes' /\ cmd'[c].at = "return"
        /\ \A d \in ShelfCommands \ {c} : cmd'[d] = cmd[d]
        /\ ~shelfView.overlap =>
             /\ RowsInv /\ None(ui, shown) /\ \A d \in ShelfCommands \ {c} : cmd[d].at = "idle"
             /\ \A d \in ShelfCommands : None(ui, {EndOf(d)})
    BY <1>2, <2>1, <2>3, <2>4
  <2>7. CASE ~shelfView.overlap
    <3>1. t \notin strange(shelfView.table) /\ None(ui, strange(shelfView.table))
      BY <2>1, <2>2, <2>6, <2>7, NoneOfFewer DEF RowsInv
    <3>2. None(ui', strange(shelfView'.table))
      <4> HIDE DEF strange
      <4> QED
        BY <2>4, <2>5, <3>1 DEF Added
    <3> HIDE DEF shown
    <3>3. /\ Once(ui', shown) /\ ~None(ui', shown)
          /\ \A d \in ShelfCommands : Ordered(ui', shown, {EndOf(d)})
      <4>1. Once(ui, shown) /\ \A d \in ShelfCommands : Ordered(ui, shown, {EndOf(d)})
        BY <2>6, <2>7 DEF RowsInv, shown
      <4> QED
        BY <2>2, <2>5, <2>6, <2>7, <4>1 DEF Added
    <3> QED
      BY <2>4, <2>6, <2>7, <3>2, <3>3 DEF ShelfScreenInv, RowsInv, Executing, Late, shown
  <2> QED
    BY <2>4, <2>6, <2>7 DEF ShelfScreenInv
<1>6. CASE ShowShelf
  <2> DEFINE t == Head(ui)
  <2>1. Posted("shelf") /\ cmd' = cmd /\ shelfView' = [shelfView EXCEPT !.shown = t.got[1]]
    BY <1>6 DEF ShowShelf
  <2>2. Taken(ui, t, ui') /\ t \in shown /\ t \in UiTasks /\ t.is = "shelf"
    BY <2>1, Posted1 DEF Kind
  <2> HIDE DEF t
  <2>3. t.got[1] \in SUBSET Books
    <3>1. t.got \in Seq(SUBSET Books) /\ t.got # <<>>
      BY <2>2, TaskFacts
    <3> QED
      BY <3>1
  <2>4. /\ shelfView' \in [table : SUBSET Books, shown : SUBSET Books, overlap : BOOLEAN]
        /\ shelfView'.overlap = shelfView.overlap /\ shelfView'.table = shelfView.table
        /\ shelfView'.shown = t.got[1]
    BY <1>0, <2>1, <2>3 DEF ShelfTypes
  <2>5. ShelfTypes'
    BY <1>0, <2>1, <2>4 DEF ShelfTypes
  <2>6. CASE ~shelfView.overlap
    <3>1. RowsInv
      BY <2>6 DEF ShelfScreenInv
    <3>2. /\ None(ui, strange(shelfView.table)) /\ Once(ui, shown)
          /\ \A d \in ShelfCommands : Ordered(ui, shown, {EndOf(d)})
      BY <3>1 DEF RowsInv
    <3>3. t \notin strange(shelfView.table) /\ None(ui', strange(shelfView'.table))
      <4> HIDE DEF strange
      <4> QED
        BY <2>2, <2>4, <3>2 DEF Taken
    <3>4. t.got[1] = shelfView.table
      BY <2>2, <3>3
    <3> HIDE DEF shown
    <3>5. /\ Once(ui', shown) /\ None(ui', shown)
          /\ \A d \in ShelfCommands : Ordered(ui', shown, {EndOf(d)})
      BY <2>2, <3>2 DEF Taken
    <3> QED
      BY <2>1, <2>4, <2>5, <3>1, <3>3, <3>4, <3>5 DEF ShelfScreenInv, RowsInv, Executing, shown
  <2> QED
    BY <2>4, <2>5, <2>6 DEF ShelfScreenInv
<1> QED
  BY <1>1, <1>3, <1>4, <1>5, <1>6 DEF ShelfStep

\* The types of the reader's screen, and the text that goes with the title.
LEMMA ReaderTypesKept ==
  ASSUME CmdTypes, ReaderTypes, reader.text = reader.title, ReaderStep
  PROVE  ReaderTypes' /\ reader'.text = reader'.title /\ (reader.mixed => reader'.mixed)
<1>0. /\ "catalog" \in Commands /\ "content" \in Commands /\ "save" \in Commands
      /\ ui \in Seq(UiTasks) /\ reader \in ReaderStates /\ reader.mixed \in BOOLEAN
      /\ cmd["content"].at # "idle" => cmd["content"].of[1] \in Nat
      /\ cmd["catalog"].at = "read" => cmd["catalog"].got \in Seq(ShelfParts)
      /\ cmd["content"].at = "picked" => cmd["content"].got \in Seq(ShelfParts) \ {<<>>}
      /\ cmd["save"].at = "read" => cmd["save"].got \in Seq(Nat) \ {<<>>}
  BY DEF Commands, CmdTypes, ReaderTypes, ReaderStates, Executing
<1>1. CASE ClickBook \/ ClickChapter \/ ClickSave
  <2>1. PICK c \in {"catalog", "content", "save"}, of \in {<<>>, Head(clicks).of},
             b \in Books \union {NoBook}, m \in BOOLEAN :
          /\ Execute(c, of) /\ of \in Wants /\ (c = "content" => of[1] \in Nat)
          /\ reader' = [reader EXCEPT !.book = b, !.mixed = m] /\ (reader.mixed => m)
    <3>1. CASE ClickBook
      <4> DEFINE b == Head(clicks).of[1]
                 m == reader.mixed \/ Executing("catalog") \/ Executing("content")
      <4>1. Click("book") /\ Execute("catalog", <<>>) /\ reader' = [reader EXCEPT !.book = b, !.mixed = m]
        BY <3>1 DEF ClickBook
      <4>2. b \in Books /\ <<>> \in Wants /\ m \in BOOLEAN /\ (reader.mixed => m)
        BY <1>0, <4>1, Clicked1, ViewFacts
      <4> HIDE DEF b, m
      <4> QED
        BY <4>1, <4>2
    <3>2. CASE ClickChapter
      <4> DEFINE b == reader.book
                 m == reader.mixed \/ Executing("catalog") \/ Executing("save")
      <4>1. Click("chapter") /\ Execute("content", Head(clicks).of) /\ reader' = [reader EXCEPT !.mixed = m]
        BY <3>2 DEF ClickChapter
      <4>2. /\ Head(clicks).of \in Wants /\ Head(clicks).of[1] \in Nat /\ m \in BOOLEAN /\ (reader.mixed => m)
            /\ b \in Books \union {NoBook}
        BY <1>0, <4>1, Clicked1, ViewFacts DEF ReaderStates
      <4>3. reader' = [reader EXCEPT !.book = b, !.mixed = m]
        <5> HIDE DEF m
        <5> QED
          BY <1>0, <4>1, <4>2 DEF ReaderStates
      <4> HIDE DEF b, m
      <4> QED
        BY <4>1, <4>2, <4>3
    <3>3. CASE ClickSave
      <4> DEFINE b == reader.book
                 m == reader.mixed \/ Executing("content")
      <4>1. Click("save") /\ Execute("save", <<>>) /\ reader' = [reader EXCEPT !.mixed = m]
        BY <3>3 DEF ClickSave
      <4>2. <<>> \in Wants /\ m \in BOOLEAN /\ (reader.mixed => m) /\ b \in Books \union {NoBook}
        BY <1>0, ViewFacts DEF ReaderStates
      <4>3. reader' = [reader EXCEPT !.book = b, !.mixed = m]
        <5> HIDE DEF m
        <5> QED
          BY <1>0, <4>1, <4>2 DEF ReaderStates
      <4> HIDE DEF b, m
      <4> QED
        BY <4>1, <4>2, <4>3
    <3> QED
      BY <1>1, <3>1, <3>2, <3>3
  <2>2. /\ reader' \in ReaderStates /\ reader'.text = reader'.title /\ (reader.mixed => reader'.mixed)
    BY <1>0, <2>1 DEF ReaderStates
  <2>3. /\ Executing(c) => cmd' = cmd
        /\ ~Executing(c) => cmd'[c].at = "begun" /\ cmd'[c].of = of
        /\ \A d \in Commands \ {c} : cmd'[d] = cmd[d]
    BY <1>0, <2>1, IsBegun
  <2>4. ReaderTypes'
    BY <1>0, <2>1, <2>2, <2>3 DEF ReaderTypes, Executing
  <2> QED
    BY <2>2, <2>4
<1>2. CASE CatalogLoads \/ CatalogPosts
  <2>1. PICK label \in {"read", "return"}, got \in {ChaptersOf(reader.book), <<>>}, m \in BOOLEAN :
          /\ Continues("catalog", label, got) /\ (reader.mixed => m)
          /\ reader' = reader \/ reader' = [reader EXCEPT !.mixed = m]
    <3>1. (reader.mixed \/ reader.chapters # <<>>) \in BOOLEAN
      OBVIOUS
    <3> QED
      BY <1>2, <3>1 DEF CatalogLoads, CatalogPosts
  <2>2. got \in Seq(ShelfParts)
    <3>1. reader.book \in Books \union {NoBook}
      BY <1>0 DEF ReaderStates
    <3>2. ChapterOf(reader.book, 0) \in ShelfParts /\ ChapterOf(reader.book, 1) \in ShelfParts
      BY <3>1 DEF ChapterOf, ShelfParts
    <3>3. ChaptersOf(reader.book) \in Seq(ShelfParts)
      BY <3>2 DEF ChaptersOf
    <3>4. <<>> \in Seq(ShelfParts)
      OBVIOUS
    <3> QED
      BY <2>1, <3>3, <3>4
  <2>3. reader' \in ReaderStates /\ reader'.text = reader'.title /\ (reader.mixed => reader'.mixed)
    BY <1>0, <2>1 DEF ReaderStates
  <2>4. label \in StepsOf("catalog") /\ got \in Gots
    BY <2>1, <2>2, StepFacts, GotFacts
  <2>5. cmd'["catalog"].got = got /\ \A d \in Commands \ {"catalog"} : cmd'[d] = cmd[d]
    BY <1>0, <2>1, <2>4, GoesOn
  <2> QED
    BY <1>0, <2>2, <2>3, <2>5 DEF ReaderTypes, Executing
<1>3. CASE ApplyCatalog
  <2> DEFINE t == Head(ui)
  <2>1. /\ ui # <<>> /\ cmd' = cmd
        /\ \/ reader' = [reader EXCEPT !.chapters = <<>>]
           \/ t.is = "chapters" /\ reader' = [reader EXCEPT !.chapters = Append(@, Head(t.got))]
    BY <1>3 DEF ApplyCatalog
  <2>2. t \in UiTasks
    BY <1>0, <2>1, HeadTailProperties
  <2> HIDE DEF t
  <2>3. PICK l \in Seq(ShelfParts) : reader' = [reader EXCEPT !.chapters = l]
    <3>1. CASE reader' = [reader EXCEPT !.chapters = <<>>]
      <4>1. <<>> \in Seq(ShelfParts)
        OBVIOUS
      <4> QED
        BY <3>1, <4>1
    <3>2. CASE t.is = "chapters" /\ reader' = [reader EXCEPT !.chapters = Append(@, Head(t.got))]
      <4>1. t.got \in Seq(ShelfParts) /\ t.got # <<>> /\ reader.chapters \in Seq(ShelfParts)
        BY <1>0, <2>2, <3>2, TaskFacts DEF ReaderStates
      <4>2. Head(t.got) \in ShelfParts
        BY <4>1, HeadTailProperties
      <4>3. Append(reader.chapters, Head(t.got)) \in Seq(ShelfParts)
        BY <4>1, <4>2, AppendProperties
      <4> QED
        BY <3>2, <4>3
    <3> QED
      BY <2>1, <3>1, <3>2
  <2>4. reader' \in ReaderStates /\ reader'.text = reader'.title /\ (reader.mixed => reader'.mixed)
    BY <1>0, <2>3 DEF ReaderStates
  <2> QED
    BY <1>0, <2>1, <2>4 DEF ReaderTypes, Executing
<1>4. CASE ContentSizes \/ ContentPicks
  <2>1. PICK label \in {"sized", "picked", "return"}, got \in {<<>>} \union Seq(ShelfParts) :
          /\ Continues("content", label, got) /\ cmd["content"].at \in {"begun", "sized"}
          /\ reader' = reader /\ (label = "picked" => got \in Seq(ShelfParts) \ {<<>>})
    <3>1. CASE ContentSizes
      BY <3>1 DEF ContentSizes
    <3>2. CASE ContentPicks
      <4> DEFINE i == cmd["content"].of[1]
      <4>1. i \in Nat /\ cmd["content"].at = "sized" /\ reader' = reader
        BY <1>0, <3>2 DEF ContentPicks
      <4>2. CASE i < Len(reader.chapters)
        <5>1. Continues("content", "picked", <<reader.chapters[i + 1]>>)
          BY <3>2, <4>2 DEF ContentPicks
        <5>2. reader.chapters \in Seq(ShelfParts)
          BY <1>0 DEF ReaderStates
        <5> HIDE DEF i
        <5>3. reader.chapters[i + 1] \in ShelfParts
          BY <4>1, <4>2, <5>2
        <5>4. <<reader.chapters[i + 1]>> \in Seq(ShelfParts) \ {<<>>}
          BY <5>3
        <5> QED
          BY <4>1, <5>1, <5>4
      <4>3. CASE ~(i < Len(reader.chapters))
        BY <3>2, <4>1, <4>3 DEF ContentPicks
      <4> QED
        BY <4>2, <4>3
    <3> QED
      BY <1>4, <3>1, <3>2
  <2>2. label \in StepsOf("content") /\ got \in Gots
    BY <2>1, StepFacts, GotFacts
  <2>3. /\ cmd'["content"].at = label /\ cmd'["content"].got = got /\ cmd'["content"].of = cmd["content"].of
        /\ \A d \in Commands \ {"content"} : cmd'[d] = cmd[d]
    BY <1>0, <2>1, <2>2, GoesOn
  <2> QED
    BY <1>0, <2>1, <2>3 DEF ReaderTypes, Executing, ReaderStates
<1>5. CASE ContentLoads
  <2> DEFINE a == [book |-> reader.book, chapter |-> Head(cmd["content"].got)]
  <2>1. /\ cmd["content"].at = "picked" /\ Continues("content", "return", <<>>)
        /\ reader' = [reader EXCEPT !.asked = << a >>]
    BY <1>5 DEF ContentLoads
  <2>2. << a >> \in Seq([book : Books \union {NoBook}, chapter : ShelfParts])
    <3>1. Head(cmd["content"].got) \in ShelfParts /\ reader.book \in Books \union {NoBook}
      BY <1>0, <2>1, HeadTailProperties DEF ReaderStates
    <3> QED
      BY <3>1
  <2> HIDE DEF a
  <2>3. reader' \in ReaderStates /\ reader'.text = reader'.title /\ (reader.mixed => reader'.mixed)
    BY <1>0, <2>1, <2>2 DEF ReaderStates
  <2>4. "return" \in StepsOf("content") /\ <<>> \in Gots
    BY StepFacts, GotFacts
  <2>5. /\ cmd'["content"].at = "return" /\ cmd'["content"].of = cmd["content"].of
        /\ \A d \in Commands \ {"content"} : cmd'[d] = cmd[d]
    BY <1>0, <2>1, <2>4, GoesOn
  <2> QED
    BY <1>0, <2>1, <2>3, <2>5 DEF ReaderTypes, Executing
<1>6. CASE ApplyContent
  <2> DEFINE text == Head(ui).got[1]
             title == <<text.chapter>>
  <2>1. /\ Posted("content") /\ cmd' = cmd
        /\ reader' = [reader EXCEPT !.index = text.index, !.title = title, !.text = title]
    BY <1>6 DEF ApplyContent
  <2>2. text \in Loaded
    <3>1. Head(ui) \in UiTasks /\ Head(ui).is = "content"
      BY <2>1, Posted1 DEF Kind
    <3>2. Head(ui).got \in Seq(Loaded) /\ Head(ui).got # <<>>
      BY <3>1, TaskFacts
    <3> QED
      BY <3>2
  <2> HIDE DEF text
  <2>3. text.index \in Nat /\ text.chapter \in ShelfParts
    BY <2>2 DEF Loaded
  <2>4. title \in Seq(ShelfParts)
    BY <2>3
  <2> HIDE DEF title
  <2>5. reader' \in ReaderStates /\ reader'.text = reader'.title /\ (reader.mixed => reader'.mixed)
    BY <1>0, <2>1, <2>3, <2>4 DEF ReaderStates
  <2> QED
    BY <1>0, <2>1, <2>5 DEF ReaderTypes, Executing
<1>7. CASE SaveReads
  <2>1. Continues("save", "read", << reader.index >>) /\ reader' = reader
    BY <1>7 DEF SaveReads
  <2>2. "read" \in StepsOf("save") /\ << reader.index >> \in Seq(Nat) \ {<<>>} /\ << reader.index >> \in Gots
    <3>1. reader.index \in Nat
      BY <1>0 DEF ReaderStates
    <3>2. << reader.index >> \in Seq(Nat) \ {<<>>}
      BY <3>1
    <3> QED
      BY <3>2, StepFacts, GotFacts
  <2>3. /\ cmd'["save"].got = << reader.index >>
        /\ \A d \in Commands \ {"save"} : cmd'[d] = cmd[d]
    BY <1>0, <2>1, <2>2, GoesOn
  <2> QED
    BY <1>0, <2>1, <2>2, <2>3 DEF ReaderTypes, Executing
<1>8. CASE SaveStores
  <2> DEFINE s == [index |-> Head(cmd["save"].got), title |-> reader.title]
  <2>1. /\ cmd["save"].at = "read" /\ Continues("save", "return", <<>>)
        /\ reader' = [reader EXCEPT !.saved = << s >>]
    BY <1>8 DEF SaveStores
  <2>2. << s >> \in Seq([index : Nat, title : Seq(ShelfParts)])
    <3>1. Head(cmd["save"].got) \in Nat /\ reader.title \in Seq(ShelfParts)
      BY <1>0, <2>1, HeadTailProperties DEF ReaderStates
    <3> QED
      BY <3>1
  <2> HIDE DEF s
  <2>3. reader' \in ReaderStates /\ reader'.text = reader'.title /\ (reader.mixed => reader'.mixed)
    BY <1>0, <2>1, <2>2 DEF ReaderStates
  <2>4. "return" \in StepsOf("save") /\ <<>> \in Gots
    BY StepFacts, GotFacts
  <2>5. /\ cmd'["save"].at = "return" /\ \A d \in Commands \ {"save"} : cmd'[d] = cmd[d]
    BY <1>0, <2>1, <2>4, GoesOn
  <2> QED
    BY <1>0, <2>1, <2>3, <2>5 DEF ReaderTypes, Executing
<1> QED
  BY <1>1, <1>2, <1>3, <1>4, <1>5, <1>6, <1>7, <1>8 DEF ReaderStep

\* What is said of the list of chapters, and of the text, as long as its tasks and commands
\* are left alone.
LEMMA CatalogRests ==
  ASSUME CatalogInv, NEW K, Keeps(ui, ui', K), Kind("catalog") \union Kind("chapters") \subseteq K,
         EndOf("catalog") \in K, reader'.book = reader.book, reader'.chapters = reader.chapters,
         cmd'["catalog"] = cmd["catalog"]
  PROVE  CatalogInv'
<1> DEFINE both == Kind("catalog") \union Kind("chapters")
           oddWhole == {t \in Kind("catalog") : ~Holds(t.got, reader.book, 0)}
           oddRest == {t \in Kind("chapters") : ~Holds(t.got, reader.book, Len(reader.chapters))}
<1>1. /\ both \in SUBSET K /\ Kind("catalog") \in SUBSET K /\ oddWhole \in SUBSET K
      /\ oddRest \in SUBSET K /\ {EndOf("catalog")} \in SUBSET K
  OBVIOUS
<1>2. /\ None(ui, both) <=> None(ui', both)
      /\ None(ui, Kind("catalog")) <=> None(ui', Kind("catalog"))
      /\ None(ui, oddWhole) => None(ui', oddWhole)
      /\ None(ui, oddRest) => None(ui', oddRest)
      /\ Once(ui, both) => Once(ui', both)
      /\ Ordered(ui, both, {EndOf("catalog")}) => Ordered(ui', both, {EndOf("catalog")})
  <2> HIDE DEF both, oddWhole, oddRest
  <2> QED
    BY <1>1 DEF Keeps
<1> QED
  BY <1>2 DEF CatalogInv

\* The text stays that of its title while the steps are on other chapters and positions.
LEMMA TextRests ==
  ASSUME TitleInv, NEW K, Keeps(ui, ui', K), Kind("content") \subseteq K, EndOf("content") \in K,
         reader'.book = reader.book \/ ~Executing("content"),
         reader'.title = reader.title, reader'.index = reader.index,
         reader'.asked = reader.asked, reader'.saved = reader.saved,
         cmd'["content"] = cmd["content"], cmd'["save"] = cmd["save"],
         Executing("content") => ((Executing("catalog"))' => Executing("catalog"))
  PROVE  TitleInv'
<1> DEFINE odd == {t \in Kind("content") : t.got[1].chapter.n # t.got[1].index}
<1>1. Kind("content") \in SUBSET K /\ odd \in SUBSET K /\ {EndOf("content")} \in SUBSET K
  OBVIOUS
<1>2. /\ None(ui, Kind("content")) <=> None(ui', Kind("content"))
      /\ None(ui, odd) => None(ui', odd)
      /\ Ordered(ui, Kind("content"), {EndOf("content")}) => Ordered(ui', Kind("content"), {EndOf("content")})
  <2> HIDE DEF odd
  <2> QED
    BY <1>1 DEF Keeps
<1> QED
  BY <1>2 DEF TitleInv, Executing

\* The chapters of a book, and what is left of them.
LEMMA HoldsFacts ==
  /\ \A b, n : Holds(<<>>, b, n)
  /\ \A b : Holds(ChaptersOf(b), b, 0)
  /\ \A l \in Seq(ShelfParts), n \in Nat : \A b :
       l # <<>> /\ Holds(l, b, n) => /\ Head(l) = ChapterOf(b, n)
                                     /\ Holds(Tail(l), b, n + 1)
  /\ \A l \in Seq(ShelfParts), x \in ShelfParts : \A b :
       Holds(l, b, 0) /\ x = ChapterOf(b, Len(l)) => Holds(Append(l, x), b, 0)
<1>1. \A b, n : Holds(<<>>, b, n)
  BY DEF Holds
<1>2. ASSUME NEW b PROVE Holds(ChaptersOf(b), b, 0)
  <2> SUFFICES ASSUME NEW k \in DOMAIN ChaptersOf(b)
               PROVE  ChaptersOf(b)[k] = ChapterOf(b, 0 + k - 1)
    BY Zenon DEF Holds
  <2> DEFINE x == ChapterOf(b, 0)
             y == ChapterOf(b, 1)
  <2>1. ChaptersOf(b) = <<x, y>>
    BY DEF ChaptersOf
  <2>2. k \in {1, 2} /\ 0 + 1 - 1 = 0 /\ 0 + 2 - 1 = 1
    <3> HIDE DEF x, y
    <3> QED
      BY <2>1
  <2>3. CASE k = 1
    <3>1. ChapterOf(b, 0 + k - 1) = x
      BY <2>2, <2>3
    <3> HIDE DEF x, y
    <3> QED
      BY <2>1, <2>3, <3>1
  <2>4. CASE k = 2
    <3>1. ChapterOf(b, 0 + k - 1) = y
      BY <2>2, <2>4
    <3> HIDE DEF x, y
    <3> QED
      BY <2>1, <2>4, <3>1
  <2> QED
    BY <2>2, <2>3, <2>4
<1>3. ASSUME NEW l \in Seq(ShelfParts), NEW b, NEW n \in Nat, l # <<>>, Holds(l, b, n)
      PROVE  Head(l) = ChapterOf(b, n) /\ Holds(Tail(l), b, n + 1)
  <2>1. /\ Len(l) \in Nat \ {0} /\ Head(l) = l[1] /\ Len(Tail(l)) = Len(l) - 1
        /\ \A i \in 1 .. Len(l) - 1 : Tail(l)[i] = l[i + 1]
        /\ DOMAIN l = 1 .. Len(l) /\ DOMAIN Tail(l) = 1 .. Len(l) - 1
    <3>1. Tail(l) \in Seq(ShelfParts)
      BY <1>3, HeadTailProperties
    <3> QED
      BY <1>3, <3>1, HeadTailProperties
  <2>2. Head(l) = ChapterOf(b, n)
    <3>1. l[1] = ChapterOf(b, n + 1 - 1) /\ n + 1 - 1 = n
      BY <1>3, <2>1 DEF Holds
    <3> QED
      BY <2>1, <3>1
  <2>3. ASSUME NEW k \in DOMAIN Tail(l) PROVE Tail(l)[k] = ChapterOf(b, (n + 1) + k - 1)
    <3>1. k \in 1 .. Len(l) - 1 /\ k + 1 \in DOMAIN l
      BY <2>1
    <3>2. l[k + 1] = ChapterOf(b, n + (k + 1) - 1)
      BY <1>3, <3>1 DEF Holds
    <3>3. n + (k + 1) - 1 = (n + 1) + k - 1
      BY <3>1
    <3> QED
      BY <2>1, <3>1, <3>2, <3>3
  <2> QED
    BY <2>2, <2>3, Zenon DEF Holds
<1>4. ASSUME NEW l \in Seq(ShelfParts), NEW b, NEW x \in ShelfParts, Holds(l, b, 0),
             x = ChapterOf(b, Len(l))
      PROVE  Holds(Append(l, x), b, 0)
  <2> DEFINE r == Append(l, x)
             n == Len(l)
  <2>1. n \in Nat /\ DOMAIN r = 1 .. n + 1 /\ r[n + 1] = x /\ DOMAIN l = 1 .. n
        /\ \A i \in 1 .. n : r[i] = l[i]
    <3>1. r \in Seq(ShelfParts) /\ Len(r) = n + 1 /\ r[n + 1] = x /\ \A i \in 1 .. n : r[i] = l[i]
      BY AppendProperties
    <3> QED
      BY <3>1
  <2> HIDE DEF r, n
  <2>2. x = ChapterOf(b, n)
    BY <1>4 DEF n
  <2>3. ASSUME NEW k \in DOMAIN r PROVE r[k] = ChapterOf(b, 0 + k - 1)
    <3>1. CASE k \in 1 .. n
      BY <1>4, <2>1, <3>1 DEF Holds
    <3>2. CASE k \notin 1 .. n
      <4>1. k = n + 1 /\ 0 + k - 1 = n
        BY <2>1, <3>2
      <4> QED
        BY <2>1, <2>2, <4>1
    <3> QED
      BY <3>1, <3>2
  <2>4. Holds(r, b, 0)
    BY <2>3, Zenon DEF Holds
  <2> QED
    BY <2>4 DEF r
<1> QED
  BY <1>1, <1>2, <1>3, <1>4

\* A step about the text or the position leaves the list alone, one about the list the text.
LEMMA CatalogKept ==
  ASSUME CmdTypes, EndInv, ReaderScreenInv, ReaderStep, ~reader.mixed, ~reader'.mixed
  PROVE  CatalogInv'
<1> DEFINE whole == Kind("catalog")
           rest == Kind("chapters")
           both == whole \union rest
           oddWhole(b) == {t \in whole : ~Holds(t.got, b, 0)}
           oddRest(b, n) == {t \in rest : ~Holds(t.got, b, n)}
           ends == {EndOf("catalog")}
           at == cmd["catalog"].at
<1>0. /\ "catalog" \in Commands /\ ui \in Seq(UiTasks) /\ reader \in ReaderStates /\ CatalogInv
      /\ EndOf("catalog") \in UiTasks /\ EndOf("catalog").is = "ended"
      /\ cmd["catalog"].at = "read" => cmd["catalog"].got \in Seq(ShelfParts)
  BY TaskFacts, EndsDiffer DEF Commands, CmdTypes, ReaderScreenInv, ReaderTypes
<1>1. /\ Once(ui, both) /\ Ordered(ui, both, ends)
      /\ ~None(ui, both) => at \in Late
      /\ None(ui, oddWhole(reader.book))
      /\ None(ui, oddRest(reader.book, Len(reader.chapters)))
      /\ at = "read" => Holds(cmd["catalog"].got, reader.book, 0)
      /\ None(ui, whole) /\ at \in {"idle"} \union Late => Holds(reader.chapters, reader.book, 0)
  BY <1>0 DEF CatalogInv
<1>2. oddWhole(reader'.book) \subseteq both /\ oddRest(reader'.book, Len(reader'.chapters)) \subseteq both
      /\ whole \subseteq both
  OBVIOUS
<1>3. CASE ClickBook
  <2> DEFINE b == Head(clicks).of[1]
             m == reader.mixed \/ Executing("catalog") \/ Executing("content")
  <2>1. /\ Execute("catalog", <<>>) /\ ui' = ui /\ reader' = [reader EXCEPT !.book = b, !.mixed = m]
    BY <1>3 DEF ClickBook
  <2>2. reader'.mixed = m
    <3> HIDE DEF m, b
    <3> QED
      BY <1>0, <2>1 DEF ReaderStates
  <2>3. ~Executing("catalog")
    BY <2>2
  <2>4. cmd'["catalog"].at = "begun" /\ at = "idle"
    BY <1>0, <2>1, <2>3, ViewFacts, IsBegun DEF Executing
  <2>5. None(ui, both)
    BY <1>1, <2>4 DEF Late
  <2>6. None(ui', both) /\ None(ui', oddWhole(reader'.book))
        /\ None(ui', oddRest(reader'.book, Len(reader'.chapters)))
    BY <1>2, <2>1, <2>5, NoneOfFewer
  <2> QED
    BY <1>1, <2>1, <2>4, <2>6 DEF CatalogInv, Late
<1>4. CASE CatalogLoads
  <2>1. at = "begun" /\ ui' = ui
    BY <1>4 DEF CatalogLoads
  <2>2. None(ui, both)
    BY <1>1, <2>1 DEF Late
  <2>3. None(ui', both) /\ None(ui', oddWhole(reader'.book)) /\ None(ui', whole)
        /\ None(ui', oddRest(reader'.book, Len(reader'.chapters)))
    BY <1>2, <2>1, <2>2, NoneOfFewer
  <2>4. CASE \E list \in {ChaptersOf(reader.book), <<>>} : Continues("catalog", "read", list) /\ reader' = reader
    <3>1. PICK list \in {ChaptersOf(reader.book), <<>>} : Continues("catalog", "read", list) /\ reader' = reader
      BY <2>4
    <3>2. ChaptersOf(reader.book) \in Seq(ShelfParts)
      <4>1. reader.book \in Books \union {NoBook}
        BY <1>0 DEF ReaderStates
      <4>2. ChapterOf(reader.book, 0) \in ShelfParts /\ ChapterOf(reader.book, 1) \in ShelfParts
        BY <4>1 DEF ChapterOf, ShelfParts
      <4> QED
        BY <4>2 DEF ChaptersOf
    <3>3. list \in Gots /\ Holds(list, reader.book, 0) /\ "read" \in StepsOf("catalog")
      BY <3>1, <3>2, GotFacts, HoldsFacts, StepFacts
    <3>4. cmd'["catalog"].at = "read" /\ cmd'["catalog"].got = list
      BY <1>0, <3>1, <3>3, GoesOn
    <3> QED
      BY <1>1, <2>1, <2>3, <3>1, <3>3, <3>4 DEF CatalogInv, Late
  <2>5. CASE /\ Continues("catalog", "return", <<>>)
             /\ reader' = [reader EXCEPT !.mixed = @ \/ reader.chapters # <<>>]
    <3> DEFINE m == reader.mixed \/ reader.chapters # <<>>
    <3>1. reader' = [reader EXCEPT !.mixed = m]
      BY <2>5
    <3>2. reader'.mixed = m /\ reader'.book = reader.book /\ reader'.chapters = reader.chapters
      <4> HIDE DEF m
      <4> QED
        BY <1>0, <3>1 DEF ReaderStates
    <3>3. reader'.chapters = <<>>
      BY <3>2
    <3>4. Holds(reader'.chapters, reader'.book, 0)
      BY <3>3, HoldsFacts
    <3>5. cmd'["catalog"].at = "return"
      BY <1>0, <2>5, StepFacts, GotFacts, GoesOn
    <3> QED
      BY <1>1, <2>1, <2>3, <3>4, <3>5 DEF CatalogInv, Late
  <2> QED
    BY <1>4, <2>4, <2>5 DEF CatalogLoads
<1>5. CASE CatalogPosts
  <2> DEFINE t == [is |-> "catalog", of |-> <<>>, got |-> cmd["catalog"].got]
  <2>1. /\ at = "read" /\ Continues("catalog", "return", <<>>) /\ reader' = reader /\ ui' = Append(ui, t)
    BY <1>5 DEF CatalogPosts, PostTask
  <2>2. t \in whole /\ t \notin rest /\ t \in UiTasks /\ t \notin ends /\ t.got = cmd["catalog"].got
    BY <1>0, <2>1, TaskFacts DEF Kind
  <2>3. t \notin oddWhole(reader.book) /\ t \notin oddRest(reader.book, Len(reader.chapters))
    BY <1>1, <2>1, <2>2
  <2> HIDE DEF t
  <2>4. Added(ui, t, ui')
    BY <1>0, <2>1, <2>2, AddFacts
  <2>5. cmd'["catalog"].at = "return"
    BY <1>0, <2>1, StepFacts, GotFacts, GoesOn
  <2>6. None(ui, both)
    BY <1>1, <2>1 DEF Late
  <2>7. None(ui, ends)
    BY <1>0, <2>1 DEF EndInv
  <2>8. t \in both
    BY <2>2
  <2> HIDE DEF both, oddWhole, oddRest, ends, whole, rest
  <2>9. /\ Once(ui', both) /\ Ordered(ui', both, ends) /\ ~None(ui', whole)
        /\ None(ui', oddWhole(reader.book))
        /\ None(ui', oddRest(reader.book, Len(reader.chapters)))
    BY <1>1, <2>2, <2>3, <2>4, <2>6, <2>7, <2>8 DEF Added
  <2> QED
    BY <2>1, <2>5, <2>9 DEF CatalogInv, Late, both, oddWhole, oddRest, ends, whole, rest
<1>6. CASE ApplyCatalog
  <2> DEFINE t == Head(ui)
             g == t.got
             n == Len(reader.chapters)
  <2>1. /\ ui # <<>> /\ cmd' = cmd
        /\ \/ /\ t.is = "catalog"
              /\ reader' = [reader EXCEPT !.chapters = <<>>]
              /\ ui' = IF g = <<>> THEN Tail(ui)
                       ELSE << [t EXCEPT !.is = "chapters"] >> \o Tail(ui)
           \/ /\ t.is = "chapters"
              /\ reader' = [reader EXCEPT !.chapters = Append(@, Head(g))]
              /\ ui' = IF Len(g) = 1 THEN Tail(ui)
                       ELSE << [t EXCEPT !.got = Tail(@)] >> \o Tail(ui)
    BY <1>6 DEF ApplyCatalog
  <2>2. t \in UiTasks /\ t \in both
    BY <1>0, <2>1, HeadTailProperties DEF Kind
  <2>3. ~None(ui, both) /\ at \in Late
    <3>1. Taken(ui, t, Tail(ui))
      BY <1>0, <2>1, DropFacts
    <3> HIDE DEF t, both
    <3> QED
      BY <1>1, <2>2, <3>1 DEF Taken
  <2>4. CASE t.is = "catalog"
    <3>1. /\ reader' = [reader EXCEPT !.chapters = <<>>]
          /\ g = <<>> => ui' = Tail(ui)
          /\ g # <<>> => ui' = << [t EXCEPT !.is = "chapters"] >> \o Tail(ui)
      <4> HIDE DEF t, g
      <4> QED
        BY <2>1, <2>4
    <3>2. reader'.book = reader.book /\ reader'.chapters = <<>>
      BY <1>0, <3>1 DEF ReaderStates
    <3>3. Holds(reader'.chapters, reader'.book, 0) /\ Len(reader'.chapters) = 0
      BY <3>2, HoldsFacts
    <3>4. t \notin oddWhole(reader.book) /\ t \in whole /\ t \notin rest
      <4>1. Taken(ui, t, Tail(ui))
        BY <1>0, <2>1, DropFacts
      <4>2. t \in whole /\ t \notin rest
        BY <2>2, <2>4 DEF Kind
      <4> HIDE DEF t, oddWhole, whole, rest
      <4> QED
        BY <1>1, <4>1, <4>2 DEF Taken
    <3>5. g \in Seq(ShelfParts) /\ t.of = <<>> /\ Holds(g, reader.book, 0)
      BY <2>2, <2>4, <3>4, TaskFacts
    <3>6. CASE g = <<>>
      <4>1. Taken(ui, t, ui')
        BY <1>0, <2>1, <3>1, <3>6, DropFacts
      <4> HIDE DEF t, both, ends
      <4>2. None(ui', both) /\ Once(ui', both) /\ Ordered(ui', both, ends)
        BY <1>1, <2>2, <4>1 DEF Taken
      <4>3. None(ui', oddWhole(reader'.book)) /\ None(ui', oddRest(reader'.book, Len(reader'.chapters)))
        BY <1>2, <4>2, NoneOfFewer
      <4> QED
        BY <2>1, <2>3, <3>3, <4>2, <4>3 DEF CatalogInv, both, ends, Late
    <3>7. CASE g # <<>>
      <4> DEFINE u == [is |-> "chapters", of |-> <<>>, got |-> g]
                 S == whole \union oddRest(reader.book, 0)
      <4>1. [t EXCEPT !.is = "chapters"] = u
        BY <2>2, <2>4, <3>5, TaskFacts
      <4>2. u \in rest /\ u \notin whole /\ u \in UiTasks /\ u \notin ends /\ u.got = g
        <5>1. u \in UiTasks
          BY <3>5, <3>7, TaskFacts
        <5> HIDE DEF g
        <5> QED
          BY <1>0, <5>1 DEF Kind
      <4>3. u \notin oddRest(reader.book, 0) /\ t \in S /\ S \subseteq both
        BY <3>4, <3>5, <4>2
      <4>4. ui' = <<u>> \o Tail(ui)
        BY <3>1, <3>7, <4>1
      <4> HIDE DEF u
      <4>5. Turned(ui, t, u, ui')
        BY <1>0, <2>1, <4>2, <4>4, TurnFacts
      <4>6. Once(ui, S)
        BY <1>1, <4>3 DEF Once
      <4>7. u \notin S
        BY <4>2, <4>3
      <4> HIDE DEF t, both, ends, S
      <4>8. None(ui', S) /\ Once(ui', both) /\ Ordered(ui', both, ends)
        BY <1>1, <2>2, <4>2, <4>3, <4>5, <4>6, <4>7 DEF Turned
      <4>9. /\ None(ui', whole) /\ None(ui', oddWhole(reader'.book))
            /\ None(ui', oddRest(reader'.book, Len(reader'.chapters)))
        <5>1. oddRest(reader'.book, Len(reader'.chapters)) = oddRest(reader.book, 0)
          BY <3>2, <3>3
        <5>2. /\ whole \subseteq S /\ oddRest(reader.book, 0) \subseteq S
              /\ oddWhole(reader'.book) \subseteq whole
          BY DEF S
        <5> HIDE DEF whole, oddRest, oddWhole
        <5>3. None(ui', whole) /\ None(ui', oddRest(reader.book, 0))
          BY <4>8, <5>2, NoneOfFewer
        <5> QED
          BY <5>1, <5>2, <5>3, NoneOfFewer
      <4> QED
        BY <2>1, <2>3, <3>3, <4>8, <4>9 DEF CatalogInv, both, ends, Late
    <3> QED
      BY <3>6, <3>7
  <2>5. CASE t.is = "chapters"
    <3>1. /\ reader' = [reader EXCEPT !.chapters = Append(@, Head(g))]
          /\ Len(g) = 1 => ui' = Tail(ui)
          /\ Len(g) # 1 => ui' = << [t EXCEPT !.got = Tail(@)] >> \o Tail(ui)
      <4> HIDE DEF t, g
      <4> QED
        BY <2>1, <2>5
    <3>2. /\ reader'.book = reader.book /\ reader'.chapters = Append(reader.chapters, Head(g))
          /\ reader.chapters \in Seq(ShelfParts)
      BY <1>0, <3>1 DEF ReaderStates
    <3>3. t \notin oddRest(reader.book, n) /\ t \in rest /\ t \notin whole
      <4>1. Taken(ui, t, Tail(ui))
        BY <1>0, <2>1, DropFacts
      <4>2. t \in rest /\ t \notin whole
        BY <2>2, <2>5 DEF Kind
      <4> HIDE DEF t, oddRest, whole, rest
      <4> QED
        BY <1>1, <4>1, <4>2 DEF Taken
    <3>4. /\ g \in Seq(ShelfParts) /\ g # <<>> /\ t.of = <<>> /\ Holds(g, reader.book, n)
          /\ t = [is |-> "chapters", of |-> <<>>, got |-> g]
      BY <2>2, <2>5, <3>3, TaskFacts
    <3>5. n \in Nat
      BY <3>2
    <3>6. Head(g) = ChapterOf(reader.book, n) /\ Holds(Tail(g), reader.book, n + 1) /\ Head(g) \in ShelfParts
      <4>1. Head(g) \in ShelfParts
        BY <3>4, HeadTailProperties
      <4> HIDE DEF g, n
      <4> QED
        BY <3>4, <3>5, <4>1, HoldsFacts
    <3>7. None(ui, whole)
      <4> SUFFICES ASSUME NEW i \in DOMAIN ui, ui[i] \in whole PROVE FALSE
        BY DEF None
      <4>1. 1 \in DOMAIN ui /\ t = ui[1]
        <5>1. Len(ui) \in Nat \ {0} /\ DOMAIN ui = 1 .. Len(ui)
          BY <1>0, <2>1, HeadTailProperties
        <5> QED
          BY <1>0, <2>1, <5>1, HeadTailProperties
      <4>2. i = 1
        BY <1>1, <2>2, <4>1 DEF Once
      <4> QED
        BY <3>3, <4>1, <4>2
    <3>8. Holds(reader.chapters, reader.book, 0)
      BY <1>1, <2>3, <3>7
    <3>9. Holds(reader'.chapters, reader'.book, 0) /\ Len(reader'.chapters) = n + 1
      <4> DEFINE x == Head(g)
                 l == reader.chapters
                 r == Append(l, x)
      <4>1. x \in ShelfParts /\ l \in Seq(ShelfParts) /\ x = ChapterOf(reader.book, Len(l))
        BY <3>2, <3>6
      <4>2. Len(r) = n + 1
        BY <4>1, AppendProperties
      <4>3. Holds(r, reader.book, 0)
        <5> HIDE DEF x, l
        <5>1. Holds(l, reader.book, 0)
          BY <3>8 DEF l
        <5> QED
          BY <4>1, <5>1, HoldsFacts
      <4> QED
        BY <3>2, <4>2, <4>3
    <3>10. CASE Len(g) = 1
      <4>1. Taken(ui, t, ui')
        BY <1>0, <2>1, <3>1, <3>10, DropFacts
      <4> HIDE DEF t, both, ends
      <4>2. None(ui', both) /\ Once(ui', both) /\ Ordered(ui', both, ends)
        BY <1>1, <2>2, <4>1 DEF Taken
      <4>3. None(ui', oddWhole(reader'.book)) /\ None(ui', oddRest(reader'.book, Len(reader'.chapters)))
        BY <1>2, <4>2, NoneOfFewer
      <4> QED
        BY <2>1, <2>3, <3>9, <4>2, <4>3 DEF CatalogInv, both, ends, Late
    <3>11. CASE Len(g) # 1
      <4> DEFINE h == Tail(g)
                 u == [is |-> "chapters", of |-> <<>>, got |-> h]
                 S == whole \union oddRest(reader.book, n + 1) \union {t}
      <4>1. [t EXCEPT !.got = Tail(@)] = u
        <5>1. \A x, y, z : x = [is |-> "chapters", of |-> <<>>, got |-> y]
                             => [x EXCEPT !.got = z] = [is |-> "chapters", of |-> <<>>, got |-> z]
          OBVIOUS
        <5>2. [t EXCEPT !.got = h] = [is |-> "chapters", of |-> <<>>, got |-> h]
          <6> HIDE DEF h, t, g
          <6> QED
            BY <3>4, <5>1
        <5> QED
          BY <5>2
      <4>2. h \in Seq(ShelfParts) \ {<<>>}
        <5>1. Len(g) \in Nat /\ Len(g) # 0
          BY <3>4, EmptySeq
        <5>2. h \in Seq(ShelfParts) /\ Len(h) = Len(g) - 1
          BY <3>4, HeadTailProperties
        <5>3. Len(h) # 0
          BY <3>11, <5>1, <5>2
        <5> HIDE DEF h
        <5> QED
          BY <5>2, <5>3, EmptySeq
      <4>3. u \in rest /\ u \notin whole /\ u \in UiTasks /\ u \notin ends /\ u.got = h
        <5>1. u \in UiTasks
          BY <4>2, TaskFacts
        <5> HIDE DEF h
        <5> QED
          BY <1>0, <5>1 DEF Kind
      <4>4. u \notin oddRest(reader.book, n + 1) /\ t \in S /\ S \subseteq both /\ u # t
        <5>1. u \notin oddRest(reader.book, n + 1)
          BY <3>6, <4>3
        <5>2. Len(h) = Len(g) - 1 /\ Len(g) \in Nat
          BY <3>4, HeadTailProperties
        <5>3. h # g
          <6> HIDE DEF h, g
          <6> QED
            BY <5>2
        <5>4. u # t
          <6> HIDE DEF h, u, t
          <6> QED
            BY <3>4, <4>3, <5>3
        <5> QED
          BY <2>2, <5>1, <5>4
      <4>5. ui' = <<u>> \o Tail(ui)
        BY <3>1, <3>11, <4>1
      <4> HIDE DEF u
      <4>6. Turned(ui, t, u, ui')
        BY <1>0, <2>1, <4>3, <4>5, TurnFacts
      <4>7. Once(ui, S)
        BY <1>1, <4>4 DEF Once
      <4>8. u \notin S
        BY <4>3, <4>4
      <4> HIDE DEF t, both, ends, S
      <4>9. None(ui', S) /\ Once(ui', both) /\ Ordered(ui', both, ends)
        BY <1>1, <2>2, <4>3, <4>4, <4>6, <4>7, <4>8 DEF Turned
      <4>10. /\ None(ui', whole) /\ None(ui', oddWhole(reader'.book))
             /\ None(ui', oddRest(reader'.book, Len(reader'.chapters)))
        <5>1. oddRest(reader'.book, Len(reader'.chapters)) = oddRest(reader.book, n + 1)
          BY <3>2, <3>9
        <5>2. /\ whole \subseteq S /\ oddRest(reader.book, n + 1) \subseteq S
              /\ oddWhole(reader'.book) \subseteq whole
          BY DEF S
        <5> HIDE DEF whole, oddRest, oddWhole
        <5>3. None(ui', whole) /\ None(ui', oddRest(reader.book, n + 1))
          BY <4>9, <5>2, NoneOfFewer
        <5> QED
          BY <5>1, <5>2, <5>3, NoneOfFewer
      <4> QED
        BY <2>1, <2>3, <3>9, <4>9, <4>10 DEF CatalogInv, both, ends, Late
    <3> QED
      BY <3>10, <3>11
  <2> QED
    BY <2>1, <2>4, <2>5
<1>7. CASE \/ ClickChapter \/ ClickSave \/ ContentSizes \/ ContentPicks \/ ContentLoads
           \/ ApplyContent \/ SaveReads \/ SaveStores
  <2> DEFINE K == UiTasks \ Kind("content")
  <2>1. reader'.book = reader.book /\ reader'.chapters = reader.chapters
    BY <1>0, <1>7 DEF ClickChapter, ClickSave, ContentSizes, ContentPicks, ContentLoads, ApplyContent,
                      SaveReads, SaveStores, ReaderStates
  <2>2. cmd'["catalog"] = cmd["catalog"]
    <3>1. \/ cmd' = cmd
          \/ \E c \in {"content", "save"} : \E of : Execute(c, of)
          \/ \E c \in {"content", "save"} : \E label, got : Continues(c, label, got)
      BY <1>7 DEF ClickChapter, ClickSave, ContentSizes, ContentPicks, ContentLoads, ApplyContent,
                  SaveReads, SaveStores
    <3>2. DOMAIN cmd = Commands
      BY DEF CmdTypes
    <3> QED
      BY <1>0, <3>1, <3>2 DEF Execute, Continues
  <2>3. Elsewhere(K)
    <3>1. CASE ContentLoads
      <4> DEFINE x == [chapter |-> Head(cmd["content"].got), index |-> cmd["content"].of[1]]
                 t == [is |-> "content", of |-> <<>>, got |-> <<x>>]
      <4>1. cmd["content"].at = "picked" /\ ui' = Append(ui, t)
        BY <3>1 DEF ContentLoads, PostTask
      <4>2. t \in UiTasks
        <5>1. cmd["content"].got \in Seq(ShelfParts) /\ cmd["content"].got # <<>> /\ cmd["content"].of[1] \in Nat
          BY <4>1 DEF ReaderScreenInv, ReaderTypes, Executing
        <5>2. x \in Loaded
          BY <5>1, HeadTailProperties DEF Loaded
        <5> HIDE DEF x
        <5>3. <<x>> \in Seq(Loaded) \ {<<>>}
          BY <5>2
        <5> QED
          BY <5>3, TaskFacts
      <4>3. t \in UiTasks \ K
        BY <4>2 DEF Kind
      <4> HIDE DEF t
      <4> QED
        BY <4>1, <4>3 DEF Elsewhere
    <3>2. CASE ApplyContent
      <4>1. Posted("content")
        BY <3>2 DEF ApplyContent
      <4>2. ui # <<>> /\ ui' = Tail(ui) /\ Head(ui) \in Kind("content")
        BY <4>1, Posted1
      <4> QED
        BY <4>2 DEF Elsewhere
    <3>3. CASE ClickChapter \/ ClickSave \/ ContentSizes \/ ContentPicks \/ SaveReads \/ SaveStores
      BY <3>3 DEF ClickChapter, ClickSave, ContentSizes, ContentPicks, SaveReads, SaveStores, Elsewhere
    <3> QED
      BY <1>7, <3>1, <3>2, <3>3
  <2>4. both \subseteq K /\ EndOf("catalog") \in K
    BY <1>0 DEF Kind
  <2> HIDE DEF K
  <2>5. Keeps(ui, ui', K)
    BY <1>0, <2>3, ElsewhereFacts
  <2> QED
    BY <1>0, <2>1, <2>2, <2>4, <2>5, CatalogRests
<1> QED
  BY <1>3, <1>4, <1>5, <1>6, <1>7 DEF ReaderStep

\* The steps of the reader, the title and the text.
LEMMA TextKept ==
  ASSUME CmdTypes, EndInv, ReaderScreenInv, ReaderStep, ~reader.mixed, ~reader'.mixed
  PROVE  TitleInv'
<1> DEFINE text == Kind("content")
           odd == {t \in text : t.got[1].chapter.n # t.got[1].index}
           ends == {EndOf("content")}
           at == cmd["content"].at
           i == cmd["content"].of[1]
<1>0. /\ "catalog" \in Commands /\ "content" \in Commands /\ "save" \in Commands
      /\ ui \in Seq(UiTasks) /\ reader \in ReaderStates /\ CatalogInv /\ TitleInv
      /\ EndOf("content") \in UiTasks /\ EndOf("content").is = "ended"
      /\ cmd["content"].at # "idle" => cmd["content"].of[1] \in Nat
      /\ cmd["content"].at = "picked" => cmd["content"].got \in Seq(ShelfParts) \ {<<>>}
      /\ cmd["save"].at = "read" => cmd["save"].got \in Seq(Nat) \ {<<>>}
  BY TaskFacts, EndsDiffer DEF Commands, CmdTypes, ReaderScreenInv, ReaderTypes, Executing
<1>1. /\ Executing("content") => ~Executing("catalog") /\ ~Executing("save")
      /\ at = "picked" => cmd["content"].got[1] = ChapterOf(reader.book, i)
      /\ Ordered(ui, text, ends) /\ None(ui, odd)
      /\ ~None(ui, text) => at \in Late
      /\ reader.title # <<>> => reader.title[1].n = reader.index
      /\ cmd["save"].at = "read" => cmd["save"].got[1] = reader.index
      /\ \A k \in DOMAIN reader.asked : reader.asked[k].book = reader.asked[k].chapter.book
      /\ \A k \in DOMAIN reader.saved : LET s == reader.saved[k] IN
              s.title # <<>> => Head(s.title).n = s.index
  BY <1>0 DEF TitleInv
<1>2. CASE ClickChapter
  <2> DEFINE m == reader.mixed \/ Executing("catalog") \/ Executing("save")
  <2>1. /\ Click("chapter") /\ Execute("content", Head(clicks).of) /\ ui' = ui
        /\ reader' = [reader EXCEPT !.mixed = m]
    BY <1>2 DEF ClickChapter
  <2>2. /\ reader'.mixed = m /\ reader'.book = reader.book /\ reader'.title = reader.title
        /\ reader'.index = reader.index /\ reader'.asked = reader.asked /\ reader'.saved = reader.saved
    <3> HIDE DEF m
    <3> QED
      BY <1>0, <2>1 DEF ReaderStates
  <2>3. ~Executing("catalog") /\ ~Executing("save")
    BY <2>2
  <2>4. /\ Executing("content") => cmd' = cmd
        /\ ~Executing("content") => cmd'["content"].at = "begun"
        /\ cmd'["catalog"] = cmd["catalog"] /\ cmd'["save"] = cmd["save"]
    BY <1>0, <2>1, Clicked1, ViewFacts, IsBegun
  <2>5. ~None(ui, text) => Executing("content")
    BY <1>1 DEF Executing, Late
  <2> HIDE DEF m
  <2> QED
    BY <1>1, <2>1, <2>2, <2>3, <2>4, <2>5 DEF TitleInv, Executing, Late
<1>3. CASE ClickSave
  <2> DEFINE m == reader.mixed \/ Executing("content")
  <2>1. Execute("save", <<>>) /\ ui' = ui /\ reader' = [reader EXCEPT !.mixed = m]
    BY <1>3 DEF ClickSave
  <2>2. /\ reader'.mixed = m /\ reader'.book = reader.book /\ reader'.title = reader.title
        /\ reader'.index = reader.index /\ reader'.asked = reader.asked /\ reader'.saved = reader.saved
    <3> HIDE DEF m
    <3> QED
      BY <1>0, <2>1 DEF ReaderStates
  <2>3. ~Executing("content")
    BY <2>2
  <2>4. /\ Executing("save") => cmd' = cmd
        /\ ~Executing("save") => cmd'["save"].at = "begun"
        /\ cmd'["content"] = cmd["content"]
    BY <1>0, <2>1, ViewFacts, IsBegun
  <2> HIDE DEF m
  <2> QED
    BY <1>1, <2>1, <2>2, <2>3, <2>4 DEF TitleInv, Executing, Late
<1>4. CASE ContentSizes \/ ContentPicks
  <2>1. PICK label \in {"sized", "picked", "return"}, got \in {<<>>} \union Seq(ShelfParts) :
          /\ Continues("content", label, got) /\ at \in {"begun", "sized"} /\ UNCHANGED <<ui, reader>>
          /\ label = "picked" => got[1] = ChapterOf(reader.book, i)
    <3>1. CASE ContentSizes
      BY <3>1 DEF ContentSizes
    <3>2. CASE ContentPicks
      <4>1. i \in Nat /\ at = "sized" /\ UNCHANGED <<ui, reader>>
        BY <1>0, <3>2 DEF ContentPicks
      <4>2. CASE i < Len(reader.chapters)
        <5>1. Continues("content", "picked", <<reader.chapters[i + 1]>>)
          BY <3>2, <4>2 DEF ContentPicks
        <5>2. reader.chapters \in Seq(ShelfParts)
          BY <1>0 DEF ReaderStates
        <5>3. Holds(reader.chapters, reader.book, 0)
          <6>1. cmd["catalog"].at = "idle"
            BY <1>1, <4>1 DEF Executing
          <6>2. None(ui, Kind("catalog") \union Kind("chapters"))
            BY <1>0, <6>1 DEF CatalogInv, Late
          <6>3. None(ui, Kind("catalog"))
            BY <6>2, NoneOfFewer
          <6> QED
            BY <1>0, <6>1, <6>3 DEF CatalogInv
        <5> HIDE DEF i
        <5>4. i + 1 \in DOMAIN reader.chapters /\ 0 + (i + 1) - 1 = i
          BY <4>1, <4>2, <5>2
        <5>5. reader.chapters[i + 1] = ChapterOf(reader.book, 0 + (i + 1) - 1)
          BY <5>3, <5>4 DEF Holds
        <5> DEFINE x == reader.chapters[i + 1]
        <5>6. x \in ShelfParts /\ x = ChapterOf(reader.book, i) /\ Continues("content", "picked", <<x>>)
          BY <5>1, <5>2, <5>4, <5>5
        <5> HIDE DEF x
        <5>7. <<x>> \in Seq(ShelfParts) /\ <<x>>[1] = ChapterOf(reader.book, i)
          BY <5>6
        <5> QED
          BY <4>1, <5>6, <5>7
      <4>3. CASE ~(i < Len(reader.chapters))
        BY <3>2, <4>1, <4>3 DEF ContentPicks
      <4> QED
        BY <4>2, <4>3
    <3> QED
      BY <1>4, <3>1, <3>2
  <2>2. label \in StepsOf("content") /\ got \in Gots
    BY <2>1, StepFacts, GotFacts
  <2>3. /\ cmd'["content"].at = label /\ cmd'["content"].got = got /\ cmd'["content"].of = cmd["content"].of
        /\ cmd'["catalog"] = cmd["catalog"] /\ cmd'["save"] = cmd["save"]
    BY <1>0, <2>1, <2>2, GoesOn
  <2>4. None(ui, text)
    BY <1>1, <2>1 DEF Late
  <2> QED
    BY <1>1, <2>1, <2>3, <2>4 DEF TitleInv, Executing
<1>5. CASE ContentLoads
  <2> DEFINE chapter == Head(cmd["content"].got)
             x == [chapter |-> chapter, index |-> i]
             t == [is |-> "content", of |-> <<>>, got |-> <<x>>]
             a == [book |-> reader.book, chapter |-> chapter]
  <2>1. /\ at = "picked" /\ Continues("content", "return", <<>>)
        /\ reader' = [reader EXCEPT !.asked = << a >>] /\ ui' = Append(ui, t)
    BY <1>5 DEF ContentLoads, PostTask
  <2>2. chapter \in ShelfParts /\ chapter = ChapterOf(reader.book, i) /\ i \in Nat
    BY <1>0, <1>1, <2>1, HeadTailProperties
  <2>3. chapter.book = reader.book /\ chapter.n = i
    <3> HIDE DEF chapter, i
    <3> QED
      BY <2>2 DEF ChapterOf
  <2>4. t \in UiTasks /\ t \in text /\ t \notin odd /\ t \notin ends
    <3> HIDE DEF chapter, i
    <3>1. x \in Loaded /\ x.chapter.n = x.index
      BY <2>2, <2>3 DEF Loaded
    <3> HIDE DEF x
    <3>2. <<x>> \in Seq(Loaded) \ {<<>>} /\ <<x>>[1] = x
      BY <3>1
    <3>3. t \in UiTasks /\ t.is = "content" /\ t.got = <<x>>
      BY <3>2, TaskFacts
    <3> HIDE DEF t
    <3> QED
      BY <1>0, <3>1, <3>2, <3>3 DEF Kind
  <2>5. << a >> = reader'.asked /\ \A k \in DOMAIN << a >> : << a >>[k].book = << a >>[k].chapter.book
    <3>1. a.book = a.chapter.book
      BY <2>3
    <3> HIDE DEF a
    <3> QED
      BY <1>0, <2>1, <3>1 DEF ReaderStates
  <2> HIDE DEF t, a, chapter
  <2>6. /\ reader'.book = reader.book /\ reader'.title = reader.title
        /\ reader'.index = reader.index /\ reader'.saved = reader.saved
    BY <1>0, <2>1 DEF ReaderStates
  <2>7. /\ cmd'["content"].at = "return"
        /\ cmd'["catalog"] = cmd["catalog"] /\ cmd'["save"] = cmd["save"]
    BY <1>0, <2>1, StepFacts, GotFacts, GoesOn
  <2>8. Added(ui, t, ui')
    BY <1>0, <2>1, <2>4, AddFacts
  <2>9. None(ui, ends)
    BY <1>0, <2>1 DEF EndInv
  <2> HIDE DEF text, odd, ends
  <2>10. Ordered(ui', text, ends) /\ None(ui', odd)
    BY <1>1, <2>4, <2>8, <2>9 DEF Added
  <2> QED
    BY <1>1, <2>1, <2>5, <2>6, <2>7, <2>10 DEF TitleInv, Executing, Late, text, odd, ends
<1>6. CASE ApplyContent
  <2> DEFINE t == Head(ui)
             x == t.got[1]
             title == <<x.chapter>>
  <2>1. /\ Posted("content") /\ cmd' = cmd
        /\ reader' = [reader EXCEPT !.index = x.index, !.title = title, !.text = title]
    BY <1>6 DEF ApplyContent
  <2>2. Taken(ui, t, ui') /\ t \in text
    BY <2>1, Posted1
  <2>3. t \notin odd /\ None(ui', odd) /\ Ordered(ui', text, ends) /\ ~None(ui, text)
    <3> HIDE DEF t, odd, text, ends
    <3> QED
      BY <1>1, <2>2 DEF Taken
  <2>4. x.chapter.n = x.index
    BY <2>2, <2>3
  <2> HIDE DEF x
  <2>5. /\ reader'.index = x.index /\ reader'.title = title /\ title[1] = x.chapter
        /\ reader'.book = reader.book /\ reader'.saved = reader.saved /\ reader'.asked = reader.asked
    BY <1>0, <2>1 DEF ReaderStates
  <2>6. ~Executing("save") /\ at \in Late
    BY <1>1, <2>3 DEF Executing, Late
  <2> HIDE DEF title
  <2> QED
    BY <1>1, <2>1, <2>3, <2>4, <2>5, <2>6 DEF TitleInv, Executing
<1>7. CASE SaveReads
  <2>1. /\ cmd["save"].at = "begun" /\ Continues("save", "read", << reader.index >>)
        /\ UNCHANGED <<ui, reader>>
    BY <1>7 DEF SaveReads
  <2>2. << reader.index >> \in Gots
    <3>1. reader.index \in Nat
      BY <1>0 DEF ReaderStates
    <3>2. << reader.index >> \in Seq(Nat)
      BY <3>1
    <3> QED
      BY <3>2, GotFacts
  <2>3. /\ cmd'["save"].got = << reader.index >>
        /\ cmd'["content"] = cmd["content"] /\ cmd'["catalog"] = cmd["catalog"]
    <3>1. "read" \in StepsOf("save")
      BY StepFacts
    <3> DEFINE g == << reader.index >>
    <3>2. Continues("save", "read", g) /\ g \in Gots
      BY <2>1, <2>2
    <3> HIDE DEF g
    <3>3. cmd'["save"].got = g /\ \A d \in Commands \ {"save"} : cmd'[d] = cmd[d]
      BY <1>0, <3>1, <3>2, GoesOn
    <3> QED
      BY <1>0, <3>3 DEF g
  <2> QED
    BY <1>1, <2>1, <2>3 DEF TitleInv, Executing
<1>8. CASE SaveStores
  <2> DEFINE s == [index |-> Head(cmd["save"].got), title |-> reader.title]
  <2>1. /\ cmd["save"].at = "read" /\ Continues("save", "return", <<>>)
        /\ reader' = [reader EXCEPT !.saved = << s >>] /\ ui' = ui
    BY <1>8 DEF SaveStores
  <2>2. s.title # <<>> => Head(s.title).n = s.index
    <3>1. Head(cmd["save"].got) = reader.index
      BY <1>0, <1>1, <2>1, HeadTailProperties
    <3>2. reader.title # <<>> => Head(reader.title) = reader.title[1]
      BY <1>0, HeadTailProperties DEF ReaderStates
    <3> QED
      BY <1>1, <3>1, <3>2
  <2>3. /\ reader'.saved = << s >> /\ reader'.index = reader.index /\ reader'.title = reader.title
        /\ reader'.book = reader.book /\ reader'.asked = reader.asked
    <3> HIDE DEF s
    <3> QED
      BY <1>0, <2>1 DEF ReaderStates
  <2> HIDE DEF s
  <2>4. \A k \in DOMAIN reader'.saved : reader'.saved[k] = s
    BY <2>3
  <2>5. /\ cmd'["save"].at = "return"
        /\ cmd'["content"] = cmd["content"] /\ cmd'["catalog"] = cmd["catalog"]
    BY <1>0, <2>1, StepFacts, GotFacts, GoesOn
  <2>6. ~Executing("content")
    BY <1>1, <2>1 DEF Executing
  <2> QED
    BY <1>1, <2>1, <2>2, <2>3, <2>4, <2>5, <2>6 DEF TitleInv, Executing
<1>9. CASE ClickBook \/ CatalogLoads \/ CatalogPosts \/ ApplyCatalog
  <2> DEFINE K == Kind("content") \union {EndOf("content")}
  <2>1. /\ reader'.title = reader.title /\ reader'.index = reader.index
        /\ reader'.asked = reader.asked /\ reader'.saved = reader.saved
    <3>1. \/ \E b, m : reader' = [reader EXCEPT !.book = b, !.mixed = m]
          \/ \E m : reader' = [reader EXCEPT !.mixed = m]
          \/ \E l : reader' = [reader EXCEPT !.chapters = l]
          \/ reader' = reader
      BY <1>9 DEF ClickBook, CatalogLoads, CatalogPosts, ApplyCatalog
    <3> QED
      BY <1>0, <3>1 DEF ReaderStates
  <2>2. cmd'["content"] = cmd["content"] /\ cmd'["save"] = cmd["save"]
    <3>1. \/ cmd' = cmd
          \/ \E of : Execute("catalog", of)
          \/ \E label, got : Continues("catalog", label, got)
      BY <1>9 DEF ClickBook, CatalogLoads, CatalogPosts, ApplyCatalog
    <3>2. DOMAIN cmd = Commands
      BY DEF CmdTypes
    <3> QED
      BY <1>0, <3>1, <3>2 DEF Execute, Continues
  <2>3. reader'.book = reader.book \/ ~Executing("content")
    <3>1. CASE ClickBook
      <4> DEFINE b == Head(clicks).of[1]
                 m == reader.mixed \/ Executing("catalog") \/ Executing("content")
      <4>1. reader' = [reader EXCEPT !.book = b, !.mixed = m]
        BY <3>1 DEF ClickBook
      <4>2. reader'.mixed = m
        <5> HIDE DEF m, b
        <5> QED
          BY <1>0, <4>1 DEF ReaderStates
      <4> QED
        BY <4>2
    <3>2. CASE CatalogLoads \/ CatalogPosts \/ ApplyCatalog
      <4>1. \/ \E m : reader' = [reader EXCEPT !.mixed = m]
            \/ \E l : reader' = [reader EXCEPT !.chapters = l]
            \/ reader' = reader
        BY <3>2 DEF CatalogLoads, CatalogPosts, ApplyCatalog
      <4> QED
        BY <1>0, <4>1 DEF ReaderStates
    <3> QED
      BY <1>9, <3>1, <3>2
  <2>4. Executing("content") => ((Executing("catalog"))' => Executing("catalog"))
    <3>1. CASE ClickBook
      <4> DEFINE b == Head(clicks).of[1]
                 m == reader.mixed \/ Executing("catalog") \/ Executing("content")
      <4>1. reader' = [reader EXCEPT !.book = b, !.mixed = m]
        BY <3>1 DEF ClickBook
      <4>2. reader'.mixed = m
        <5> HIDE DEF m, b
        <5> QED
          BY <1>0, <4>1 DEF ReaderStates
      <4> QED
        BY <4>2
    <3>2. CASE CatalogLoads \/ CatalogPosts
      BY <3>2 DEF CatalogLoads, CatalogPosts, Executing
    <3>3. CASE ApplyCatalog
      BY <3>3 DEF ApplyCatalog, Executing
    <3> QED
      BY <1>9, <3>1, <3>2, <3>3
  <2>5. Keeps(ui, ui', K)
    <3>1. CASE CatalogPosts
      <4> DEFINE t == [is |-> "catalog", of |-> <<>>, got |-> cmd["catalog"].got]
      <4>1. cmd["catalog"].at = "read" /\ ui' = Append(ui, t)
        BY <3>1 DEF CatalogPosts, PostTask
      <4>2. t \in UiTasks
        BY <4>1, TaskFacts DEF ReaderScreenInv, ReaderTypes
      <4>3. t \notin K
        BY <1>0 DEF Kind
      <4> HIDE DEF t
      <4> QED
        BY <1>0, <4>1, <4>2, <4>3, ElsewhereFacts DEF Elsewhere
    <3>2. CASE ClickBook \/ CatalogLoads
      <4>1. Elsewhere(K)
        BY <3>2 DEF ClickBook, CatalogLoads, Elsewhere
      <4> QED
        BY <1>0, <4>1, ElsewhereFacts
    <3>3. CASE ApplyCatalog
      <4>1. PICK u : /\ ui # <<>> /\ Head(ui).is \in {"catalog", "chapters"}
                     /\ ui' = Tail(ui) \/ (ui' = <<u>> \o Tail(ui) /\ u \in UiTasks /\ u.is = "chapters")
        <5>1. /\ ui # <<>> /\ Head(ui).is \in {"catalog", "chapters"}
              /\ \/ ui' = Tail(ui)
                 \/ /\ Head(ui).is = "catalog" /\ Head(ui).got # <<>>
                    /\ ui' = << [Head(ui) EXCEPT !.is = "chapters"] >> \o Tail(ui)
                 \/ /\ Head(ui).is = "chapters" /\ Len(Head(ui).got) # 1
                    /\ ui' = << [Head(ui) EXCEPT !.got = Tail(@)] >> \o Tail(ui)
          BY <3>3 DEF ApplyCatalog
        <5>2. Head(ui) \in UiTasks
          BY <1>0, <5>1, HeadTailProperties
        <5>3. Head(ui).is = "catalog" /\ Head(ui).got # <<>> =>
                /\ [Head(ui) EXCEPT !.is = "chapters"] \in UiTasks
                /\ [Head(ui) EXCEPT !.is = "chapters"].is = "chapters"
          <6> SUFFICES ASSUME Head(ui).is = "catalog", Head(ui).got # <<>>
                       PROVE  /\ [Head(ui) EXCEPT !.is = "chapters"] \in UiTasks
                              /\ [Head(ui) EXCEPT !.is = "chapters"].is = "chapters"
            OBVIOUS
          <6> DEFINE t == [is |-> "chapters", of |-> <<>>, got |-> Head(ui).got]
          <6>1. [Head(ui) EXCEPT !.is = "chapters"] = t
            BY <5>2, TaskFacts
          <6>2. t \in UiTasks
            BY <5>2, TaskFacts
          <6> QED
            BY <6>1, <6>2
        <5>4. Head(ui).is = "chapters" /\ Len(Head(ui).got) # 1 =>
                /\ [Head(ui) EXCEPT !.got = Tail(@)] \in UiTasks
                /\ [Head(ui) EXCEPT !.got = Tail(@)].is = "chapters"
          <6> SUFFICES ASSUME Head(ui).is = "chapters", Len(Head(ui).got) # 1
                       PROVE  /\ [Head(ui) EXCEPT !.got = Tail(@)] \in UiTasks
                              /\ [Head(ui) EXCEPT !.got = Tail(@)].is = "chapters"
            OBVIOUS
          <6> DEFINE h == Head(ui)
                     n == Tail(h.got)
                     t == [is |-> "chapters", of |-> <<>>, got |-> n]
          <6>1. h = [is |-> "chapters", of |-> <<>>, got |-> h.got] /\ h.got \in Seq(ShelfParts) /\ h.got # <<>>
            BY <5>2, TaskFacts
          <6>2. \A x, y, z : x = [is |-> "chapters", of |-> <<>>, got |-> y]
                               => [x EXCEPT !.got = z] = [is |-> "chapters", of |-> <<>>, got |-> z]
            OBVIOUS
          <6>3. [h EXCEPT !.got = n] = t
            <7> HIDE DEF h, n
            <7> QED
              BY <6>1, <6>2
          <6>4. n \in Seq(ShelfParts) \ {<<>>}
            <7>1. Len(h.got) \in Nat /\ Len(h.got) # 0
              BY <6>1, EmptySeq
            <7>2. n \in Seq(ShelfParts) /\ Len(n) = Len(h.got) - 1
              BY <6>1, HeadTailProperties
            <7>3. Len(n) # 0
              BY <7>1, <7>2
            <7> HIDE DEF n
            <7> QED
              BY <7>2, <7>3, EmptySeq
          <6>5. t \in UiTasks /\ t.is = "chapters"
            BY <6>4, TaskFacts
          <6> QED
            BY <6>3, <6>5
        <5> QED
          BY <5>1, <5>3, <5>4
      <4>2. Head(ui) \notin K
        BY <1>0, <4>1 DEF Kind
      <4>3. u.is = "chapters" => u \notin K
        BY <1>0 DEF Kind
      <4>4. Elsewhere(K)
        BY <4>1, <4>2, <4>3 DEF Elsewhere
      <4> QED
        BY <1>0, <4>4, ElsewhereFacts
    <3> QED
      BY <1>9, <3>1, <3>2, <3>3
  <2>6. Kind("content") \subseteq K /\ EndOf("content") \in K
    OBVIOUS
  <2> HIDE DEF K
  <2> QED
    BY <1>0, <2>1, <2>2, <2>3, <2>4, <2>5, <2>6, TextRests
<1> QED
  BY <1>2, <1>3, <1>4, <1>5, <1>6, <1>7, <1>8, <1>9 DEF ReaderStep

\* The reader's screen keeps what is said of it.
LEMMA ReaderKeeps1 ==
  ASSUME CmdTypes, EndInv, ReaderScreenInv, ReaderStep
  PROVE  ReaderScreenInv'
<1>1. ReaderTypes' /\ reader'.text = reader'.title /\ (reader.mixed => reader'.mixed)
  BY ReaderTypesKept DEF ReaderScreenInv
<1>2. ~reader'.mixed => CatalogInv' /\ TitleInv'
  BY <1>1, CatalogKept, TextKept
<1> QED
  BY <1>1, <1>2 DEF ReaderScreenInv

\* The types of the source manager.
LEMMA ManagerTypesKept ==
  ASSUME CmdTypes, ManagerTypes, ManagerStep
  PROVE  ManagerTypes' /\ (manager.overlap => manager'.overlap)
<1>0. /\ manager \in ManagerStates /\ ManagerCommands \subseteq Commands /\ ui \in Seq(UiTasks)
      /\ Grades \in Nat /\ "refresh" \in ManagerCommands /\ DOMAIN cmd = Commands
      /\ \A c \in ManagerCommands : cmd[c].at = "read" => cmd[c].got \in Seq(Counts) \ {<<>>}
      /\ \A e : e \in Seq(Counts) \ {<<>>} => e \in Gots
  BY ViewFacts, GotFacts DEF ManagerTypes, ManagerCommands, Commands, CmdTypes
<1>1. manager' \in ManagerStates /\ (manager.overlap => manager'.overlap)
  <2>1. CASE ClickManager
    <3> DEFINE o == manager.overlap \/ AnyAtWork
    <3>1. manager' = [manager EXCEPT !.overlap = o]
      BY <2>1 DEF ClickManager
    <3>2. o \in BOOLEAN /\ (manager.overlap => o)
      OBVIOUS
    <3> HIDE DEF o
    <3> QED
      BY <1>0, <3>1, <3>2 DEF ManagerStates
  <2>2. CASE ClickValidate
    <3> DEFINE s == AnyAtWork \/ manager.shown.count # manager.list
    <3>1. \/ manager' = manager
          \/ manager' = [manager EXCEPT !.validating = TRUE, !.done = 0, !.all = manager.shown.count,
                                       !.cancelled = FALSE, !.blocked = TRUE,
                                       !.left = manager.list, !.stale = s]
      BY <2>2 DEF ClickValidate
    <3>2. s \in BOOLEAN /\ manager.shown.count \in Nat /\ manager.list \in 0 .. Grades /\ 0 \in Nat
      BY <1>0 DEF ManagerStates, Counts
    <3> HIDE DEF s
    <3> QED
      BY <1>0, <3>1, <3>2 DEF ManagerStates
  <2>3. CASE ClickCancelValidate
    BY <1>0, <2>3 DEF ClickCancelValidate, ManagerStates
  <2>4. CASE SourceGraded
    <3>1. manager.left > 0 /\ manager' = [manager EXCEPT !.left = manager.left - 1]
      BY <2>4 DEF SourceGraded
    <3>2. manager.left - 1 \in 0 .. Grades
      BY <1>0, <3>1 DEF ManagerStates
    <3> QED
      BY <1>0, <3>1, <3>2 DEF ManagerStates
  <2>5. CASE SourcesGraded
    BY <1>0, <2>5 DEF SourcesGraded, ManagerStates
  <2>6. CASE ShowProgress
    <3> DEFINE o == manager.overlap \/ AnyAtWork
               n == manager.done + 1
    <3>1. \/ manager' = [manager EXCEPT !.done = n]
          \/ manager' = [manager EXCEPT !.validating = FALSE, !.overlap = o]
      BY <2>6 DEF ShowProgress
    <3>2. o \in BOOLEAN /\ (manager.overlap => o) /\ n \in Nat
      BY <1>0 DEF ManagerStates
    <3> HIDE DEF o, n
    <3> QED
      BY <1>0, <3>1, <3>2 DEF ManagerStates
  <2>7. CASE ManagerChanges
    <3>1. PICK n \in 0 .. Grades, g \in BOOLEAN : manager' = [manager EXCEPT !.list = n, !.graded = g]
      <4>1. PICK c \in {"import", "clear"} :
              \E n \in (IF c = "clear" THEN {0} ELSE manager.list .. Grades) :
                 manager' = [manager EXCEPT !.list = n, !.graded = @ /\ n = manager.list]
        BY <2>7 DEF ManagerChanges
      <4>2. PICK n \in (IF c = "clear" THEN {0} ELSE manager.list .. Grades) :
                 manager' = [manager EXCEPT !.list = n, !.graded = @ /\ n = manager.list]
        BY <4>1
      <4>3. manager.list \in 0 .. Grades
        BY <1>0 DEF ManagerStates
      <4>4. n \in 0 .. Grades
        BY <1>0, <4>3
      <4>5. (manager.graded /\ n = manager.list) \in BOOLEAN
        OBVIOUS
      <4> QED
        BY <4>2, <4>4, <4>5
    <3> QED
      BY <1>0, <3>1 DEF ManagerStates
  <2>8. CASE ManagerReads \/ ManagerPosts
    BY <1>0, <2>8 DEF ManagerReads, ManagerPosts
  <2>9. CASE ShowSources
    <3>1. Posted("sources") /\ manager' = [manager EXCEPT !.shown = Head(ui).got[1]]
      BY <2>9 DEF ShowSources
    <3>2. Head(ui).got[1] \in Counts
      <4>1. Head(ui) \in UiTasks /\ Head(ui).is = "sources"
        BY <3>1, Posted1 DEF Kind
      <4>2. Head(ui).got \in Seq(Counts) /\ Head(ui).got # <<>>
        BY <4>1, TaskFacts
      <4> QED
        BY <4>2
    <3> QED
      BY <1>0, <3>1, <3>2 DEF ManagerStates
  <2> QED
    BY <2>1, <2>2, <2>3, <2>4, <2>5, <2>6, <2>7, <2>8, <2>9 DEF ManagerStep
<1>2. ASSUME NEW c \in ManagerCommands, cmd'[c].at = "read"
      PROVE  cmd'[c].got \in Seq(Counts) \ {<<>>}
  <2>1. \/ cmd' = cmd
        \/ \E d \in ManagerCommands : Execute(d, <<>>)
        \/ \E d \in ManagerCommands, label \in {"changed", "return"} :
              Continues(d, label, <<>>) /\ label \in StepsOf(d)
        \/ \E d \in ManagerCommands : Continues(d, "read", <<Now>>)
    <3>1. CASE ManagerChanges
      BY <3>1, StepFacts DEF ManagerChanges, ManagerCommands
    <3>2. CASE ManagerReads
      BY <3>2 DEF ManagerReads, Now
    <3>3. CASE ManagerPosts
      BY <1>0, <3>3, StepFacts DEF ManagerPosts
    <3>4. CASE ~ManagerChanges /\ ~ManagerReads /\ ~ManagerPosts
      BY <1>0, <3>4 DEF ManagerStep, ClickManager, ClickValidate, ClickCancelValidate, SourceGraded,
                        SourcesGraded, ShowProgress, ShowSources
    <3> QED
      BY <3>1, <3>2, <3>3, <3>4
  <2>2. CASE cmd' = cmd
    BY <1>0, <1>2, <2>2
  <2>3. ASSUME NEW d \in ManagerCommands, Execute(d, <<>>) PROVE cmd'[c].got \in Seq(Counts) \ {<<>>}
    <3>1. cmd' = cmd \/ (cmd'[d].at = "begun" /\ \A x \in Commands \ {d} : cmd'[x] = cmd[x])
      BY <1>0, <2>3, ViewFacts, IsBegun
    <3> QED
      BY <1>0, <1>2, <3>1
  <2>4. ASSUME NEW d \in ManagerCommands, NEW label \in {"changed", "return"},
               Continues(d, label, <<>>), label \in StepsOf(d)
        PROVE  cmd'[c].got \in Seq(Counts) \ {<<>>}
    <3>1. cmd'[d].at = label /\ \A x \in Commands \ {d} : cmd'[x] = cmd[x]
      BY <1>0, <2>4, GotFacts, GoesOn
    <3> QED
      BY <1>0, <1>2, <3>1
  <2>5. ASSUME NEW d \in ManagerCommands, Continues(d, "read", <<Now>>)
        PROVE  cmd'[c].got \in Seq(Counts) \ {<<>>}
    <3> DEFINE g == <<Now>>
    <3>1. g \in Seq(Counts) \ {<<>>}
      <4>1. Now \in Counts
        BY <1>0 DEF Now, Counts, ManagerStates
      <4> QED
        BY <4>1
    <3>2. Continues(d, "read", g) /\ g \in Gots /\ "read" \in StepsOf(d)
      BY <1>0, <2>5, <3>1, StepFacts DEF ManagerCommands
    <3> HIDE DEF g
    <3>3. cmd'[d].got = g /\ \A x \in Commands \ {d} : cmd'[x] = cmd[x]
      BY <1>0, <3>2, GoesOn
    <3> QED
      BY <1>0, <1>2, <3>1, <3>3
  <2> QED
    BY <2>1, <2>2, <2>3, <2>4, <2>5
<1> QED
  BY <1>1, <1>2 DEF ManagerTypes

\* A validation is over when its last task is taken.
LEMMA ValidationKept ==
  ASSUME CmdTypes, ManagerInv, ManagerStep
  PROVE  GradingInv'
<1> DEFINE over == Kind("validated")
           graded == Kind("progress")
<1>0. /\ manager \in ManagerStates /\ ManagerTypes /\ ui \in Seq(UiTasks) /\ Grades \in Nat
  BY ViewFacts DEF CmdTypes, ManagerInv, ManagerTypes
<1>1. /\ manager.validating <=> manager.blocked \/ ~None(ui, over)
      /\ manager.blocked => None(ui, over)
      /\ Once(ui, over) /\ Ordered(ui, graded, over)
      /\ ~None(ui, graded) => manager.validating
      /\ manager.stale \/ manager.done + Number(ui, graded) + manager.left <= manager.all
  BY DEF ManagerInv, GradingInv
<1>2. /\ manager.done \in Nat /\ manager.all \in Nat /\ manager.left \in 0 .. Grades /\ manager.left \in Nat
      /\ manager.list \in Nat /\ manager.shown.count \in Nat /\ manager.validating \in BOOLEAN
      /\ manager.blocked \in BOOLEAN /\ manager.stale \in BOOLEAN
  BY <1>0 DEF ManagerStates, Counts
<1>3. ASSUME manager'.validating = manager.validating, manager'.blocked = manager.blocked,
             manager'.done = manager.done, manager'.all = manager.all, manager'.left = manager.left,
             manager'.stale = manager.stale, Elsewhere(over \union graded)
      PROVE  GradingInv'
  <2> DEFINE K == over \union graded
  <2>1. Keeps(ui, ui', K)
    BY <1>0, <1>3, ElsewhereFacts
  <2>2. over \in SUBSET K /\ graded \in SUBSET K
    OBVIOUS
  <2> HIDE DEF K
  <2>3. /\ None(ui, over) <=> None(ui', over)
        /\ None(ui, graded) <=> None(ui', graded)
        /\ Once(ui', over) /\ Ordered(ui', graded, over)
        /\ Number(ui, graded) = Number(ui', graded)
    <3> HIDE DEF over, graded
    <3> QED
      BY <1>1, <2>1, <2>2 DEF Keeps
  <2> QED
    BY <1>1, <1>3, <2>3 DEF GradingInv
<1>4. CASE ClickManager
  <2> DEFINE o == manager.overlap \/ AnyAtWork
  <2>1. ui' = ui /\ manager' = [manager EXCEPT !.overlap = o]
    BY <1>4 DEF ClickManager
  <2> HIDE DEF o
  <2> QED
    BY <1>0, <1>3, <2>1 DEF ManagerStates, Elsewhere
<1>5. CASE ClickValidate
  <2> DEFINE s == AnyAtWork \/ manager.shown.count # manager.list
  <2>1. /\ ui' = ui
        /\ manager.validating => manager' = manager
        /\ ~manager.validating =>
             manager' = [manager EXCEPT !.validating = TRUE, !.done = 0, !.all = manager.shown.count,
                                        !.cancelled = FALSE, !.blocked = TRUE,
                                        !.left = manager.list, !.stale = s]
    BY <1>5 DEF ClickValidate
  <2>2. CASE manager.validating
    BY <1>3, <2>1, <2>2 DEF Elsewhere
  <2>3. CASE ~manager.validating
    <3>1. ~s => manager.shown.count = manager.list
      OBVIOUS
    <3> HIDE DEF s
    <3>2. /\ manager'.validating = TRUE /\ manager'.done = 0 /\ manager'.all = manager.shown.count
          /\ manager'.blocked = TRUE /\ manager'.left = manager.list /\ manager'.stale = s
      BY <1>0, <2>1, <2>3 DEF ManagerStates
    <3>3. None(ui, over) /\ None(ui, graded) /\ Number(ui, graded) = 0
      BY <1>1, <2>3, NoneCounted
    <3>4. manager'.stale \/ manager'.done + Number(ui', graded) + manager'.left <= manager'.all
      <4>1. Number(ui', graded) = 0
        BY <2>1, <3>3
      <4> QED
        BY <1>2, <3>1, <3>2, <4>1
    <3> QED
      BY <1>1, <2>1, <3>2, <3>3, <3>4 DEF GradingInv
  <2> QED
    BY <1>2, <2>2, <2>3
<1>6. CASE ClickCancelValidate
  <2>1. ui' = ui /\ manager' = [manager EXCEPT !.cancelled = TRUE]
    BY <1>6 DEF ClickCancelValidate
  <2> QED
    BY <1>0, <1>3, <2>1 DEF ManagerStates, Elsewhere
<1>7. CASE SourceGraded
  <2> DEFINE t == Task("progress")
  <2>1. /\ manager.blocked /\ manager.left > 0 /\ ui' = Append(ui, t)
        /\ manager' = [manager EXCEPT !.left = manager.left - 1]
    BY <1>7 DEF SourceGraded, PostTask
  <2>2. t \in UiTasks /\ t \in graded /\ t \notin over
    BY TaskFacts DEF Kind, Task
  <2>3. /\ manager'.validating = manager.validating /\ manager'.blocked = manager.blocked
        /\ manager'.done = manager.done /\ manager'.all = manager.all
        /\ manager'.stale = manager.stale /\ manager'.left = manager.left - 1
    BY <1>0, <2>1 DEF ManagerStates
  <2> HIDE DEF t
  <2>4. Added(ui, t, ui')
    BY <1>0, <2>1, <2>2, AddFacts
  <2>5. /\ None(ui', over) /\ Once(ui', over) /\ Ordered(ui', graded, over)
        /\ Number(ui, graded) \in Nat /\ Number(ui', graded) = Number(ui, graded) + 1
    <3> HIDE DEF over, graded
    <3> QED
      BY <1>1, <2>1, <2>2, <2>4 DEF Added
  <2>6. manager'.stale \/ manager'.done + Number(ui', graded) + manager'.left <= manager'.all
    BY <1>1, <1>2, <2>3, <2>5
  <2> QED
    BY <1>1, <2>1, <2>3, <2>5, <2>6 DEF GradingInv
<1>8. CASE SourcesGraded
  <2> DEFINE t == Task("validated")
  <2>1. /\ manager.blocked /\ ui' = Append(ui, t)
        /\ manager' = [manager EXCEPT !.blocked = FALSE, !.graded = TRUE]
    BY <1>8 DEF SourcesGraded, PostTask
  <2>2. t \in UiTasks /\ t \in over /\ t \notin graded
    BY TaskFacts DEF Kind, Task
  <2>3. /\ manager'.validating = manager.validating /\ manager'.blocked = FALSE
        /\ manager'.done = manager.done /\ manager'.all = manager.all
        /\ manager'.stale = manager.stale /\ manager'.left = manager.left
    BY <1>0, <2>1 DEF ManagerStates
  <2> HIDE DEF t
  <2>4. Added(ui, t, ui')
    BY <1>0, <2>1, <2>2, AddFacts
  <2>5. /\ ~None(ui', over) /\ Once(ui', over) /\ Ordered(ui', graded, over)
        /\ None(ui', graded) <=> None(ui, graded)
        /\ Number(ui', graded) = Number(ui, graded)
    <3> HIDE DEF over, graded
    <3>1. Number(ui', graded) = Number(ui, graded)
      BY <2>2, <2>4 DEF Added
    <3> QED
      BY <1>1, <2>1, <2>2, <2>4, <3>1 DEF Added
  <2> QED
    BY <1>1, <2>1, <2>3, <2>5 DEF GradingInv
<1>9. CASE ShowProgress
  <2> DEFINE t == Head(ui)
             o == manager.overlap \/ AnyAtWork
  <2>1. \/ Posted("progress") /\ manager' = [manager EXCEPT !.done = manager.done + 1]
        \/ Posted("validated") /\ manager' = [manager EXCEPT !.validating = FALSE, !.overlap = o]
    BY <1>9 DEF ShowProgress
  <2> HIDE DEF o
  <2>2. Taken(ui, t, ui') /\ ~manager.blocked
    BY <2>1, Posted1
  <2>3. CASE Posted("progress") /\ manager' = [manager EXCEPT !.done = manager.done + 1]
    <3>1. t \in graded /\ t \notin over
      BY <2>3, Posted1 DEF Kind
    <3>2. /\ manager'.validating = manager.validating /\ manager'.blocked = manager.blocked
          /\ manager'.done = manager.done + 1 /\ manager'.all = manager.all
          /\ manager'.stale = manager.stale /\ manager'.left = manager.left
      BY <1>0, <2>3 DEF ManagerStates
    <3> HIDE DEF t
    <3>3. /\ None(ui, over) <=> None(ui', over)
          /\ Once(ui', over) /\ Ordered(ui', graded, over)
          /\ ~None(ui, graded)
          /\ Number(ui', graded) \in Nat /\ Number(ui, graded) = Number(ui', graded) + 1
      <4> HIDE DEF over, graded
      <4> QED
        BY <1>1, <2>2, <3>1 DEF Taken
    <3>4. manager'.stale \/ manager'.done + Number(ui', graded) + manager'.left <= manager'.all
      BY <1>1, <1>2, <3>2, <3>3
    <3> QED
      BY <1>1, <3>2, <3>3, <3>4 DEF GradingInv
  <2>4. CASE Posted("validated") /\ manager' = [manager EXCEPT !.validating = FALSE, !.overlap = o]
    <3>1. t \in over /\ t \notin graded
      BY <2>4, Posted1 DEF Kind
    <3>2. /\ manager'.validating = FALSE /\ manager'.blocked = manager.blocked
          /\ manager'.done = manager.done /\ manager'.all = manager.all
          /\ manager'.stale = manager.stale /\ manager'.left = manager.left
      BY <1>0, <2>4 DEF ManagerStates
    <3> HIDE DEF t
    <3>3. /\ None(ui', over) /\ None(ui', graded) /\ Once(ui', over) /\ Ordered(ui', graded, over)
          /\ Number(ui', graded) = Number(ui, graded)
      <4> HIDE DEF over, graded
      <4>1. Number(ui', graded) = Number(ui, graded)
        BY <2>2, <3>1 DEF Taken
      <4>2. None(ui, graded)
        BY <1>1, <2>2, <3>1 DEF Taken
      <4> QED
        BY <1>1, <2>2, <3>1, <4>1, <4>2 DEF Taken
    <3> QED
      BY <1>1, <2>2, <3>2, <3>3 DEF GradingInv
  <2> QED
    BY <2>1, <2>3, <2>4
<1>10. CASE ManagerChanges
  <2>1. ui' = ui /\ \E n, g : manager' = [manager EXCEPT !.list = n, !.graded = g]
    BY <1>10 DEF ManagerChanges
  <2> QED
    BY <1>0, <1>3, <2>1 DEF ManagerStates, Elsewhere
<1>11. CASE ManagerReads
  BY <1>3, <1>11 DEF ManagerReads, Elsewhere
<1>12. CASE ManagerPosts
  <2>1. PICK c \in ManagerCommands :
          /\ cmd[c].at = "read" /\ ui' = Append(ui, [is |-> "sources", of |-> <<>>, got |-> cmd[c].got])
          /\ manager' = manager
    BY <1>12 DEF ManagerPosts, PostTask
  <2> DEFINE t == [is |-> "sources", of |-> <<>>, got |-> cmd[c].got]
  <2>2. t \in UiTasks
    BY <1>0, <2>1, TaskFacts DEF ManagerTypes
  <2>3. t \notin over \union graded
    BY DEF Kind
  <2>4. ui' = Append(ui, t)
    BY <2>1
  <2> HIDE DEF t, over, graded
  <2> QED
    BY <1>3, <2>1, <2>2, <2>3, <2>4 DEF Elsewhere
<1>13. CASE ShowSources
  <2>1. Posted("sources") /\ manager' = [manager EXCEPT !.shown = Head(ui).got[1]]
    BY <1>13 DEF ShowSources
  <2>2. ui # <<>> /\ ui' = Tail(ui) /\ Head(ui) \notin over \union graded
    BY <2>1, Posted1 DEF Kind
  <2> QED
    BY <1>0, <1>3, <2>1, <2>2 DEF ManagerStates, Elsewhere
<1> QED
  BY <1>4, <1>5, <1>6, <1>7, <1>8, <1>9, <1>10, <1>11, <1>12, <1>13 DEF ManagerStep

\* The list on its way to the screen is the engine's.
LEMMA ListKept ==
  ASSUME CmdTypes, EndInv, ManagerInv, ManagerStep, ~manager.overlap, ~manager'.overlap
  PROVE  ListInv'
<1> DEFINE shown == Kind("sources")
           strange(now) == {t \in shown : t.got[1] # now}
<1>0. /\ manager \in ManagerStates /\ ManagerTypes /\ ui \in Seq(UiTasks) /\ ManagerCommands \subseteq Commands
      /\ GradingInv /\ "refresh" \in ManagerCommands
      /\ \A c \in Commands : EndOf(c) \in UiTasks /\ EndOf(c).is = "ended"
  BY TaskFacts, EndsDiffer DEF CmdTypes, ManagerInv, ManagerTypes, ManagerCommands, Commands
<1>1. /\ \A c, d \in ManagerCommands : Executing(c) /\ Executing(d) => c = d
      /\ Once(ui, shown) /\ \A c \in ManagerCommands : Ordered(ui, shown, {EndOf(c)})
      /\ ~None(ui, shown) => \E c \in ManagerCommands : cmd[c].at \in Late
      /\ ~manager.validating =>
            /\ None(ui, strange(Now))
            /\ \A c \in ManagerCommands : cmd[c].at = "read" => cmd[c].got[1] = Now
            /\ None(ui, shown) /\ (\A c \in ManagerCommands : cmd[c].at \in {"idle"} \union Late)
                 => manager.shown = Now
  BY DEF ManagerInv, ListInv
\* Nothing that matters changes.
<1>2. ASSUME manager'.validating \/ ~manager.validating, Now' = Now \/ manager'.validating,
             manager'.shown = manager.shown, \A c \in ManagerCommands : cmd'[c] = cmd[c],
             NEW K, Elsewhere(K), shown \subseteq K, \A c \in ManagerCommands : EndOf(c) \in K
      PROVE  ListInv'
  <2>1. Keeps(ui, ui', K)
    BY <1>0, <1>2, ElsewhereFacts
  <2>2. shown \in SUBSET K /\ strange(Now) \in SUBSET K /\ \A c \in ManagerCommands : {EndOf(c)} \in SUBSET K
    BY <1>2
  <2>3. /\ None(ui, shown) <=> None(ui', shown)
        /\ None(ui, strange(Now)) => None(ui', strange(Now))
        /\ Once(ui', shown) /\ \A c \in ManagerCommands : Ordered(ui', shown, {EndOf(c)})
    <3> HIDE DEF shown, strange
    <3> QED
      BY <1>1, <2>1, <2>2 DEF Keeps
  <2> QED
    BY <1>1, <1>2, <2>3 DEF ListInv, Executing
\* A command begins and none was executing.
<1>3. ASSUME NEW c \in ManagerCommands, Execute(c, <<>>), ~AnyAtWork, NEW K, Elsewhere(K),
             shown \subseteq K, \A d \in ManagerCommands : EndOf(d) \in K
      PROVE  ListInv'
  <2>1. \A d \in Commands : cmd[d].at = "idle"
    BY <1>3 DEF AnyAtWork, Executing
  <2>2. cmd'[c].at = "begun" /\ \A d \in ManagerCommands \ {c} : cmd'[d].at = "idle"
    BY <1>0, <1>3, <2>1, ViewFacts, IsBegun DEF Executing
  <2>3. None(ui, shown)
    BY <1>0, <1>1, <2>1 DEF Late
  <2>4. Keeps(ui, ui', K) /\ shown \in SUBSET K /\ \A d \in ManagerCommands : {EndOf(d)} \in SUBSET K
    BY <1>0, <1>3, ElsewhereFacts
  <2>5. None(ui', shown) /\ Once(ui', shown) /\ \A d \in ManagerCommands : Ordered(ui', shown, {EndOf(d)})
    <3> HIDE DEF shown
    <3> QED
      BY <1>1, <2>3, <2>4 DEF Keeps
  <2>6. None(ui', strange(Now'))
    BY <2>5, NoneOfFewer
  <2> QED
    BY <1>3, <2>2, <2>5, <2>6 DEF ListInv, Executing, Late
\* The one that is executing goes on.
<1>4. ASSUME NEW c \in ManagerCommands, NEW label \in StepsOf(c) \ {"idle", "ending"}, NEW got \in Gots,
             Continues(c, label, got), cmd[c].at \notin Late \union {"idle"}
      PROVE  /\ cmd'[c].at = label /\ cmd'[c].got = got
             /\ \A d \in ManagerCommands \ {c} : cmd'[d].at = "idle"
             /\ None(ui, shown) /\ \A d \in ManagerCommands : None(ui, {EndOf(d)})
  <2>1. /\ cmd'[c].at = label /\ cmd'[c].got = got
        /\ \A d \in ManagerCommands \ {c} : cmd'[d] = cmd[d]
    BY <1>0, <1>4, GoesOn
  <2>2. \A d \in ManagerCommands \ {c} : cmd[d].at = "idle"
    BY <1>1, <1>4 DEF Executing
  <2>3. None(ui, shown)
    BY <1>1, <1>4, <2>2 DEF Late
  <2>4. \A d \in ManagerCommands : cmd[d].at # "ending"
    BY <1>4, <2>2 DEF Late
  <2> QED
    BY <1>0, <2>1, <2>2, <2>3, <2>4 DEF EndInv
<1>5. CASE ClickManager
  <2> DEFINE o == manager.overlap \/ AnyAtWork
             K == UiTasks
  <2>1. PICK c \in ManagerCommands : Execute(c, <<>>) /\ ui' = ui /\ manager' = [manager EXCEPT !.overlap = o]
    BY <1>5 DEF ClickManager
  <2>2. ~o
    <3>1. manager'.overlap = o
      <4> HIDE DEF o
      <4> QED
        BY <1>0, <2>1 DEF ManagerStates
    <3> QED
      BY <3>1
  <2>3. Elsewhere(K) /\ shown \subseteq K /\ \A d \in ManagerCommands : EndOf(d) \in K
    BY <1>0, <2>1 DEF Elsewhere, Kind
  <2> HIDE DEF K
  <2> QED
    BY <1>3, <2>1, <2>2, <2>3
<1>6. CASE ClickValidate
  <2> DEFINE s == AnyAtWork \/ manager.shown.count # manager.list
  <2>1. /\ UNCHANGED <<ui, cmd>>
        /\ manager.validating => manager' = manager
        /\ ~manager.validating =>
             manager' = [manager EXCEPT !.validating = TRUE, !.done = 0, !.all = manager.shown.count,
                                        !.cancelled = FALSE, !.blocked = TRUE,
                                        !.left = manager.list, !.stale = s]
    BY <1>6 DEF ClickValidate
  <2> HIDE DEF s
  <2>2. manager'.validating /\ manager'.shown = manager.shown
    BY <1>0, <2>1 DEF ManagerStates
  <2>3. Elsewhere(UiTasks) /\ shown \subseteq UiTasks
    BY <2>1 DEF Elsewhere, Kind
  <2> QED
    BY <1>0, <1>2, <2>1, <2>2, <2>3
<1>7. CASE ClickCancelValidate
  <2>1. UNCHANGED <<ui, cmd>> /\ manager' = [manager EXCEPT !.cancelled = TRUE]
    BY <1>7 DEF ClickCancelValidate
  <2>2. manager'.validating = manager.validating /\ manager'.shown = manager.shown /\ Now' = Now
    BY <1>0, <2>1 DEF ManagerStates, Now
  <2>3. Elsewhere(UiTasks) /\ shown \subseteq UiTasks
    BY <2>1 DEF Elsewhere, Kind
  <2> QED
    BY <1>0, <1>2, <2>1, <2>2, <2>3
<1>8. CASE SourceGraded \/ SourcesGraded
  <2> DEFINE K == UiTasks \ (Kind("progress") \union Kind("validated"))
  <2>1. /\ manager.blocked /\ cmd' = cmd /\ \E k \in {"progress", "validated"} : ui' = Append(ui, Task(k))
        /\ \/ \E l : manager' = [manager EXCEPT !.left = l]
           \/ manager' = [manager EXCEPT !.blocked = FALSE, !.graded = TRUE]
    BY <1>8 DEF SourceGraded, SourcesGraded, PostTask
  <2>2. manager'.validating = manager.validating /\ manager'.shown = manager.shown /\ manager'.validating
    BY <1>0, <2>1 DEF ManagerStates, GradingInv
  <2>3. Elsewhere(K)
    <3>1. \A k \in {"progress", "validated"} : Task(k) \in UiTasks \ K
      BY TaskFacts DEF Kind, Task
    <3> HIDE DEF K
    <3> QED
      BY <2>1, <3>1 DEF Elsewhere
  <2>4. shown \subseteq K /\ \A c \in ManagerCommands : EndOf(c) \in K
    BY <1>0 DEF Kind
  <2> HIDE DEF K
  <2> QED
    BY <1>0, <1>2, <2>1, <2>2, <2>3, <2>4
<1>9. CASE ShowProgress
  <2> DEFINE K == UiTasks \ (Kind("progress") \union Kind("validated"))
             o == manager.overlap \/ AnyAtWork
  <2>1. \/ Posted("progress") /\ cmd' = cmd /\ \E n : manager' = [manager EXCEPT !.done = n]
        \/ /\ Posted("validated") /\ Execute("refresh", <<>>)
           /\ manager' = [manager EXCEPT !.validating = FALSE, !.overlap = o]
    BY <1>9 DEF ShowProgress
  <2>2. Elsewhere(K)
    <3>1. ui # <<>> /\ ui' = Tail(ui) /\ Head(ui) \notin K
      BY <2>1, Posted1 DEF Kind
    <3> QED
      BY <3>1 DEF Elsewhere
  <2>3. shown \subseteq K /\ \A c \in ManagerCommands : EndOf(c) \in K
    BY <1>0 DEF Kind
  <2> HIDE DEF K
  <2>4. CASE cmd' = cmd /\ \E n : manager' = [manager EXCEPT !.done = n]
    <3>1. manager'.validating = manager.validating /\ manager'.shown = manager.shown /\ Now' = Now
      BY <1>0, <2>4 DEF ManagerStates, Now
    <3> QED
      BY <1>0, <1>2, <2>2, <2>3, <2>4, <3>1
  <2>5. CASE /\ Execute("refresh", <<>>)
             /\ manager' = [manager EXCEPT !.validating = FALSE, !.overlap = o]
    <3>1. ~o
      <4>1. manager'.overlap = o
        <5> HIDE DEF o
        <5> QED
          BY <1>0, <2>5 DEF ManagerStates
      <4> QED
        BY <4>1
    <3> QED
      BY <1>0, <1>3, <2>2, <2>3, <2>5, <3>1
  <2> QED
    BY <2>1, <2>4, <2>5
<1>10. CASE ManagerChanges
  <2>1. PICK c \in {"import", "clear"} : cmd[c].at = "begun" /\ Continues(c, "changed", <<>>) /\ ui' = ui
    BY <1>10 DEF ManagerChanges
  <2>2. /\ c \in ManagerCommands /\ "changed" \in StepsOf(c) \ {"idle", "ending"} /\ <<>> \in Gots
        /\ cmd[c].at \notin Late \union {"idle"}
    BY <2>1, StepFacts, GotFacts DEF ManagerCommands, Late
  <2>3. /\ cmd'[c].at = "changed" /\ \A d \in ManagerCommands \ {c} : cmd'[d].at = "idle"
        /\ None(ui, shown)
    BY <1>4, <2>1, <2>2
  <2>4. None(ui', strange(Now')) /\ None(ui', shown)
    BY <2>1, <2>3, NoneOfFewer
  <2> QED
    BY <1>1, <2>1, <2>2, <2>3, <2>4 DEF ListInv, Executing, Late
<1>11. CASE ManagerReads
  <2> DEFINE g == <<Now>>
  <2>1. PICK c \in ManagerCommands : /\ cmd[c].at = (IF c = "refresh" THEN "begun" ELSE "changed")
                                     /\ Continues(c, "read", g) /\ UNCHANGED <<ui, manager>>
    BY <1>11 DEF ManagerReads, Now
  <2>2. g \in Gots /\ g[1] = Now /\ Now' = Now
    <3>1. Now \in Counts
      BY <1>0, ViewFacts DEF Now, Counts, ManagerStates
    <3>2. g \in Seq(Counts)
      BY <3>1
    <3>3. Now' = Now
      BY <2>1 DEF Now
    <3> QED
      BY <3>2, <3>3, GotFacts
  <2>3. "read" \in StepsOf(c) \ {"idle", "ending"} /\ cmd[c].at \notin Late \union {"idle"}
    BY <2>1, StepFacts DEF ManagerCommands, Late
  <2> HIDE DEF g
  <2>4. /\ cmd'[c].at = "read" /\ cmd'[c].got = g /\ \A d \in ManagerCommands \ {c} : cmd'[d].at = "idle"
        /\ None(ui, shown)
    BY <1>4, <2>1, <2>2, <2>3
  <2>5. None(ui', strange(Now')) /\ None(ui', shown)
    BY <2>1, <2>4, NoneOfFewer
  <2> QED
    BY <1>1, <2>1, <2>2, <2>4, <2>5 DEF ListInv, Executing, Late
<1>12. CASE ManagerPosts
  <2>1. PICK c \in ManagerCommands :
          /\ cmd[c].at = "read" /\ Continues(c, "return", <<>>) /\ manager' = manager
          /\ ui' = Append(ui, [is |-> "sources", of |-> <<>>, got |-> cmd[c].got])
    BY <1>12 DEF ManagerPosts, PostTask
  <2> DEFINE t == [is |-> "sources", of |-> <<>>, got |-> cmd[c].got]
  <2>2. t \in UiTasks /\ t \in shown /\ t.got = cmd[c].got /\ t.is = "sources"
    <3>1. t \in UiTasks
      BY <1>0, <2>1, TaskFacts DEF ManagerTypes
    <3> QED
      BY <3>1 DEF Kind
  <2>3. ui' = Append(ui, t)
    BY <2>1
  <2> HIDE DEF t
  <2>4. "return" \in StepsOf(c) \ {"idle", "ending"} /\ cmd[c].at \notin Late \union {"idle"} /\ <<>> \in Gots
    BY <1>0, <2>1, StepFacts, GotFacts DEF Late
  <2>5. /\ cmd'[c].at = "return" /\ \A d \in ManagerCommands \ {c} : cmd'[d].at = "idle"
        /\ None(ui, shown) /\ \A d \in ManagerCommands : None(ui, {EndOf(d)})
    BY <1>4, <2>1, <2>4
  <2>6. Added(ui, t, ui') /\ \A d \in ManagerCommands : t \notin {EndOf(d)}
    BY <1>0, <2>2, <2>3, AddFacts
  <2>7. ~manager.validating => None(ui', strange(Now))
    <3> SUFFICES ASSUME ~manager.validating PROVE None(ui', strange(Now))
      OBVIOUS
    <3>1. t \notin strange(Now) /\ None(ui, strange(Now))
      BY <1>1, <2>1, <2>2
    <3> HIDE DEF strange
    <3> QED
      BY <2>6, <3>1 DEF Added
  <2>8. /\ Once(ui', shown) /\ ~None(ui', shown)
        /\ \A d \in ManagerCommands : Ordered(ui', shown, {EndOf(d)})
    <3> HIDE DEF shown
    <3> QED
      BY <1>1, <2>2, <2>5, <2>6 DEF Added
  <2>9. Now' = Now
    BY <2>1 DEF Now
  <2> QED
    BY <1>1, <2>1, <2>5, <2>7, <2>8, <2>9 DEF ListInv, Executing, Late
<1>13. CASE ShowSources
  <2> DEFINE t == Head(ui)
  <2>1. Posted("sources") /\ cmd' = cmd /\ manager' = [manager EXCEPT !.shown = t.got[1]]
    BY <1>13 DEF ShowSources
  <2>2. Taken(ui, t, ui') /\ t \in shown
    BY <2>1, Posted1
  <2> HIDE DEF t
  <2>3. manager'.shown = t.got[1] /\ manager'.validating = manager.validating /\ Now' = Now
    BY <1>0, <2>1 DEF ManagerStates, Now
  <2>4. ~manager.validating => t.got[1] = Now /\ None(ui', strange(Now))
    <3> SUFFICES ASSUME ~manager.validating PROVE t.got[1] = Now /\ None(ui', strange(Now))
      OBVIOUS
    <3>1. t \notin strange(Now) /\ None(ui', strange(Now))
      <4> HIDE DEF strange
      <4> QED
        BY <1>1, <2>2 DEF Taken
    <3> QED
      BY <2>2, <3>1
  <2>5. /\ Once(ui', shown) /\ None(ui', shown)
        /\ \A d \in ManagerCommands : Ordered(ui', shown, {EndOf(d)})
    <3> HIDE DEF shown
    <3> QED
      BY <1>1, <2>2 DEF Taken
  <2> QED
    BY <1>1, <2>1, <2>3, <2>4, <2>5 DEF ListInv, Executing
<1> QED
  BY <1>5, <1>6, <1>7, <1>8, <1>9, <1>10, <1>11, <1>12, <1>13 DEF ManagerStep

\* The source manager keeps what is said of it.
LEMMA ManagerKeeps1 ==
  ASSUME CmdTypes, EndInv, ManagerInv, ManagerStep
  PROVE  ManagerInv'
<1>1. ManagerTypes' /\ (manager.overlap => manager'.overlap)
  BY ManagerTypesKept DEF ManagerInv
<1>2. ~manager'.overlap => ListInv'
  BY <1>1, ListKept
<1> QED
  BY <1>1, <1>2, ValidationKept DEF ManagerInv

\* A command returns, and the ui thread hears of it.
HasReturned(c) ==
    /\ CmdTypes' /\ Added(ui, EndOf(c), ui') /\ Keeps(ui, ui', UiTasks \ {EndOf(c)})
    /\ cmd[c].at = "return" /\ cmd'[c].at = "ending" /\ cmd'[c].of = cmd[c].of /\ cmd'[c].got = cmd[c].got
    /\ \A d \in Commands \ {c} : cmd'[d] = cmd[d]
    /\ UNCHANGED <<search, shelfView, reader, manager>>
HasEnded(c) ==
    /\ CmdTypes' /\ Taken(ui, EndOf(c), ui') /\ Keeps(ui, ui', UiTasks \ {EndOf(c)})
    /\ cmd[c].at = "ending" /\ cmd'[c] = Idle
    /\ \A d \in Commands \ {c} : cmd'[d] = cmd[d]
    /\ UNCHANGED <<shelfView, reader, manager>>
    /\ c # "search" => search' = search
    /\ c = "search" => search' = [search EXCEPT !.total = search.sum]

\* A command returns: it posts the task that says so, last.
LEMMA ReturnFacts ==
  ASSUME CmdTypes, NEW c \in Commands, Returns(c)
  PROVE  HasReturned(c)
<1> DEFINE t == EndOf(c)
           K == UiTasks \ {t}
<1>1. /\ cmd[c].at = "return" /\ ui' = Append(ui, t) /\ Continues(c, "ending", cmd[c].got)
      /\ UNCHANGED <<screen, clicks, search, shelfView, reader, manager>>
  BY DEF Returns, PostTask, EndOf
<1>2. ui \in Seq(UiTasks) /\ t \in UiTasks /\ cmd[c].got \in Gots /\ clicks \in Seq(Doings)
  BY TaskFacts DEF CmdTypes
<1>3. Added(ui, t, ui')
  BY <1>1, <1>2, AddFacts
<1>4. Elsewhere(K)
  BY <1>1, <1>2 DEF Elsewhere
<1>5. Keeps(ui, ui', K) /\ ui' \in Seq(UiTasks)
  BY <1>2, <1>4, ElsewhereFacts
<1>6. /\ cmd' \in [Commands -> [at : Steps, of : Wants, got : Gots]]
      /\ \A d \in Commands : cmd'[d].at \in StepsOf(d)
      /\ cmd'[c].at = "ending" /\ cmd'[c].of = cmd[c].of /\ cmd'[c].got = cmd[c].got
      /\ \A d \in Commands \ {c} : cmd'[d] = cmd[d]
  BY <1>1, <1>2, StepFacts, GoesOn
<1>7. CmdTypes'
  BY <1>1, <1>5, <1>6 DEF CmdTypes
<1> QED
  BY <1>1, <1>3, <1>5, <1>6, <1>7 DEF HasReturned

\* The UI thread takes the task that says a command has ended.
LEMMA EndedFacts ==
  ASSUME CmdTypes, EndInv, Ended
  PROVE  \E c \in Commands : HasEnded(c)
<1>1. /\ Posted("ended") /\ cmd' = [cmd EXCEPT ![Head(ui).of[1]] = Idle]
      /\ search' = IF Head(ui).of = <<"search">> THEN [search EXCEPT !.total = search.sum] ELSE search
      /\ UNCHANGED <<screen, clicks, shelfView, reader, manager>>
  BY DEF Ended
<1>2. Taken(ui, Head(ui), ui') /\ Head(ui) \in UiTasks /\ Head(ui).is = "ended" /\ ui # <<>> /\ ui' = Tail(ui)
  BY <1>1, Posted1 DEF Kind
<1>3. PICK c \in Commands : Head(ui) = EndOf(c)
  BY <1>2, TaskFacts
<1>4. Head(ui).of = <<c>> /\ Head(ui).of[1] = c
  BY <1>3, EndsDiffer
<1>5. cmd' = [cmd EXCEPT ![c] = Idle]
  BY <1>1, <1>4
<1>6. Idle \in [at : Steps, of : Wants, got : Gots] /\ Idle.at = "idle"
  BY ViewFacts, GotFacts DEF Idle, Steps
<1> DEFINE K == UiTasks \ {EndOf(c)}
<1>7. Keeps(ui, ui', K) /\ ui' \in Seq(UiTasks)
  <2>1. Elsewhere(K)
    BY <1>2, <1>3 DEF Elsewhere
  <2> QED
    BY <2>1, ElsewhereFacts DEF CmdTypes
<1>8. /\ cmd' \in [Commands -> [at : Steps, of : Wants, got : Gots]] /\ cmd'[c] = Idle
      /\ \A d \in Commands \ {c} : cmd'[d] = cmd[d]
  <2> DEFINE r == Idle
  <2>1. cmd' = [cmd EXCEPT ![c] = r] /\ r \in [at : Steps, of : Wants, got : Gots]
    BY <1>5, <1>6
  <2> HIDE DEF r
  <2>2. /\ cmd' \in [Commands -> [at : Steps, of : Wants, got : Gots]] /\ cmd'[c] = r
        /\ \A d \in Commands \ {c} : cmd'[d] = cmd[d]
    BY <2>1 DEF CmdTypes
  <2> QED
    BY <2>2 DEF r
<1>9. CmdTypes'
  <2>1. \A d \in Commands : cmd'[d].at \in StepsOf(d)
    BY <1>6, <1>8, StepFacts DEF CmdTypes
  <2> QED
    BY <1>1, <1>7, <1>8, <2>1 DEF CmdTypes
<1>10. cmd[c].at = "ending"
  <2> DEFINE ends == {EndOf(c)}
             t == Head(ui)
  <2>1. t \in ends /\ Taken(ui, t, ui')
    BY <1>2, <1>3
  <2>2. ~None(ui, ends)
    <3> HIDE DEF ends, t
    <3> QED
      BY <2>1 DEF Taken
  <2> QED
    BY <2>2 DEF EndInv
<1>11. /\ c # "search" => search' = search
       /\ c = "search" => search' = [search EXCEPT !.total = search.sum]
  <2>1. c # "search" => Head(ui).of # <<"search">>
    BY <1>4
  <2> QED
    BY <1>1, <1>4, <2>1
<1>12. Taken(ui, EndOf(c), ui')
  BY <1>2, <1>3
<1>13. HasEnded(c)
  BY <1>1, <1>7, <1>8, <1>9, <1>10, <1>11, <1>12 DEF HasEnded
<1> QED
  BY <1>13

\* Tasks of other kinds are not such tasks, and are in the right order with them.
LEMMA KindsAndEnds ==
  ASSUME NEW c \in Commands, NEW S, \A t \in S : t \in UiTasks /\ t.is # "ended"
  PROVE  S \in SUBSET (UiTasks \ {EndOf(c)}) /\ EndOf(c) \notin S
  BY EndsDiffer

\* The end of a command and the tasks that tell of it.
LEMMA EndsKept ==
  ASSUME EndInv, NEW c \in Commands, HasReturned(c) \/ HasEnded(c)
  PROVE  EndInv'
<1> DEFINE K == UiTasks \ {EndOf(c)}
<1>1. ASSUME NEW d \in Commands \ {c}
      PROVE  /\ Once(ui', {EndOf(d)})
             /\ cmd'[d].at = "ending" <=> ~None(ui', {EndOf(d)})
  <2>1. Keeps(ui, ui', K) /\ cmd'[d] = cmd[d]
    BY DEF HasReturned, HasEnded
  <2>2. {EndOf(d)} \in SUBSET K
    BY TaskFacts, EndsDiffer
  <2>3. /\ None(ui, {EndOf(d)}) <=> None(ui', {EndOf(d)})
        /\ Once(ui, {EndOf(d)}) => Once(ui', {EndOf(d)})
    <3> HIDE DEF K
    <3> QED
      BY <2>1, <2>2 DEF Keeps
  <2> QED
    BY <2>1, <2>3 DEF EndInv
<1> DEFINE ends == {EndOf(c)}
           t == EndOf(c)
<1>2. t \in ends /\ Once(ui, ends) /\ (cmd[c].at = "ending" <=> ~None(ui, ends))
  BY DEF EndInv
<1>3. ASSUME HasReturned(c) PROVE Once(ui', ends) /\ ~None(ui', ends) /\ cmd'[c].at = "ending"
  <2>1. Added(ui, t, ui') /\ cmd[c].at = "return" /\ cmd'[c].at = "ending"
    BY <1>3 DEF HasReturned
  <2> HIDE DEF ends, t
  <2> QED
    BY <1>2, <2>1 DEF Added
<1>4. ASSUME HasEnded(c) PROVE Once(ui', ends) /\ None(ui', ends) /\ cmd'[c].at # "ending"
  <2>1. Taken(ui, t, ui') /\ cmd'[c].at # "ending"
    BY <1>4 DEF HasEnded, Idle
  <2> HIDE DEF ends, t
  <2> QED
    BY <1>2, <2>1 DEF Taken
<1>5. /\ Once(ui', {EndOf(c)})
      /\ cmd'[c].at = "ending" <=> ~None(ui', {EndOf(c)})
  BY <1>3, <1>4
<1> HIDE DEF ends, t, K
<1>6. \A d \in Commands : /\ Once(ui', {EndOf(d)})
                          /\ cmd'[d].at = "ending" <=> ~None(ui', {EndOf(d)})
  BY <1>1, <1>5
<1>7. \A d \in Commands : EndOf(d)' = EndOf(d)
  BY DEF EndOf
<1> QED
  BY <1>6, <1>7 DEF EndInv

\* The end of a command, on the search screen.
LEMMA SearchCloses ==
  ASSUME SearchInv, NEW c \in Commands, HasReturned(c) \/ HasEnded(c)
  PROVE  SearchInv'
<1> DEFINE clear == Kind("clear")
           append == Kind("append")
           ends == {EndOf("search")}
           strange(of) == {t \in append : t.of # of}
           K == UiTasks \ {EndOf(c)}
<1>0. \A t \in OfSearch \union strange(cmd["search"].of) : t \in UiTasks /\ t.is # "ended"
  BY DEF OfSearch, Kind
<1>1. CASE c # "search"
  <2>1. Keeps(ui, ui', K) /\ search' = search /\ cmd'["search"] = cmd["search"]
    BY <1>1 DEF HasReturned, HasEnded, Commands
  <2>2. OfSearch \union {EndOf("search")} \subseteq K
    <3>1. EndOf("search") \in UiTasks /\ EndOf("search") # EndOf(c) /\ EndOf(c).is = "ended"
      BY <1>1, TaskFacts, EndsDiffer DEF Commands
    <3> QED
      BY <1>0, <3>1
  <2> QED
    BY <2>1, <2>2, SearchRests
<1>2. CASE c = "search"
  <2>1. /\ Keeps(ui, ui', K) /\ clear \in SUBSET K /\ append \in SUBSET K
        /\ strange(cmd["search"].of) \in SUBSET K /\ EndOf(c) \notin clear /\ EndOf(c) \notin append
    <3>1. EndOf(c).is = "ended"
      BY EndsDiffer
    <3> QED
      BY <1>0, <3>1 DEF HasReturned, HasEnded, OfSearch
  <2>2. /\ None(ui, clear) <=> None(ui', clear)
        /\ None(ui, append) <=> None(ui', append)
        /\ None(ui, strange(cmd["search"].of)) => None(ui', strange(cmd["search"].of))
        /\ Once(ui, clear) => Once(ui', clear)
        /\ Number(ui, append) = Number(ui', append)
        /\ Ordered(ui, clear, append) => Ordered(ui', clear, append)
    <3> HIDE DEF clear, append, strange, K
    <3> QED
      BY <2>1 DEF Keeps
  <2> DEFINE t == EndOf(c)
  <2>3. t \in ends /\ t \notin clear /\ t \notin append
    BY <1>2, <2>1
  <2>4. /\ Ordered(ui, clear, ends) => Ordered(ui', clear, ends) /\ (HasEnded(c) => None(ui, clear))
        /\ Ordered(ui, append, ends) => Ordered(ui', append, ends) /\ (HasEnded(c) => None(ui, append))
    <3>1. HasReturned(c) => Added(ui, t, ui')
      BY DEF HasReturned
    <3>2. HasEnded(c) => Taken(ui, t, ui')
      BY DEF HasEnded
    <3>3. ~(HasReturned(c) /\ HasEnded(c))
      BY DEF HasReturned, HasEnded
    <3> HIDE DEF t, ends, clear, append
    <3> QED
      BY <2>3, <3>1, <3>2, <3>3 DEF Added, Taken
  <2>5. CASE HasReturned(c)
    <3>1. /\ search' = search /\ cmd["search"].at = "return" /\ cmd'["search"].at = "ending"
          /\ cmd'["search"].of = cmd["search"].of
      BY <1>2, <2>5 DEF HasReturned
    <3> QED
      BY <2>2, <2>4, <3>1 DEF SearchInv
  <2>6. CASE HasEnded(c)
    <3>1. /\ search' = [search EXCEPT !.total = search.sum] /\ cmd["search"].at = "ending"
          /\ cmd'["search"].at = "idle"
      BY <1>2, <2>6 DEF HasEnded, Idle
    <3>2. None(ui, clear) /\ None(ui, append) /\ Number(ui, append) = 0
      BY <2>4, <2>6, NoneCounted DEF SearchInv
    <3>3. /\ search' \in [cancel : BOOLEAN, left : 0 .. Found, sum : Nat, results : Seq(Hits),
                          total : Nat, late : {0, 1}]
          /\ search'.cancel = search.cancel /\ search'.late = search.late
          /\ search'.results = search.results /\ search'.total = search.sum
      BY <3>1 DEF SearchInv
    <3>4. search.sum = Len(search.results)
      <4>1. Len(search.results) + Number(ui, append) = search.sum /\ Len(search.results) \in Nat
        BY <3>1, <3>2 DEF SearchInv
      <4> QED
        BY <3>2, <4>1
    <3>5. None(ui', strange(cmd'["search"].of))
      BY <2>2, <3>2, NoneOfFewer
    <3> QED
      BY <2>2, <2>4, <3>1, <3>2, <3>3, <3>4, <3>5 DEF SearchInv
  <2> QED
    BY <2>5, <2>6
<1> QED
  BY <1>1, <1>2

\* The end of a command, on the shelf.
LEMMA ShelfEnds ==
  ASSUME ShelfScreenInv, NEW c \in Commands, HasReturned(c) \/ HasEnded(c)
  PROVE  ShelfScreenInv'
<1> DEFINE shown == Kind("shelf")
           strange == {t \in shown : t.got[1] # shelfView.table}
           K == UiTasks \ {EndOf(c)}
           t == EndOf(c)
<1>0. /\ \A x \in shown : x \in UiTasks /\ x.is # "ended"
      /\ t.is = "ended" /\ ShelfCommands \subseteq Commands /\ Keeps(ui, ui', K)
      /\ shelfView' = shelfView
  BY EndsDiffer DEF Kind, ShelfCommands, Commands, HasReturned, HasEnded
<1>1. CASE c \notin ShelfCommands
  <2>1. \A d \in ShelfCommands : cmd'[d] = cmd[d]
    BY <1>0, <1>1 DEF HasReturned, HasEnded
  <2>2. OfShelf \subseteq K
    BY <1>0 DEF OfShelf
  <2>3. {EndOf(d) : d \in ShelfCommands} \subseteq K
    BY <1>0, <1>1, TaskFacts, EndsDiffer
  <2> QED
    BY <1>0, <2>1, <2>2, <2>3, ShelfRests
<1>2. CASE c \in ShelfCommands
  <2>1. shown \in SUBSET K /\ strange \in SUBSET K /\ t \notin shown
    BY <1>0
  <2>2. /\ None(ui, shown) <=> None(ui', shown)
        /\ None(ui, strange) => None(ui', strange)
        /\ Once(ui, shown) => Once(ui', shown)
    <3> HIDE DEF shown, strange, K
    <3> QED
      BY <1>0, <2>1 DEF Keeps
  <2>3. ASSUME \A d \in ShelfCommands : Ordered(ui, shown, {EndOf(d)})
        PROVE  \A d \in ShelfCommands : Ordered(ui', shown, {EndOf(d)})
    <3>1. HasReturned(c) => Added(ui, t, ui')
      BY DEF HasReturned
    <3>2. HasEnded(c) => Taken(ui, t, ui')
      BY DEF HasEnded
    <3> HIDE DEF t, shown
    <3> QED
      BY <2>1, <2>3, <3>1, <3>2 DEF Added, Taken
  <2>4. ASSUME HasEnded(c), \A d \in ShelfCommands : Ordered(ui, shown, {EndOf(d)})
        PROVE  None(ui, shown)
    <3>1. Taken(ui, t, ui') /\ t \in {EndOf(c)} /\ Ordered(ui, shown, {EndOf(c)})
      BY <1>2, <2>4 DEF HasEnded
    <3> DEFINE ends == {EndOf(c)}
    <3> HIDE DEF t, shown, ends
    <3>2. Taken(ui, t, ui') /\ t \in ends /\ Ordered(ui, shown, ends)
      BY <3>1 DEF ends
    <3> QED
      BY <3>2 DEF Taken
  <2>5. /\ \A d \in ShelfCommands \ {c} : cmd'[d] = cmd[d]
        /\ cmd[c].at \in Late
        /\ HasReturned(c) => cmd'[c].at = "ending" /\ cmd'[c].of = cmd[c].of
        /\ HasEnded(c) => cmd'[c].at = "idle" /\ cmd'[c].of = <<>>
    BY <1>0 DEF HasReturned, HasEnded, Late, Idle
  <2>6. ShelfTypes'
    <3>1. <<>> \in Seq(Books)
      OBVIOUS
    <3> QED
      BY <1>0, <2>5, <3>1 DEF ShelfScreenInv, ShelfTypes, ShelfCommands, HasReturned, HasEnded
  <2>7. CASE ~shelfView.overlap
    <3>1. RowsInv
      BY <2>7 DEF ShelfScreenInv
    <3>2. /\ None(ui', strange) /\ Once(ui', shown)
          /\ \A d \in ShelfCommands : Ordered(ui', shown, {EndOf(d)})
          /\ HasEnded(c) => None(ui, shown)
      BY <2>2, <2>3, <2>4, <3>1 DEF RowsInv
    <3>3. \A d \in ShelfCommands \ {c} : cmd[d].at = "idle"
      BY <1>2, <2>5, <3>1 DEF RowsInv, Executing, Late
    <3>4. RowsInv'
      <4>1. CASE HasReturned(c)
        BY <1>0, <1>2, <2>2, <2>5, <3>1, <3>2, <3>3, <4>1 DEF RowsInv, Executing, Late
      <4>2. CASE HasEnded(c)
        BY <1>0, <1>2, <2>2, <2>5, <3>1, <3>2, <3>3, <4>2 DEF RowsInv, Executing, Late
      <4> QED
        BY <4>1, <4>2
    <3> QED
      BY <2>6, <3>4 DEF ShelfScreenInv
  <2> QED
    BY <1>0, <2>6, <2>7 DEF ShelfScreenInv
<1> QED
  BY <1>1, <1>2

\* What a command that returns or has ended leaves of the tasks of a kind, and of their place
\* before its own.
LEMMA EndsLeave ==
  ASSUME NEW c \in Commands, HasReturned(c) \/ HasEnded(c), NEW S, \A x \in S : x \in UiTasks /\ x.is # "ended"
  PROVE  /\ None(ui, S) <=> None(ui', S)
         /\ Once(ui, S) => Once(ui', S)
         /\ Number(ui, S) = Number(ui', S)
         /\ \A d \in Commands : Ordered(ui, S, {EndOf(d)}) => Ordered(ui', S, {EndOf(d)})
         /\ HasEnded(c) /\ Ordered(ui, S, {EndOf(c)}) => None(ui, S)
<1> DEFINE K == UiTasks \ {EndOf(c)}
           t == EndOf(c)
           ends == {EndOf(c)}
<1>1. Keeps(ui, ui', K) /\ S \in SUBSET K /\ t \notin S /\ t \in ends
  BY EndsDiffer DEF HasReturned, HasEnded
<1>2. /\ None(ui, S) <=> None(ui', S)
      /\ Once(ui, S) => Once(ui', S)
      /\ Number(ui, S) = Number(ui', S)
  <2> HIDE DEF K
  <2> QED
    BY <1>1 DEF Keeps
<1>3. HasReturned(c) => Added(ui, t, ui')
  BY DEF HasReturned
<1>4. HasEnded(c) => Taken(ui, t, ui')
  BY DEF HasEnded
<1>5. HasEnded(c) /\ Ordered(ui, S, ends) => None(ui, S)
  <2> HIDE DEF t, ends
  <2> QED
    BY <1>1, <1>4 DEF Taken
<1>6. \A d \in Commands : Ordered(ui, S, {EndOf(d)}) => Ordered(ui', S, {EndOf(d)})
  <2> HIDE DEF t
  <2> QED
    BY <1>1, <1>3, <1>4 DEF Added, Taken
<1> QED
  BY <1>2, <1>5, <1>6

\* Where the commands are afterwards.
LEMMA EndsMove ==
  ASSUME NEW c \in Commands, HasReturned(c) \/ HasEnded(c)
  PROVE  /\ \A d \in Commands \ {c} : cmd'[d] = cmd[d]
         /\ cmd[c].at \in Late /\ cmd'[c].at \in Late \union {"idle"}
         /\ HasReturned(c) => cmd'[c].at \in Late /\ cmd'[c].of = cmd[c].of
         /\ ~HasReturned(c) => HasEnded(c) /\ cmd'[c].at = "idle"
         /\ UNCHANGED <<shelfView, reader, manager>>
  BY DEF HasReturned, HasEnded, Late, Idle

\* The end of a command, in the reader.
LEMMA ReaderEnds ==
  ASSUME ReaderScreenInv, NEW c \in Commands, HasReturned(c) \/ HasEnded(c)
  PROVE  ReaderScreenInv'
<1> DEFINE both == Kind("catalog") \union Kind("chapters")
           oddWhole == {t \in Kind("catalog") : ~Holds(t.got, reader.book, 0)}
           oddRest == {t \in Kind("chapters") : ~Holds(t.got, reader.book, Len(reader.chapters))}
           text == Kind("content")
           odd == {t \in text : t.got[1].chapter.n # t.got[1].index}
<1>0. /\ \A x \in both \union oddWhole \union oddRest \union text \union odd \union Kind("catalog") :
             x \in UiTasks /\ x.is # "ended"
      /\ "catalog" \in Commands /\ "content" \in Commands /\ "save" \in Commands
  BY DEF Kind, Commands
<1>1. /\ \A d \in Commands \ {c} : cmd'[d] = cmd[d]
      /\ cmd[c].at \in Late /\ cmd'[c].at \in Late \union {"idle"}
      /\ HasReturned(c) => cmd'[c].at \in Late /\ cmd'[c].of = cmd[c].of
      /\ ~HasReturned(c) => HasEnded(c) /\ cmd'[c].at = "idle"
      /\ reader' = reader
  BY EndsMove
<1>2. ReaderTypes' /\ (reader.text = reader.title)'
  BY <1>0, <1>1 DEF ReaderScreenInv, ReaderTypes, Executing, Late
<1>3. ASSUME CatalogInv PROVE CatalogInv'
  <2>1. /\ None(ui, both) <=> None(ui', both)
        /\ Once(ui, both) => Once(ui', both)
        /\ Ordered(ui, both, {EndOf("catalog")}) => Ordered(ui', both, {EndOf("catalog")})
        /\ HasEnded(c) /\ Ordered(ui, both, {EndOf(c)}) => None(ui, both)
    <3> HIDE DEF both
    <3> QED
      BY <1>0, EndsLeave
  <2>2. /\ None(ui, Kind("catalog")) <=> None(ui', Kind("catalog"))
        /\ None(ui, oddWhole) => None(ui', oddWhole)
        /\ None(ui, oddRest) => None(ui', oddRest)
    <3> HIDE DEF oddWhole, oddRest
    <3> QED
      BY <1>0, EndsLeave
  <2>3. ~None(ui', both) => cmd'["catalog"].at \in Late
    <3>1. CASE c = "catalog"
      BY <1>1, <1>3, <2>1, <3>1 DEF CatalogInv
    <3>2. CASE c # "catalog"
      BY <1>0, <1>1, <1>3, <2>1, <3>2 DEF CatalogInv
    <3> QED
      BY <3>1, <3>2
  <2>4. cmd'["catalog"].at = "read" => cmd'["catalog"] = cmd["catalog"]
    BY <1>0, <1>1 DEF Late
  <2>5. cmd'["catalog"].at \in {"idle"} \union Late => cmd["catalog"].at \in {"idle"} \union Late
    BY <1>0, <1>1
  <2> QED
    BY <1>1, <1>3, <2>1, <2>2, <2>3, <2>4, <2>5 DEF CatalogInv
<1>4. ASSUME TitleInv PROVE TitleInv'
  <2>1. /\ None(ui, text) <=> None(ui', text)
        /\ Ordered(ui, text, {EndOf("content")}) => Ordered(ui', text, {EndOf("content")})
        /\ HasEnded(c) /\ Ordered(ui, text, {EndOf(c)}) => None(ui, text)
    <3> HIDE DEF text
    <3> QED
      BY <1>0, EndsLeave
  <2>2. None(ui, odd) => None(ui', odd)
    <3> HIDE DEF odd
    <3> QED
      BY <1>0, EndsLeave
  <2>3. ~None(ui', text) => cmd'["content"].at \in Late
    <3>1. CASE c = "content"
      BY <1>1, <1>4, <2>1, <3>1 DEF TitleInv
    <3>2. CASE c # "content"
      BY <1>0, <1>1, <1>4, <2>1, <3>2 DEF TitleInv
    <3> QED
      BY <3>1, <3>2
  <2>4. \A d \in Commands : cmd'[d].at # "idle" => cmd[d].at # "idle"
    BY <1>1 DEF Late
  <2>5. /\ cmd'["content"].at = "picked" => cmd'["content"] = cmd["content"]
        /\ cmd'["save"].at = "read" => cmd'["save"] = cmd["save"]
    BY <1>0, <1>1 DEF Late
  <2> QED
    BY <1>0, <1>1, <1>4, <2>1, <2>2, <2>3, <2>4, <2>5 DEF TitleInv, Executing
<1> QED
  BY <1>1, <1>2, <1>3, <1>4 DEF ReaderScreenInv

\* The end of a command, in the source manager.
LEMMA ManagerEnds ==
  ASSUME ManagerInv, NEW c \in Commands, HasReturned(c) \/ HasEnded(c)
  PROVE  ManagerInv'
<1> DEFINE over == Kind("validated")
           graded == Kind("progress")
           shown == Kind("sources")
           strange == {t \in shown : t.got[1] # Now}
<1>0. /\ \A x \in over \union graded \union shown \union strange : x \in UiTasks /\ x.is # "ended"
      /\ ManagerCommands \subseteq Commands
  BY DEF Kind, ManagerCommands, Commands
<1>1. /\ \A d \in Commands \ {c} : cmd'[d] = cmd[d]
      /\ cmd[c].at \in Late /\ cmd'[c].at \in Late \union {"idle"}
      /\ HasReturned(c) => cmd'[c].at \in Late
      /\ ~HasReturned(c) => HasEnded(c) /\ cmd'[c].at = "idle"
      /\ manager' = manager
  BY EndsMove
<1>2. ManagerTypes'
  BY <1>0, <1>1 DEF ManagerInv, ManagerTypes, Late
<1>3. /\ None(ui, over) <=> None(ui', over)
      /\ Once(ui, over) => Once(ui', over)
      /\ None(ui, graded) <=> None(ui', graded)
      /\ Number(ui, graded) = Number(ui', graded)
  <2> HIDE DEF over, graded
  <2> QED
    BY <1>0, EndsLeave
<1>4. Ordered(ui, graded, over) => Ordered(ui', graded, over)
  <2> DEFINE K == UiTasks \ {EndOf(c)}
  <2>1. Keeps(ui, ui', K) /\ over \in SUBSET K /\ graded \in SUBSET K
    BY <1>0, EndsDiffer DEF HasReturned, HasEnded
  <2> HIDE DEF K, over, graded
  <2> QED
    BY <2>1 DEF Keeps
<1>5. GradingInv'
  BY <1>1, <1>3, <1>4 DEF ManagerInv, GradingInv
<1>6. ASSUME ListInv PROVE ListInv'
  <2>1. /\ None(ui, shown) <=> None(ui', shown)
        /\ Once(ui, shown) => Once(ui', shown)
        /\ \A d \in Commands : Ordered(ui, shown, {EndOf(d)}) => Ordered(ui', shown, {EndOf(d)})
        /\ HasEnded(c) /\ Ordered(ui, shown, {EndOf(c)}) => None(ui, shown)
    <3> HIDE DEF shown
    <3> QED
      BY <1>0, EndsLeave
  <2>2. None(ui, strange) => None(ui', strange)
    <3> HIDE DEF strange
    <3> QED
      BY <1>0, EndsLeave
  <2>3. \A d, e \in ManagerCommands : Executing(d)' /\ Executing(e)' => d = e
    <3>1. \A d \in Commands : cmd'[d].at # "idle" => cmd[d].at # "idle"
      BY <1>1 DEF Late
    <3> QED
      BY <1>0, <1>6, <3>1 DEF ListInv, Executing
  <2>4. ~None(ui', shown) => \E d \in ManagerCommands : cmd'[d].at \in Late
    <3> SUFFICES ASSUME ~None(ui', shown) PROVE \E d \in ManagerCommands : cmd'[d].at \in Late
      OBVIOUS
    <3>1. PICK d \in ManagerCommands : cmd[d].at \in Late
      BY <1>6, <2>1 DEF ListInv
    <3>2. CASE d # c
      BY <1>0, <1>1, <3>1, <3>2
    <3>3. CASE d = c
      <4>1. HasReturned(c)
        BY <1>1, <1>6, <2>1, <3>1, <3>3 DEF ListInv
      <4> QED
        BY <1>1, <3>1, <3>3, <4>1
    <3> QED
      BY <3>2, <3>3
  <2>5. /\ \A d \in ManagerCommands : cmd'[d].at = "read" => cmd'[d] = cmd[d]
        /\ \A d \in ManagerCommands : cmd'[d].at \in {"idle"} \union Late => cmd[d].at \in {"idle"} \union Late
    BY <1>0, <1>1 DEF Late
  <2>6. Now' = Now /\ manager' = manager /\ \A d \in Commands : EndOf(d)' = EndOf(d)
    BY <1>1 DEF Now, EndOf
  <2> QED
    BY <1>0, <1>6, <2>1, <2>2, <2>3, <2>4, <2>5, <2>6 DEF ListInv
<1> QED
  BY <1>1, <1>2, <1>5, <1>6 DEF ManagerInv

\* A screen that is opened, or none.
LEMMA ViewBegins ==
  ASSUME NEW visit, visit.screen \in {"search", "shelf", "reader", "sources", "none"},
         visit.clicks \in Seq(Doings), ViewStart(visit)
  PROVE  ViewInv
<1>1. /\ screen \in {"search", "shelf", "reader", "sources", "none"} /\ clicks \in Seq(Doings)
      /\ ui = <<>> /\ cmd = [c \in Commands |-> Idle]
      /\ search = [cancel |-> FALSE, left |-> 0, sum |-> 0, results |-> <<>>, total |-> 0, late |-> 0]
      /\ shelfView = [table |-> {}, shown |-> {}, overlap |-> FALSE]
      /\ reader = [book |-> NoBook, chapters |-> <<>>, index |-> 0, title |-> <<>>, text |-> <<>>,
                   saved |-> <<>>, asked |-> <<>>, mixed |-> FALSE]
      /\ manager = [list |-> 0, graded |-> FALSE, shown |-> [count |-> 0, graded |-> FALSE],
                    validating |-> FALSE, done |-> 0, all |-> 0, left |-> 0, blocked |-> FALSE,
                    cancelled |-> FALSE, stale |-> FALSE, overlap |-> FALSE]
  BY DEF ViewStart
<1>2. /\ \A S : None(ui, S) /\ Once(ui, S) /\ Number(ui, S) = 0
      /\ \A S, T : Ordered(ui, S, T)
  <2>1. DOMAIN ui = {}
    BY <1>1
  <2>2. \A S : None(ui, S) /\ Once(ui, S)
    BY <2>1 DEF None, Once
  <2>3. \A S, T : Ordered(ui, S, T)
    BY <2>1 DEF Ordered
  <2> QED
    BY <2>2, <2>3, NoneCounted
<1>3. \A c \in Commands : cmd[c] = Idle /\ cmd[c].at = "idle" /\ cmd[c].of = <<>> /\ ~Executing(c)
  BY <1>1 DEF Idle, Executing
<1>4. <<>> \in Seq(Hits) /\ <<>> \in Seq(Books) /\ <<>> \in Seq(ShelfParts) /\ <<>> \in Seq(UiTasks)
      /\ Len(<<>>) = 0 /\ DOMAIN <<>> = {}
  OBVIOUS
<1>5. CmdTypes
  <2>1. Idle \in [at : Steps, of : Wants, got : Gots]
    BY ViewFacts, GotFacts DEF Idle, Steps
  <2>2. \A c \in Commands : cmd[c].at \in StepsOf(c)
    BY <1>3, StepFacts
  <2> DEFINE r == Idle
  <2>3. cmd \in [Commands -> [at : Steps, of : Wants, got : Gots]]
    <3>1. cmd = [c \in Commands |-> r] /\ r \in [at : Steps, of : Wants, got : Gots]
      BY <1>1, <2>1
    <3> HIDE DEF r
    <3> QED
      BY <3>1
  <2> QED
    BY <1>1, <1>4, <2>2, <2>3 DEF CmdTypes
<1>6. EndInv
  BY <1>2, <1>3 DEF EndInv
<1>7. SearchInv
  <2>1. search \in [cancel : BOOLEAN, left : 0 .. Found, sum : Nat, results : Seq(Hits),
                    total : Nat, late : {0, 1}]
    BY <1>1, <1>4, ViewFacts
  <2>2. search.late = 0 /\ search.results = <<>> /\ search.total = 0
    BY <1>1
  <2>3. "search" \in Commands
    BY DEF Commands
  <2> QED
    BY <1>2, <1>3, <1>4, <2>1, <2>2, <2>3 DEF SearchInv
<1>8. ShelfScreenInv
  <2>1. /\ shelfView \in [table : SUBSET Books, shown : SUBSET Books, overlap : BOOLEAN]
        /\ shelfView.shown = shelfView.table
    BY <1>1
  <2>2. ShelfCommands \subseteq Commands /\ "add" \in Commands /\ "remove" \in Commands
    BY DEF ShelfCommands, Commands
  <2> QED
    BY <1>2, <1>3, <1>4, <2>1, <2>2 DEF ShelfScreenInv, ShelfTypes, RowsInv
<1>9. ReaderScreenInv
  <2>1. /\ reader.book = NoBook /\ reader.chapters = <<>> /\ reader.index = 0 /\ reader.title = <<>>
        /\ reader.text = <<>> /\ reader.saved = <<>> /\ reader.asked = <<>> /\ reader.mixed = FALSE
    BY <1>1
  <2>2. reader \in ReaderStates
    <3>1. /\ <<>> \in Seq([index : Nat, title : Seq(ShelfParts)])
          /\ <<>> \in Seq([book : Books \union {NoBook}, chapter : ShelfParts])
          /\ NoBook \in Books \union {NoBook}
      OBVIOUS
    <3> QED
      BY <1>1, <1>4, <3>1 DEF ReaderStates
  <2>3. "catalog" \in Commands /\ "content" \in Commands /\ "save" \in Commands
    BY DEF Commands
  <2>4. ReaderTypes
    BY <1>3, <2>2, <2>3 DEF ReaderTypes
  <2>5. CatalogInv
    BY <1>2, <1>3, <2>1, <2>3, HoldsFacts DEF CatalogInv
  <2>6. TitleInv
    BY <1>2, <1>3, <1>4, <2>1, <2>3 DEF TitleInv
  <2> QED
    BY <2>1, <2>4, <2>5, <2>6 DEF ReaderScreenInv
<1>10. ManagerInv
  <2>1. /\ manager.validating = FALSE /\ manager.blocked = FALSE /\ manager.done = 0 /\ manager.all = 0
        /\ manager.left = 0 /\ manager.list = 0 /\ manager.graded = FALSE
        /\ manager.shown = [count |-> 0, graded |-> FALSE]
    BY <1>1
  <2>2. manager \in ManagerStates
    <3>1. [count |-> 0, graded |-> FALSE] \in Counts /\ 0 \in 0 .. Grades
      BY ViewFacts DEF Counts
    <3> QED
      BY <1>1, <3>1 DEF ManagerStates
  <2>3. ManagerCommands \subseteq Commands
    BY DEF ManagerCommands, Commands
  <2>4. manager.shown = Now
    BY <2>1 DEF Now
  <2>5. ManagerTypes
    BY <1>3, <2>2, <2>3 DEF ManagerTypes
  <2>6. GradingInv
    <3>1. manager.done + Number(ui, Kind("progress")) + manager.left <= manager.all
      <4>1. Number(ui, Kind("progress")) = 0
        BY <1>2
      <4> QED
        BY <2>1, <4>1
    <3> QED
      BY <1>2, <2>1, <3>1 DEF GradingInv
  <2>7. ListInv
    BY <1>2, <1>3, <2>3, <2>4 DEF ListInv
  <2> QED
    BY <2>5, <2>6, <2>7 DEF ManagerInv
<1> QED
  BY <1>5, <1>6, <1>7, <1>8, <1>9, <1>10 DEF ViewInv

\* One part of a screen takes a step, the others rest.
LEMMA ViewKeeps ==
  ASSUME ViewInv, ViewNext
  PROVE  ViewInv'
<1>0. CmdTypes /\ EndInv /\ SearchInv /\ ShelfScreenInv /\ ReaderScreenInv /\ ManagerInv
  BY DEF ViewInv
<1> DEFINE ends == {EndOf(c) : c \in Commands}
           KSearch == UiTasks \ OfSearch
           KShelf == UiTasks \ OfShelf
           KReader == UiTasks \ OfReader
           KManager == UiTasks \ OfManager
<1>1. /\ OfSearch \union ends \subseteq KShelf /\ OfSearch \union ends \subseteq KReader
      /\ OfSearch \union ends \subseteq KManager
      /\ OfShelf \union ends \subseteq KSearch /\ OfShelf \union ends \subseteq KReader
      /\ OfShelf \union ends \subseteq KManager
      /\ OfReader \union ends \subseteq KSearch /\ OfReader \union ends \subseteq KShelf
      /\ OfReader \union ends \subseteq KManager
      /\ OfManager \union ends \subseteq KSearch /\ OfManager \union ends \subseteq KShelf
      /\ OfManager \union ends \subseteq KReader
  BY KindFacts
<1>2. /\ "search" \in Commands /\ ShelfCommands \subseteq Commands /\ ReaderCommands \subseteq Commands
      /\ ManagerCommands \subseteq Commands
      /\ "search" \notin ShelfCommands \union ReaderCommands \union ManagerCommands
      /\ ShelfCommands \intersect ReaderCommands = {} /\ ShelfCommands \intersect ManagerCommands = {}
      /\ ReaderCommands \intersect ManagerCommands = {}
  BY DEF Commands, ShelfCommands, ReaderCommands, ManagerCommands
<1>3. /\ EndOf("search") \in ends /\ {EndOf(c) : c \in ShelfCommands} \subseteq ends
      /\ {EndOf(c) : c \in ReaderCommands} \subseteq ends /\ {EndOf(c) : c \in ManagerCommands} \subseteq ends
  BY <1>2
<1> HIDE DEF ends, KSearch, KShelf, KReader, KManager
<1>4. CASE SearchStep
  <2>1. Frame(KSearch, {"search"}) /\ UNCHANGED <<shelfView, reader, manager>> /\ SearchInv'
    BY <1>0, <1>4, SearchLeaves, SearchKeeps1 DEF KSearch
  <2>2. /\ CmdTypes' /\ Keeps(ui, ui', KSearch) /\ \A c \in Commands \ {"search"} : cmd'[c] = cmd[c]
        /\ \A c \in Commands : cmd'[c].at = "ending" <=> cmd[c].at = "ending"
    BY <2>1 DEF Frame
  <2>3. EndInv'
    BY <1>0, <1>1, <2>2, EndsRest DEF ends
  <2>4. ShelfScreenInv'
    BY <1>0, <1>1, <1>2, <1>3, <2>1, <2>2, ShelfRests
  <2>5. ReaderScreenInv'
    BY <1>0, <1>1, <1>2, <1>3, <2>1, <2>2, ReaderRests
  <2>6. ManagerInv'
    BY <1>0, <1>1, <1>2, <1>3, <2>1, <2>2, ManagerRests
  <2> QED
    BY <2>1, <2>2, <2>3, <2>4, <2>5, <2>6 DEF ViewInv
<1>5. CASE ShelfStep
  <2>1. Frame(KShelf, ShelfCommands) /\ UNCHANGED <<search, reader, manager>> /\ ShelfScreenInv'
    BY <1>0, <1>5, ShelfLeaves, ShelfKeeps1 DEF KShelf, ShelfScreenInv
  <2>2. /\ CmdTypes' /\ Keeps(ui, ui', KShelf) /\ \A c \in Commands \ ShelfCommands : cmd'[c] = cmd[c]
        /\ \A c \in Commands : cmd'[c].at = "ending" <=> cmd[c].at = "ending"
    BY <2>1 DEF Frame
  <2>3. EndInv'
    BY <1>0, <1>1, <2>2, EndsRest DEF ends
  <2>4. SearchInv'
    BY <1>0, <1>1, <1>2, <1>3, <2>1, <2>2, SearchRests
  <2>5. ReaderScreenInv'
    BY <1>0, <1>1, <1>2, <1>3, <2>1, <2>2, ReaderRests
  <2>6. ManagerInv'
    BY <1>0, <1>1, <1>2, <1>3, <2>1, <2>2, ManagerRests
  <2> QED
    BY <2>1, <2>2, <2>3, <2>4, <2>5, <2>6 DEF ViewInv
<1>6. CASE ReaderStep
  <2>1. Frame(KReader, ReaderCommands) /\ UNCHANGED <<search, shelfView, manager>> /\ ReaderScreenInv'
    BY <1>0, <1>6, ReaderLeaves, ReaderKeeps1 DEF KReader, ReaderScreenInv
  <2>2. /\ CmdTypes' /\ Keeps(ui, ui', KReader) /\ \A c \in Commands \ ReaderCommands : cmd'[c] = cmd[c]
        /\ \A c \in Commands : cmd'[c].at = "ending" <=> cmd[c].at = "ending"
    BY <2>1 DEF Frame
  <2>3. EndInv'
    BY <1>0, <1>1, <2>2, EndsRest DEF ends
  <2>4. SearchInv'
    BY <1>0, <1>1, <1>2, <1>3, <2>1, <2>2, SearchRests
  <2>5. ShelfScreenInv'
    BY <1>0, <1>1, <1>2, <1>3, <2>1, <2>2, ShelfRests
  <2>6. ManagerInv'
    BY <1>0, <1>1, <1>2, <1>3, <2>1, <2>2, ManagerRests
  <2> QED
    BY <2>1, <2>2, <2>3, <2>4, <2>5, <2>6 DEF ViewInv
<1>7. CASE ManagerStep
  <2>1. Frame(KManager, ManagerCommands) /\ UNCHANGED <<search, shelfView, reader>> /\ ManagerInv'
    BY <1>0, <1>7, ManagerLeaves, ManagerKeeps1 DEF KManager, ManagerInv
  <2>2. /\ CmdTypes' /\ Keeps(ui, ui', KManager) /\ \A c \in Commands \ ManagerCommands : cmd'[c] = cmd[c]
        /\ \A c \in Commands : cmd'[c].at = "ending" <=> cmd[c].at = "ending"
    BY <2>1 DEF Frame
  <2>3. EndInv'
    BY <1>0, <1>1, <2>2, EndsRest DEF ends
  <2>4. SearchInv'
    BY <1>0, <1>1, <1>2, <1>3, <2>1, <2>2, SearchRests
  <2>5. ShelfScreenInv'
    BY <1>0, <1>1, <1>2, <1>3, <2>1, <2>2, ShelfRests
  <2>6. ReaderScreenInv'
    BY <1>0, <1>1, <1>2, <1>3, <2>1, <2>2, ReaderRests
  <2> QED
    BY <2>1, <2>2, <2>3, <2>4, <2>5, <2>6 DEF ViewInv
<1>8. CASE (\E c \in Commands : Returns(c)) \/ Ended
  <2>1. PICK c \in Commands : HasReturned(c) \/ HasEnded(c)
    BY <1>0, <1>8, ReturnFacts, EndedFacts
  <2>2. CmdTypes'
    BY <2>1 DEF HasReturned, HasEnded
  <2> QED
    BY <1>0, <2>1, <2>2, EndsKept, SearchCloses, ShelfEnds, ReaderEnds, ManagerEnds DEF ViewInv
<1> QED
  BY <1>4, <1>5, <1>6, <1>7, <1>8 DEF ViewNext, SearchStep, ShelfStep, ReaderStep, ManagerStep

\* The screens while another part is at work.
LEMMA ViewWaits ==
  ASSUME ViewInv, UNCHANGED viewVars
  PROVE  ViewInv'
<1>1. /\ screen' = screen /\ clicks' = clicks /\ ui' = ui /\ cmd' = cmd /\ search' = search
      /\ shelfView' = shelfView /\ reader' = reader /\ manager' = manager
  BY DEF viewVars
<1>2. CmdTypes /\ EndInv /\ SearchInv /\ ShelfScreenInv /\ ReaderScreenInv /\ ManagerInv
  BY DEF ViewInv
<1> DEFINE K == UiTasks
<1>3. Elsewhere(K)
  BY <1>1 DEF Elsewhere
<1>4. /\ OfSearch \subseteq K /\ OfShelf \subseteq K /\ OfReader \subseteq K /\ OfManager \subseteq K
      /\ \A c \in Commands : EndOf(c) \in K
      /\ "search" \in Commands /\ ShelfCommands \subseteq Commands /\ ReaderCommands \subseteq Commands
      /\ ManagerCommands \subseteq Commands
  BY KindFacts, TaskFacts DEF Commands, ShelfCommands, ReaderCommands, ManagerCommands
<1> HIDE DEF K
<1>5. Keeps(ui, ui', K)
  BY <1>2, <1>3, ElsewhereFacts DEF CmdTypes
<1>6. CmdTypes'
  BY <1>1, <1>2 DEF CmdTypes
<1>7. EndInv'
  BY <1>1, <1>2, <1>4, <1>5, EndsRest
<1>8. SearchInv'
  BY <1>1, <1>2, <1>4, <1>5, SearchRests
<1>9. ShelfScreenInv'
  BY <1>1, <1>2, <1>4, <1>5, ShelfRests
<1>10. ReaderScreenInv'
  BY <1>1, <1>2, <1>4, <1>5, ReaderRests
<1>11. ManagerInv'
  BY <1>1, <1>2, <1>4, <1>5, ManagerRests
<1> QED
  BY <1>6, <1>7, <1>8, <1>9, <1>10, <1>11 DEF ViewInv

\* What a screen shows is true.
LEMMA ViewIsTrue ==
  ASSUME ViewInv
  PROVE  ViewTypeOK /\ ScreensAreTrue
<1>0. CmdTypes /\ SearchInv /\ ShelfScreenInv /\ ReaderScreenInv /\ ManagerInv
  BY DEF ViewInv
<1>1. ASSUME AtRest
      PROVE  (\A S : None(ui, S)) /\ (\A c \in Commands : cmd[c].at = "idle") /\ ~manager.blocked
  <2>1. DOMAIN ui = {}
    BY <1>1 DEF AtRest
  <2> QED
    BY <1>1, <2>1 DEF AtRest, AnyAtWork, Executing, None
<1>2. OneSearchIsShown
  <2>1. search.late \in {0, 1} /\ \A i, j \in DOMAIN search.results : search.results[i] = search.results[j]
    BY <1>0 DEF SearchInv
  <2>2. search.late <= 1
    BY <2>1
  <2>3. AtRest => search.total = Len(search.results)
    BY <1>0, <1>1 DEF SearchInv, Commands
  <2> QED
    BY <2>1, <2>2, <2>3 DEF OneSearchIsShown
<1>3. ShelfIsShown
  <2>1. ShelfCommands \subseteq Commands
    BY DEF ShelfCommands, Commands
  <2> QED
    BY <1>0, <1>1, <2>1 DEF ShelfIsShown, ShelfScreenInv, RowsInv
<1>4. ReaderIsConsistent
  BY <1>0 DEF ReaderIsConsistent, ReaderScreenInv, TitleInv
<1>5. ValidationIsShown
  <2>1. /\ manager.done \in Nat /\ manager.all \in Nat /\ manager.left \in Nat
        /\ Number(ui, Kind("progress")) \in Nat
    <3>1. manager \in ManagerStates
      BY <1>0 DEF ManagerInv, ManagerTypes
    <3>2. Number(ui, Kind("progress")) \in Nat
      <4> DEFINE t == Task("progress")
                 r == Append(ui, t)
      <4>1. Added(ui, t, r)
        BY <1>0, TaskFacts, AddFacts DEF CmdTypes
      <4> HIDE DEF t, r
      <4> QED
        BY <4>1 DEF Added
    <3> QED
      BY <3>1, <3>2, ViewFacts DEF ManagerStates
  <2>2. manager.done <= manager.all \/ manager.stale
    <3>1. manager.stale \/ manager.done + Number(ui, Kind("progress")) + manager.left <= manager.all
      BY <1>0 DEF ManagerInv, GradingInv
    <3> QED
      BY <2>1, <3>1
  <2>3. AtRest => ~manager.validating
    BY <1>0, <1>1 DEF ManagerInv, GradingInv
  <2>4. AtRest => manager.overlap \/ manager.shown = Now
    <3>1. ManagerCommands \subseteq Commands
      BY DEF ManagerCommands, Commands
    <3> QED
      BY <1>0, <1>1, <2>3, <3>1 DEF ManagerInv, ListInv
  <2> QED
    BY <2>2, <2>3, <2>4 DEF ValidationIsShown, Now
<1>6. ViewTypeOK
  <2>1. /\ search.cancel \in BOOLEAN /\ search.left \in 0 .. Found
        /\ shelfView.table \subseteq Books /\ shelfView.shown \subseteq Books
        /\ manager.left \in 0 .. Grades /\ manager.blocked \in BOOLEAN
    BY <1>0 DEF SearchInv, ShelfScreenInv, ShelfTypes, ManagerInv, ManagerTypes, ManagerStates
  <2> QED
    BY <1>0, <2>1 DEF ViewTypeOK, CmdTypes
<1> QED
  BY <1>2, <1>3, <1>4, <1>5, <1>6 DEF ScreensAreTrue
=============================================================================
