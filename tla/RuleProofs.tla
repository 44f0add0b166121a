----------------------------- MODULE RuleProofs -----------------------------
(***************************************************************************)
(* For any rules, any contents, any number of threads and caches of any    *)
(* size: an answer is what its rule says of its content, whatever is       *)
(* cached and whoever cached it, and the caches keep their bounds.         *)
(*                                                                         *)
(* What a rule says is a recursive function of the rule, so it is shown to *)
(* be defined first.  The inductive invariant says of each thread's stack  *)
(* what every waiting call owes to the call below it: the value it has to  *)
(* give for the whole job to end with what its rule says.                  *)
(***************************************************************************)
EXTENDS SelectorProofs

-----------------------------------------------------------------------------
(* What rules say. *)

Meanings == [items : Seq(Texts), kept : Texts]
Senses == [Contents -> [Texts -> Meanings]]
Pick1(items) == IF items = <<>> THEN Empty ELSE items[1]
Templated(items) == IF OneText(items) = Empty THEN <<>> ELSE <<OneText(items)>>
FirstFilled(lists) ==
    LET some == {i \in DOMAIN lists : lists[i] # <<>>}
    IN  IF some = {} THEN <<>> ELSE lists[CHOOSE i \in some : \A j \in some : i <= j]
Lined(type, lists) ==
    IF type = "&&" THEN FlattenSeq(lists) ELSE IF type = "%%" THEN Woven(lists) ELSE FirstFilled(lists)

\* What a rule may be.
LEMMA PhraseShape ==
  ASSUME NEW rule \in Phrases
  PROVE  /\ rule.is \in {"script", "get", "put", "template", "select", "chain", "join", "redact"}
         /\ rule.is \in {"select", "chain"} => rule.ways \in Seq(DOMAIN Finds)
         /\ rule.is = "join" => /\ rule.type \in {"&&", "||", "%%"} /\ rule.parts \in Seq(Phrases)
                                /\ rule.parts # <<>> /\ Len(rule.parts) \in Nat \ {0}
                                /\ \A i \in 1 .. Len(rule.parts) :
                                    /\ rule.parts[i] \in Inners(rule) /\ rule.parts[i] \in Phrases
                                    /\ rule.parts[i].is \in {"select", "chain", "join", "script"}
         /\ rule.is = "redact" => /\ rule.pattern \in STRING
                                  /\ rule.of.is \in {"select", "chain", "join", "template"}
         /\ rule.is \in {"redact", "template", "put"} => rule.of \in Phrases /\ rule.of \in Inners(rule)
         /\ rule.is = "put" => rule.rest \in Phrases /\ rule.rest \in Inners(rule)
         /\ \A inner \in Inners(rule) : inner \in Phrases /\ Length[inner] < Length[rule]
<1>1. /\ \/ rule.is \in {"script", "get", "put", "template"}
         \/ rule.is \in {"select", "chain"} /\ rule.ways \in Seq(DOMAIN Finds)
         \/ /\ rule.is = "join" /\ rule.type \in {"&&", "||", "%%"}
            /\ rule.parts \in Seq(Phrases) \ {<<>>}
            /\ \A part \in Inners(rule) : part.is \in {"select", "chain", "join", "script"}
         \/ /\ rule.is = "redact" /\ rule.pattern \in STRING
            /\ rule.of.is \in {"select", "chain", "join", "template"}
      /\ \A inner \in Inners(rule) : inner \in Phrases /\ Length[inner] < Length[rule]
  BY PhrasesAreWhole
<1>2. rule.is = "put" => rule.of \in Inners(rule) /\ rule.rest \in Inners(rule)
  BY DEF Inners
<1>3. rule.is \in {"redact", "template"} => rule.of \in Inners(rule)
  BY DEF Inners
<1>4. rule.is \in {"redact", "template", "put"} => rule.of \in Phrases /\ rule.of \in Inners(rule)
  BY <1>1, <1>2, <1>3
<1>5. ASSUME rule.is = "join"
      PROVE  /\ rule.type \in {"&&", "||", "%%"} /\ rule.parts \in Seq(Phrases)
             /\ rule.parts # <<>> /\ Len(rule.parts) \in Nat \ {0}
             /\ \A i \in 1 .. Len(rule.parts) :
                 /\ rule.parts[i] \in Inners(rule) /\ rule.parts[i] \in Phrases
                 /\ rule.parts[i].is \in {"select", "chain", "join", "script"}
  <2>1. rule.type \in {"&&", "||", "%%"}
    BY <1>1, <1>5
  <2>2. rule.parts \in Seq(Phrases) /\ rule.parts # <<>>
    BY <1>1, <1>5
  <2>3. Len(rule.parts) \in Nat \ {0} /\ DOMAIN rule.parts = 1 .. Len(rule.parts)
    BY <2>2, EmptySeq
  <2>4. Inners(rule) = {rule.parts[i] : i \in DOMAIN rule.parts}
    BY <1>5 DEF Inners
  <2>5. \A part \in Inners(rule) : part.is \in {"select", "chain", "join", "script"}
    BY <1>1, <1>5
  <2>6. ASSUME NEW i \in 1 .. Len(rule.parts)
        PROVE  /\ rule.parts[i] \in Inners(rule) /\ rule.parts[i] \in Phrases
               /\ rule.parts[i].is \in {"select", "chain", "join", "script"}
    <3>1. rule.parts[i] \in Inners(rule)
      BY <2>3, <2>4
    <3>2. rule.parts[i] \in Phrases
      BY <3>1, <1>1
    <3>3. rule.parts[i].is \in {"select", "chain", "join", "script"}
      BY <3>1, <2>5
    <3> QED
      BY <3>1, <3>2, <3>3
  <2> QED
    BY <2>1, <2>2, <2>3, <2>6
<1>6. rule.is \in {"script", "get", "put", "template", "select", "chain", "join", "redact"}
  BY <1>1
<1>7. rule.is \in {"select", "chain"} => rule.ways \in Seq(DOMAIN Finds)
  BY <1>1
<1>8. rule.is = "redact" => /\ rule.pattern \in STRING
                            /\ rule.of.is \in {"select", "chain", "join", "template"}
  BY <1>1
<1>9. rule.is = "put" => rule.rest \in Phrases /\ rule.rest \in Inners(rule)
  BY <1>1, <1>2
<1>10. \A inner \in Inners(rule) : inner \in Phrases /\ Length[inner] < Length[rule]
  BY <1>1
<1> QED
  BY <1>4, <1>5, <1>6, <1>7, <1>8, <1>9, <1>10

\* The shape of a joint rule's parts.
LEMMA PartsShape ==
  ASSUME NEW rule \in Phrases, rule.is = "join"
  PROVE  /\ rule.type \in {"&&", "||", "%%"} /\ Len(rule.parts) \in Nat \ {0}
         /\ DOMAIN rule.parts = 1 .. Len(rule.parts)
         /\ \A i \in 1 .. Len(rule.parts) :
               /\ rule.parts[i] \in Inners(rule) /\ rule.parts[i] \in Phrases
               /\ rule.parts[i].is \in {"select", "chain", "join", "script"}
<1>1. rule.parts \in Seq(Phrases)
  BY PhraseShape
<1>2. DOMAIN rule.parts = 1 .. Len(rule.parts)
  BY <1>1
<1>3. rule.type \in {"&&", "||", "%%"} /\ Len(rule.parts) \in Nat \ {0}
  BY PhraseShape
<1>4. \A i \in 1 .. Len(rule.parts) :
         /\ rule.parts[i] \in Inners(rule) /\ rule.parts[i] \in Phrases
         /\ rule.parts[i].is \in {"select", "chain", "join", "script"}
  BY PhraseShape
<1> QED
  BY <1>2, <1>3, <1>4

\* Texts put together are texts.
LEMMA TextsJoin ==
  /\ <<>> \in Texts /\ <<>> \in Seq(Texts)
  /\ \A c \in STRING : <<c>> \in Texts
  /\ \A a \in Texts : <<a>> \in Seq(Texts)
  /\ \A a, b \in Texts : a \o b \in Texts
<1>1. <<>> \in Texts /\ <<>> \in Seq(Texts)
  BY EmptySeq DEF Texts
<1>2. \A c \in STRING : <<c>> \in Texts
  <2>1. \A X : \A c \in X : <<c>> \in Seq(X)
    OBVIOUS
  <2> QED
    BY <2>1, Zenon DEF Texts
<1>3. \A a \in Texts : <<a>> \in Seq(Texts)
  <2> TAKE a \in Texts
  <2> QED
    OBVIOUS
<1>4. \A a, b \in Texts : a \o b \in Texts
  BY ConcatProperties DEF Texts
<1> QED
  BY <1>1, <1>2, <1>3, <1>4

\* A script gives a text.
LEMMA RunTyped ==
  ASSUME NEW item \in Texts, NEW value \in Texts
  PROVE  Run(item, value) \in Texts
<1>1. "by" \in STRING
  BY SelectorsGiveTexts
<1>2. <<"by">> \in Texts
  BY <1>1, TextsJoin
<1>3. item \o <<"by">> \in Texts
  BY <1>2, TextsJoin
<1> QED
  BY <1>3, TextsJoin DEF Run

\* Of a set of places there is a first one.
LEMMA FirstOf ==
  ASSUME NEW some, some \subseteq Nat, some # {}
  PROVE  LET first == CHOOSE i \in some : \A j \in some : i <= j
         IN  first \in some /\ \A j \in some : first <= j
<1>1. \E i \in some : \A j \in some : i <= j
  BY LeastNumber
<1> QED
  BY <1>1

\* A selector gives texts.
LEMMA FoundTyped ==
  ASSUME NEW ways \in Seq(DOMAIN Finds), NEW content \in Contents
  PROVE  Found(ways, content) \in Seq(Texts)
<1> DEFINE some == {i \in DOMAIN ways : Finds[ways[i]][content] # <<>>}
           first == CHOOSE i \in some : \A j \in some : i <= j
<1>1. some \subseteq Nat /\ \A i \in some : ways[i] \in DOMAIN Finds
  OBVIOUS
<1>2. CASE some = {}
  <2>1. Found(ways, content) = <<>>
    BY <1>2 DEF Found
  <2> QED
    BY <2>1, TextsJoin
<1>3. CASE some # {}
  <2>1. Found(ways, content) = Finds[ways[first]][content]
    BY <1>3 DEF Found
  <2>2. first \in some
    <3> HIDE DEF some
    <3> QED
      BY <1>1, <1>3, FirstOf
  <2> HIDE DEF some, first
  <2>3. Finds[ways[first]] \in [Contents -> Seq(Texts)]
    BY <1>1, <2>2, SelectorsGiveTexts
  <2> QED
    BY <2>1, <2>3
<1> QED
  BY <1>2, <1>3

\* The first list that is not empty is one of texts.
LEMMA FirstFilledTyped ==
  ASSUME NEW n \in Nat, NEW lists, DOMAIN lists = 1 .. n, \A i \in 1 .. n : lists[i] \in Seq(Texts)
  PROVE  FirstFilled(lists) \in Seq(Texts)
<1> DEFINE some == {i \in DOMAIN lists : lists[i] # <<>>}
           first == CHOOSE i \in some : \A j \in some : i <= j
<1>1. some \subseteq Nat /\ some \subseteq 1 .. n
  OBVIOUS
<1>2. CASE some = {}
  <2>1. FirstFilled(lists) = <<>>
    BY <1>2 DEF FirstFilled
  <2> QED
    BY <2>1, TextsJoin
<1>3. CASE some # {}
  <2>1. FirstFilled(lists) = lists[first]
    BY <1>3 DEF FirstFilled
  <2>2. first \in some
    <3> HIDE DEF some
    <3> QED
      BY <1>1, <1>3, FirstOf
  <2> HIDE DEF some, first
  <2> QED
    BY <1>1, <2>1, <2>2
<1> QED
  BY <1>2, <1>3

\* A function on 1 .. n is a sequence.
LEMMA AsSequence ==
  ASSUME NEW n \in Nat, NEW X, NEW f, f = [i \in 1 .. n |-> f[i]], \A i \in 1 .. n : f[i] \in X
  PROVE  f \in Seq(X) /\ Len(f) = n
<1>1. f \in [1 .. n -> X]
  OBVIOUS
<1> QED
  BY <1>1

\* Many texts joined are a text.
LEMMA OneTextTyped ==
  ASSUME NEW items \in Seq(Texts)
  PROVE  OneText(items) \in Texts
<1> DEFINE parts == [i \in DOMAIN items |->
                        IF \A j \in 1 .. i - 1 : items[j] = Empty THEN items[i] ELSE <<"nl">> \o items[i]]
           n == Len(items)
<1>1. n \in Nat /\ DOMAIN items = 1 .. n /\ \A i \in 1 .. n : items[i] \in Texts
  OBVIOUS
<1>2. "nl" \in STRING
  BY SelectorsGiveTexts
<1>3. <<"nl">> \in Texts
  BY <1>2, TextsJoin
<1>4. ASSUME NEW i \in 1 .. n PROVE parts[i] \in Texts
  <2>1. items[i] \in Texts /\ <<"nl">> \o items[i] \in Texts
    BY <1>1, <1>3, TextsJoin
  <2>2. parts[i] = items[i] \/ parts[i] = <<"nl">> \o items[i]
    BY <1>1
  <2> QED
    BY <2>1, <2>2
<1>5. parts = [i \in 1 .. n |-> parts[i]]
  BY <1>1
<1>6. OneText(items) = FlattenSeq(parts)
  BY DEF OneText
<1> HIDE DEF parts, n
<1>7. parts \in Seq(Texts)
  BY <1>1, <1>4, <1>5, AsSequence
<1>8. parts \in Seq(Seq(STRING))
  BY <1>7 DEF Texts
<1> QED
  BY <1>6, <1>8, FlattenTyped DEF Texts

\* A template gives texts.
LEMMA TemplatedTyped ==
  ASSUME NEW items \in Seq(Texts)
  PROVE  Templated(items) \in Seq(Texts)
<1>1. OneText(items) \in Texts
  BY OneTextTyped
<1>2. <<OneText(items)>> \in Seq(Texts)
  BY <1>1, TextsJoin
<1> QED
  BY <1>2, TextsJoin DEF Templated

\* A replacement gives texts.
LEMMA RedactedTyped ==
  ASSUME NEW items \in Seq(Texts), NEW pattern \in STRING
  PROVE  Redacted(items, pattern) \in Seq(Texts)
<1> DEFINE n == Len(items)
           f == [i \in DOMAIN items |-> Append(items[i], pattern)]
<1>1. n \in Nat /\ DOMAIN items = 1 .. n /\ \A i \in 1 .. n : items[i] \in Texts
  OBVIOUS
<1>2. ASSUME NEW i \in 1 .. n PROVE f[i] \in Texts
  <2>1. items[i] \in Seq(STRING)
    BY <1>1 DEF Texts
  <2>2. Append(items[i], pattern) \in Seq(STRING)
    <3>1. \A X : \A a \in Seq(X), c \in X : Append(a, c) \in Seq(X)
      OBVIOUS
    <3> QED
      BY <2>1, <3>1, Zenon
  <2>3. f[i] = Append(items[i], pattern)
    BY <1>1
  <2> QED
    BY <2>2, <2>3 DEF Texts
<1>3. f = [i \in 1 .. n |-> f[i]]
  BY <1>1
<1>4. Redacted(items, pattern) = items \/ Redacted(items, pattern) = f
  BY DEF Redacted
<1> HIDE DEF f, n
<1>5. f \in Seq(Texts)
  BY <1>1, <1>2, <1>3, AsSequence
<1> QED
  BY <1>4, <1>5

\* Lists in turn are texts.
LEMMA WovenTyped ==
  ASSUME NEW lists \in Seq(Seq(Texts))
  PROVE  Woven(lists) \in Seq(Texts)
<1> DEFINE nth(l, i) == IF i <= Len(l) THEN <<l[i]>> ELSE <<>>
           col(i) == [k \in DOMAIN lists |-> nth(lists[k], i)]
           m == Len(FlattenSeq(lists))
           rows == [i \in 1 .. m |-> FlattenSeq(col(i))]
           n == Len(lists)
<1>1. n \in Nat /\ DOMAIN lists = 1 .. n /\ \A k \in 1 .. n : lists[k] \in Seq(Texts)
  OBVIOUS
<1>2. m \in Nat
  <2>1. FlattenSeq(lists) \in Seq(Texts)
    BY FlattenTyped
  <2> QED
    BY <2>1
<1>3. ASSUME NEW i \in 1 .. m PROVE FlattenSeq(col(i)) \in Seq(Texts)
  <2>1. ASSUME NEW k \in 1 .. n PROVE nth(lists[k], i) \in Seq(Texts)
    <3> DEFINE l == lists[k]
    <3>1. l \in Seq(Texts) /\ i \in Nat \ {0}
      BY <1>1, <1>2
    <3>2. i <= Len(l) => l[i] \in Texts
      BY <3>1
    <3> HIDE DEF l
    <3>3. CASE i <= Len(l)
      <4>1. <<l[i]>> \in Seq(Texts)
        BY <3>2, <3>3, TextsJoin
      <4> QED
        BY <3>3, <4>1 DEF l
    <3>4. CASE ~(i <= Len(l))
      BY <3>4, TextsJoin DEF l
    <3> QED
      BY <3>3, <3>4
  <2> DEFINE c == col(i)
  <2>2. c = [k \in 1 .. n |-> c[k]] /\ \A k \in 1 .. n : c[k] = nth(lists[k], i)
    <3> HIDE DEF nth
    <3> QED
      BY <1>1
  <2> HIDE DEF col, nth
  <2>3. \A k \in 1 .. n : c[k] \in Seq(Texts)
    BY <2>1, <2>2
  <2> HIDE DEF c, n
  <2>4. c \in Seq(Seq(Texts))
    BY <1>1, <2>2, <2>3, AsSequence
  <2>5. FlattenSeq(c) \in Seq(Texts)
    BY <2>4, FlattenTyped
  <2> QED
    BY <2>5 DEF c
<1>4. Woven(lists) = FlattenSeq(rows)
  BY DEF Woven
<1> HIDE DEF col, m
<1>5. rows = [i \in 1 .. m |-> rows[i]] /\ \A i \in 1 .. m : rows[i] \in Seq(Texts)
  BY <1>3
<1> HIDE DEF rows
<1>6. rows \in Seq(Seq(Texts))
  BY <1>2, <1>5, AsSequence
<1>7. FlattenSeq(rows) \in Seq(Texts)
  BY <1>6, FlattenTyped
<1> QED
  BY <1>4, <1>7

\* Whatever joins lists of texts gives texts.
LEMMA LinedTyped ==
  ASSUME NEW type, NEW lists \in Seq(Seq(Texts))
  PROVE  Lined(type, lists) \in Seq(Texts)
<1>1. FlattenSeq(lists) \in Seq(Texts)
  BY FlattenTyped
<1>2. Woven(lists) \in Seq(Texts)
  BY WovenTyped
<1>3. FirstFilled(lists) \in Seq(Texts)
  <2>1. Len(lists) \in Nat /\ DOMAIN lists = 1 .. Len(lists) /\ \A i \in 1 .. Len(lists) : lists[i] \in Seq(Texts)
    OBVIOUS
  <2> QED
    BY <2>1, FirstFilledTyped
<1> QED
  BY <1>1, <1>2, <1>3 DEF Lined

\* What a rule says, of all contents and with any value kept.
Saying(says, rule) == [c \in Contents |-> [v \in Texts |-> Said(says, rule, c, v)]]
Ran(items, v) == [i \in DOMAIN items |-> Run(items[i], v)]
Lists(says, rule, c, v) == [i \in DOMAIN rule.parts |-> says[rule.parts[i]][c][v].items]

\* What is said of one content with one value kept.
LEMMA SayingScript ==
  ASSUME NEW says, NEW rule, rule.is = "script", NEW c \in Contents, NEW v \in Texts
  PROVE  Saying(says, rule)[c][v] = [items |-> <<Run(<<c>>, v)>>, kept |-> v]
BY DEF Saying, Said

\* What each kind of rule says, given what its inner rules say: @get,
LEMMA SayingGet ==
  ASSUME NEW says, NEW rule, rule.is = "get", NEW c \in Contents, NEW v \in Texts
  PROVE  Saying(says, rule)[c][v] = [items |-> IF v = Empty THEN <<>> ELSE <<v>>, kept |-> v]
BY DEF Saying, Said

\* a selector,
LEMMA SayingSelect ==
  ASSUME NEW says, NEW rule, rule.is = "select", NEW c \in Contents, NEW v \in Texts
  PROVE  Saying(says, rule)[c][v] = [items |-> Found(rule.ways, c), kept |-> v]
BY DEF Saying, Said

\* a selector and a script,
LEMMA SayingChain ==
  ASSUME NEW says, NEW rule, rule.is = "chain", NEW c \in Contents, NEW v \in Texts
  PROVE  Saying(says, rule)[c][v] = [items |-> Ran(Found(rule.ways, c), v), kept |-> v]
BY DEF Saying, Said, Ran

\* @put,
LEMMA SayingPut ==
  ASSUME NEW says, NEW rule, rule.is = "put", NEW c \in Contents, NEW v \in Texts
  PROVE  Saying(says, rule)[c][v] = says[rule.rest][c][Pick1(says[rule.of][c][v].items)]
BY DEF Saying, Said, Pick1

\* a template,
LEMMA SayingTemplate ==
  ASSUME NEW says, NEW rule, rule.is = "template", NEW c \in Contents, NEW v \in Texts
  PROVE  Saying(says, rule)[c][v] = [items |-> Templated(says[rule.of][c][v].items), kept |-> says[rule.of][c][v].kept]
BY DEF Saying, Said, Templated

\* a replacement,
LEMMA SayingRedact ==
  ASSUME NEW says, NEW rule, rule.is = "redact", NEW c \in Contents, NEW v \in Texts
  PROVE  Saying(says, rule)[c][v] = [items |-> Redacted(says[rule.of][c][v].items, rule.pattern),
                                    kept |-> says[rule.of][c][v].kept]
BY DEF Saying, Said

\* and rules joined by an operator.
LEMMA SayingJoin ==
  ASSUME NEW says, NEW rule, rule.is = "join", NEW c \in Contents, NEW v \in Texts
  PROVE  Saying(says, rule)[c][v] = [items |-> Lined(rule.type, Lists(says, rule, c, v)), kept |-> v]
<1> DEFINE all == Lists(says, rule, c, v)
           some == {i \in DOMAIN all : all[i] # <<>>}
           filled == IF some = {} THEN <<>> ELSE all[CHOOSE i \in some : \A j \in some : i <= j]
<1>1. Saying(says, rule)[c][v]
      = [items |-> IF rule.type = "&&" THEN FlattenSeq(all)
                   ELSE IF rule.type = "%%" THEN Woven(all) ELSE filled, kept |-> v]
  BY DEF Saying, Said, Lists
<1>2. filled = FirstFilled(all)
  BY DEF FirstFilled
<1> HIDE DEF all, some, filled
<1>3. (IF rule.type = "&&" THEN FlattenSeq(all)
       ELSE IF rule.type = "%%" THEN Woven(all) ELSE filled) = Lined(rule.type, all)
  BY <1>2 DEF Lined
<1> QED
  BY <1>1, <1>3 DEF all

\* It is a function of content and value.
LEMMA SayingFunction ==
  ASSUME NEW says, NEW rule
  PROVE  Saying(says, rule) = [c \in Contents |-> [v \in Texts |-> Saying(says, rule)[c][v]]]
BY DEF Saying

\* Texts and a kept value are a meaning.
LEMMA MeaningIs ==
  ASSUME NEW items \in Seq(Texts), NEW v \in Texts
  PROVE  [items |-> items, kept |-> v] \in Meanings
BY DEF Meanings

\* The first of texts is a text.
LEMMA Pick1Typed == ASSUME NEW items \in Seq(Texts) PROVE Pick1(items) \in Texts
<1>1. CASE items = <<>>
  BY <1>1, TextsJoin DEF Pick1, Empty
<1>2. CASE items # <<>>
  <2>1. items[1] \in Texts
    BY <1>2, EmptySeq
  <2> QED
    BY <1>2, <2>1 DEF Pick1
<1> QED
  BY <1>1, <1>2

\* What a rule says is a meaning if what its inner rules say is one.
LEMMA SayingTyped ==
  ASSUME NEW rule \in Phrases, NEW says, \A inner \in Inners(rule) : says[inner] \in Senses
  PROVE  Saying(says, rule) \in Senses
<1>1. ASSUME NEW c \in Contents, NEW v \in Texts PROVE Saying(says, rule)[c][v] \in Meanings
  <2> DEFINE said == Saying(says, rule)[c][v]
             inner == says[rule.of][c][v]
             all == Lists(says, rule, c, v)
             hits == Found(rule.ways, c)
  <2>0. c \in STRING
    BY SelectorsGiveTexts, Zenon
  <2>1. ASSUME NEW r \in Inners(rule), NEW w \in Texts
        PROVE  says[r][c][w] \in Meanings /\ says[r][c][w].items \in Seq(Texts) /\ says[r][c][w].kept \in Texts
    <3>1. says[r] \in [Contents -> [Texts -> Meanings]]
      BY DEF Senses
    <3>2. says[r][c] \in [Texts -> Meanings]
      BY <3>1
    <3>3. says[r][c][w] \in Meanings
      BY <3>2
    <3> QED
      BY <3>3 DEF Meanings
  <2>2. CASE rule.is = "script"
    <3>1. said = [items |-> <<Run(<<c>>, v)>>, kept |-> v]
      BY <2>2, SayingScript
    <3>2. <<c>> \in Texts
      BY <2>0, TextsJoin
    <3>3. Run(<<c>>, v) \in Texts
      BY <3>2, RunTyped
    <3>4. <<Run(<<c>>, v)>> \in Seq(Texts)
      BY <3>3, TextsJoin
    <3> QED
      BY <3>1, <3>4, MeaningIs
  <2>3. CASE rule.is = "get"
    <3>1. said = [items |-> IF v = Empty THEN <<>> ELSE <<v>>, kept |-> v]
      BY <2>3, SayingGet
    <3>2. (IF v = Empty THEN <<>> ELSE <<v>>) \in Seq(Texts)
      <4>1. <<v>> \in Seq(Texts) /\ <<>> \in Seq(Texts)
        BY TextsJoin
      <4> QED
        BY <4>1
    <3> QED
      BY <3>1, <3>2, MeaningIs
  <2>4. CASE rule.is = "select"
    <3>1. said = [items |-> hits, kept |-> v]
      BY <2>4, SayingSelect
    <3>2. rule.ways \in Seq(DOMAIN Finds)
      BY <2>4, PhraseShape
    <3>3. hits \in Seq(Texts)
      BY <3>2, FoundTyped
    <3> QED
      BY <3>1, <3>3, MeaningIs
  <2>5. CASE rule.is = "chain"
    <3>1. said = [items |-> Ran(hits, v), kept |-> v]
      BY <2>5, SayingChain
    <3>2. rule.ways \in Seq(DOMAIN Finds)
      BY <2>5, PhraseShape
    <3>3. hits \in Seq(Texts)
      BY <3>2, FoundTyped
    <3> HIDE DEF hits
    <3> DEFINE n == Len(hits)
               run == Ran(hits, v)
    <3>4. n \in Nat /\ DOMAIN hits = 1 .. n /\ \A i \in 1 .. n : hits[i] \in Texts
      BY <3>3
    <3>5. \A i \in 1 .. n : Run(hits[i], v) \in Texts
      BY <3>4, RunTyped
    <3>6. run = [i \in 1 .. n |-> run[i]] /\ \A i \in 1 .. n : run[i] \in Texts
      BY <3>4, <3>5 DEF Ran
    <3> HIDE DEF run, n
    <3>7. run \in Seq(Texts)
      BY <3>4, <3>6, AsSequence
    <3> QED
      BY <3>1, <3>7, MeaningIs DEF run
  <2>6. CASE rule.is = "put"
    <3>1. said = says[rule.rest][c][Pick1(inner.items)]
      BY <2>6, SayingPut
    <3>2. rule.of \in Inners(rule) /\ rule.rest \in Inners(rule)
      BY <2>6, PhraseShape
    <3>3. Pick1(inner.items) \in Texts
      BY <2>1, <3>2, Pick1Typed
    <3> QED
      BY <2>1, <3>1, <3>2, <3>3
  <2>7. CASE rule.is = "template"
    <3>1. said = [items |-> Templated(inner.items), kept |-> inner.kept]
      BY <2>7, SayingTemplate
    <3>2. rule.of \in Inners(rule)
      BY <2>7, PhraseShape
    <3>3. inner.items \in Seq(Texts) /\ inner.kept \in Texts
      BY <2>1, <3>2
    <3>4. Templated(inner.items) \in Seq(Texts)
      BY <3>3, TemplatedTyped
    <3> QED
      BY <3>1, <3>3, <3>4, MeaningIs
  <2>8. CASE rule.is = "redact"
    <3>1. said = [items |-> Redacted(inner.items, rule.pattern), kept |-> inner.kept]
      BY <2>8, SayingRedact
    <3>2. rule.of \in Inners(rule) /\ rule.pattern \in STRING
      BY <2>8, PhraseShape
    <3>3. inner.items \in Seq(Texts) /\ inner.kept \in Texts
      BY <2>1, <3>2
    <3>4. Redacted(inner.items, rule.pattern) \in Seq(Texts)
      BY <3>2, <3>3, RedactedTyped
    <3> QED
      BY <3>1, <3>3, <3>4, MeaningIs
  <2>9. CASE rule.is = "join"
    <3>1. said = [items |-> Lined(rule.type, all), kept |-> v]
      BY <2>9, SayingJoin
    <3> DEFINE n == Len(rule.parts)
    <3>2. n \in Nat /\ DOMAIN rule.parts = 1 .. n /\ \A i \in 1 .. n : rule.parts[i] \in Inners(rule)
      BY <2>9, PartsShape
    <3>3. \A i \in 1 .. n : says[rule.parts[i]][c][v].items \in Seq(Texts)
      BY <2>1, <3>2
    <3>4. all = [i \in 1 .. n |-> all[i]] /\ \A i \in 1 .. n : all[i] \in Seq(Texts)
      BY <3>2, <3>3 DEF Lists
    <3> HIDE DEF all, n
    <3>5. all \in Seq(Seq(Texts))
      BY <3>2, <3>4, AsSequence
    <3>6. Lined(rule.type, all) \in Seq(Texts)
      BY <3>5, LinedTyped
    <3> QED
      BY <3>1, <3>6, MeaningIs
  <2> QED
    BY <2>2, <2>3, <2>4, <2>5, <2>6, <2>7, <2>8, <2>9, PhraseShape
<1> DEFINE f == Saying(says, rule)
<1>2. f = [c \in Contents |-> [v \in Texts |-> f[c][v]]]
  BY SayingFunction
<1> HIDE DEF f
<1>3. \A c \in Contents : [v \in Texts |-> f[c][v]] \in [Texts -> Meanings]
  BY <1>1 DEF f
<1>4. f \in [Contents -> [Texts -> Meanings]]
  BY <1>2, <1>3
<1> QED
  BY <1>4 DEF f, Senses

\* It depends on what the inner rules say and on nothing else.
LEMMA SayingLooks ==
  ASSUME NEW rule \in Phrases, NEW f, NEW g, \A inner \in Inners(rule) : f[inner] = g[inner]
  PROVE  Saying(f, rule) = Saying(g, rule)
<1>1. ASSUME NEW c \in Contents, NEW v \in Texts PROVE Saying(f, rule)[c][v] = Saying(g, rule)[c][v]
  <2> DEFINE a == Saying(f, rule)[c][v]
             b == Saying(g, rule)[c][v]
             all == Lists(f, rule, c, v)
             lists == Lists(g, rule, c, v)
  <2>1. CASE rule.is = "script"
    <3>1. a = [items |-> <<Run(<<c>>, v)>>, kept |-> v]
      BY <2>1, SayingScript
    <3>2. b = [items |-> <<Run(<<c>>, v)>>, kept |-> v]
      BY <2>1, SayingScript
    <3> QED
      BY <3>1, <3>2
  <2>2. CASE rule.is = "get"
    <3>1. a = [items |-> IF v = Empty THEN <<>> ELSE <<v>>, kept |-> v]
      BY <2>2, SayingGet
    <3>2. b = [items |-> IF v = Empty THEN <<>> ELSE <<v>>, kept |-> v]
      BY <2>2, SayingGet
    <3> QED
      BY <3>1, <3>2
  <2>3. CASE rule.is = "select"
    <3>1. a = [items |-> Found(rule.ways, c), kept |-> v]
      BY <2>3, SayingSelect
    <3>2. b = [items |-> Found(rule.ways, c), kept |-> v]
      BY <2>3, SayingSelect
    <3> QED
      BY <3>1, <3>2
  <2>4. CASE rule.is = "chain"
    <3> DEFINE hits == Found(rule.ways, c)
               run == [items |-> Ran(hits, v), kept |-> v]
    <3>1. a = run
      BY <2>4, SayingChain
    <3>2. b = run
      BY <2>4, SayingChain
    <3> QED
      BY <3>1, <3>2
  <2>5. CASE rule.is = "put"
    <3>1. rule.of \in Inners(rule) /\ rule.rest \in Inners(rule)
      BY <2>5, PhraseShape
    <3>2. a = f[rule.rest][c][Pick1(f[rule.of][c][v].items)]
      BY <2>5, SayingPut
    <3>3. b = g[rule.rest][c][Pick1(g[rule.of][c][v].items)]
      BY <2>5, SayingPut
    <3> QED
      BY <3>1, <3>2, <3>3
  <2>6. CASE rule.is = "template"
    <3>1. rule.of \in Inners(rule)
      BY <2>6, PhraseShape
    <3>2. a = [items |-> Templated(f[rule.of][c][v].items), kept |-> f[rule.of][c][v].kept]
      BY <2>6, SayingTemplate
    <3>3. b = [items |-> Templated(g[rule.of][c][v].items), kept |-> g[rule.of][c][v].kept]
      BY <2>6, SayingTemplate
    <3> QED
      BY <3>1, <3>2, <3>3
  <2>7. CASE rule.is = "redact"
    <3>1. rule.of \in Inners(rule)
      BY <2>7, PhraseShape
    <3>2. a = [items |-> Redacted(f[rule.of][c][v].items, rule.pattern), kept |-> f[rule.of][c][v].kept]
      BY <2>7, SayingRedact
    <3>3. b = [items |-> Redacted(g[rule.of][c][v].items, rule.pattern), kept |-> g[rule.of][c][v].kept]
      BY <2>7, SayingRedact
    <3> QED
      BY <3>1, <3>2, <3>3
  <2>8. CASE rule.is = "join"
    <3>1. DOMAIN rule.parts = 1 .. Len(rule.parts) /\ \A i \in 1 .. Len(rule.parts) : rule.parts[i] \in Inners(rule)
      BY <2>8, PartsShape
    <3>2. a = [items |-> Lined(rule.type, all), kept |-> v]
      BY <2>8, SayingJoin
    <3>3. b = [items |-> Lined(rule.type, lists), kept |-> v]
      BY <2>8, SayingJoin
    <3>4. all = lists
      BY <3>1 DEF Lists
    <3> HIDE DEF all, lists
    <3> QED
      BY <3>2, <3>3, <3>4
  <2> QED
    BY <2>1, <2>2, <2>3, <2>4, <2>5, <2>6, <2>7, <2>8, PhraseShape
<1>2. Saying(f, rule) = [c \in Contents |-> [v \in Texts |-> Saying(f, rule)[c][v]]]
  BY SayingFunction
<1>3. Saying(g, rule) = [c \in Contents |-> [v \in Texts |-> Saying(g, rule)[c][v]]]
  BY SayingFunction
<1>4. [c \in Contents |-> [v \in Texts |-> Saying(f, rule)[c][v]]]
      = [c \in Contents |-> [v \in Texts |-> Saying(g, rule)[c][v]]]
  <2> DEFINE p == Saying(f, rule)
             q == Saying(g, rule)
  <2>1. \A c \in Contents : \A v \in Texts : p[c][v] = q[c][v]
    BY <1>1
  <2> HIDE DEF p, q
  <2>2. \A c \in Contents : [v \in Texts |-> p[c][v]] = [v \in Texts |-> q[c][v]]
    BY <2>1
  <2>3. [c \in Contents |-> [v \in Texts |-> p[c][v]]] = [c \in Contents |-> [v \in Texts |-> q[c][v]]]
    BY <2>2
  <2> QED
    BY <2>3 DEF p, q
<1> QED
  BY <1>2, <1>3, <1>4

\* What rules say is defined, and each says what its equation tells.
LEMMA SaysIs ==
  /\ \A rule \in Phrases : Says[rule] = Saying(Says, rule)
  /\ \A rule \in Phrases : Says[rule] \in Senses
<1> DEFINE G == [pf \in Phrases \X [Phrases -> Senses] |-> Saying(pf[2], pf[1])]
           nothing == [c \in Contents |-> [v \in Texts |-> [items |-> <<>>, kept |-> <<>>]]]
<1>1. \A p \in Phrases : \A f \in [Phrases -> Senses] : G[p, f] = Saying(f, p)
  OBVIOUS
<1>2. nothing \in Senses
  <2>1. [items |-> <<>>, kept |-> <<>>] \in Meanings
    BY TextsJoin, MeaningIs
  <2> QED
    BY <2>1 DEF Senses
<1>3. Length \in [Phrases -> Nat]
  BY PhrasesAreWhole
<1> HIDE DEF G, nothing
<1>4. \A p \in Phrases : \A inner \in Inners(p) : inner \in Phrases /\ Length[inner] < Length[p]
  BY PhraseShape
<1>5. StaysIn(Phrases, Senses, G)
  <2> SUFFICES ASSUME NEW p \in Phrases, NEW f \in [Phrases -> Senses] PROVE G[p, f] \in Senses
    BY DEF StaysIn
  <2>1. \A inner \in Inners(p) : f[inner] \in Senses
    BY <1>4
  <2>2. Saying(f, p) \in Senses
    BY <2>1, SayingTyped
  <2> QED
    BY <1>1, <2>2
<1>6. LooksBelow(Phrases, Length, Senses, G)
  <2> SUFFICES ASSUME NEW p \in Phrases, NEW f \in [Phrases -> Senses], NEW g \in [Phrases -> Senses],
                      \A q \in Phrases : Length[q] < Length[p] => f[q] = g[q]
               PROVE  G[p, f] = G[p, g]
    BY DEF LooksBelow
  <2>1. \A inner \in Inners(p) : f[inner] = g[inner]
    BY <1>4
  <2>2. Saying(f, p) = Saying(g, p)
    BY <2>1, SayingLooks
  <2> QED
    BY <1>1, <2>2
<1>7. PICK f \in [Phrases -> Senses] : \A p \in Phrases : f[p] = G[p, f]
  <2>1. Solvable(Phrases, Senses, G)
    BY <1>2, <1>3, <1>5, <1>6, Recursion
  <2> QED
    BY <2>1 DEF Solvable
<1>8. \A p \in Phrases : f[p] = [c \in Contents |-> [v \in Texts |-> Said(f, p, c, v)]]
  BY <1>1, <1>7 DEF Saying
<1>9. f = [p \in Phrases |-> [c \in Contents |-> [v \in Texts |-> Said(f, p, c, v)]]]
  BY <1>8
<1> DEFINE says == CHOOSE h : h = [p \in Phrases |-> [c \in Contents |-> [v \in Texts |-> Said(h, p, c, v)]]]
<1>10. says = [p \in Phrases |-> [c \in Contents |-> [v \in Texts |-> Said(says, p, c, v)]]]
  BY <1>9
<1>11. Says = says
  BY DEF Says
<1> HIDE DEF says
<1>12. \A p \in Phrases : Says[p] = [c \in Contents |-> [v \in Texts |-> Said(Says, p, c, v)]]
  BY <1>10, <1>11
<1>13. \A p \in Phrases : Says[p] = Saying(Says, p)
  BY <1>12 DEF Saying
<1> DEFINE D == {n \in Nat : \E p \in Phrases : Length[p] = n /\ Says[p] \notin Senses}
<1>14. D = {}
  <2> SUFFICES ASSUME D # {} PROVE FALSE
    OBVIOUS
  <2>1. D \subseteq Nat
    OBVIOUS
  <2>2. PICK n \in D : \A m \in D : n <= m
    <3> HIDE DEF D
    <3> QED
      BY <2>1, LeastNumber
  <2>3. PICK p \in Phrases : Length[p] = n /\ Says[p] \notin Senses
    OBVIOUS
  <2>4. ASSUME NEW q \in Inners(p) PROVE Says[q] \in Senses
    <3>1. q \in Phrases /\ Length[q] < Length[p] /\ Length[q] \in Nat /\ Length[p] \in Nat
      BY <1>3, <1>4
    <3>2. Length[q] \notin D
      <4> HIDE DEF D
      <4> QED
        BY <2>2, <2>3, <3>1
    <3> QED
      BY <3>1, <3>2
  <2>5. Saying(Says, p) \in Senses
    BY <2>4, SayingTyped
  <2> QED
    BY <1>13, <2>3, <2>5
<1>15. ASSUME NEW p \in Phrases PROVE Says[p] \in Senses
  <2>1. Length[p] \in Nat
    BY <1>3
  <2>2. Length[p] \notin D
    BY <1>14
  <2> QED
    BY <2>1, <2>2
<1> QED
  BY <1>13, <1>15

\* The types of what is said.
LEMMA SaysTyped ==
  ASSUME NEW rule \in Phrases, NEW c \in Contents, NEW v \in Texts
  PROVE  /\ Says[rule][c][v] \in Meanings
         /\ Says[rule][c][v].items \in Seq(Texts) /\ Says[rule][c][v].kept \in Texts
<1>1. Says[rule] \in [Contents -> [Texts -> Meanings]]
  BY SaysIs DEF Senses
<1>2. Says[rule][c] \in [Texts -> Meanings]
  BY <1>1
<1>3. Says[rule][c][v] \in Meanings
  BY <1>2
<1> QED
  BY <1>3 DEF Meanings

\* Which rules are chained is defined.
LEMMA ChainedIs ==
  \A rule \in Phrases :
    Chained[rule] = (\/ rule.is = "chain"
                     \/ rule.is = "join" /\ \E part \in Inners(rule) : part.is = "script"
                     \/ \E inner \in Inners(rule) : Chained[inner])
<1> DEFINE own(p) == p.is = "chain" \/ (p.is = "join" /\ \E part \in Inners(p) : part.is = "script")
           body(f, p) == own(p) \/ \E inner \in Inners(p) : f[inner]
           G == [pf \in Phrases \X [Phrases -> BOOLEAN] |-> body(pf[2], pf[1])]
<1>1. \A p \in Phrases : \A f \in [Phrases -> BOOLEAN] : G[p, f] = body(f, p)
  <2> HIDE DEF body
  <2> QED
    OBVIOUS
<1> HIDE DEF G
<1>2. Length \in [Phrases -> Nat]
  BY PhrasesAreWhole
<1>3. \A p \in Phrases : \A inner \in Inners(p) : inner \in Phrases /\ Length[inner] < Length[p]
  BY PhraseShape
<1>4. StaysIn(Phrases, BOOLEAN, G)
  <2> SUFFICES ASSUME NEW p \in Phrases, NEW f \in [Phrases -> BOOLEAN] PROVE G[p, f] \in BOOLEAN
    BY DEF StaysIn
  <2>1. body(f, p) \in BOOLEAN
    BY Zenon
  <2> HIDE DEF body
  <2> QED
    BY <1>1, <2>1
<1>5. LooksBelow(Phrases, Length, BOOLEAN, G)
  <2> SUFFICES ASSUME NEW p \in Phrases, NEW f \in [Phrases -> BOOLEAN], NEW g \in [Phrases -> BOOLEAN],
                      \A q \in Phrases : Length[q] < Length[p] => f[q] = g[q]
               PROVE  G[p, f] = G[p, g]
    BY DEF LooksBelow
  <2>1. \A inner \in Inners(p) : f[inner] = g[inner]
    BY <1>3
  <2>2. body(f, p) = body(g, p)
    BY <2>1, Zenon
  <2> HIDE DEF body
  <2> QED
    BY <1>1, <2>2
<1>6. FALSE \in BOOLEAN
  OBVIOUS
<1>7. PICK f \in [Phrases -> BOOLEAN] : \A p \in Phrases : f[p] = G[p, f]
  <2>1. Solvable(Phrases, BOOLEAN, G)
    BY <1>2, <1>4, <1>5, <1>6, Recursion
  <2> QED
    BY <2>1 DEF Solvable
<1>8. \A p \in Phrases : f[p] = body(f, p)
  <2> HIDE DEF body
  <2> QED
    BY <1>1, <1>7
<1> DEFINE chained == CHOOSE h : h = [p \in Phrases |-> body(h, p)]
<1>9. chained = [p \in Phrases |-> body(chained, p)]
  <2>1. f = [p \in Phrases |-> f[p]]
    OBVIOUS
  <2>2. f = [p \in Phrases |-> body(f, p)]
    <3> HIDE DEF body
    <3> QED
      BY <2>1, <1>8
  <2>3. \E h : h = [p \in Phrases |-> body(h, p)]
    <3> HIDE DEF body
    <3> QED
      BY <2>2
  <2> HIDE DEF body
  <2> QED
    BY <2>3
<1>10. Chained = CHOOSE h : h = [p \in Phrases |-> \/ p.is = "chain"
                                                   \/ p.is = "join" /\ \E part \in Inners(p) : part.is = "script"
                                                   \/ \E inner \in Inners(p) : h[inner]]
  BY DEF Chained
<1>11. Chained = chained
  BY <1>10
<1> HIDE DEF chained
<1>12. \A p \in Phrases : Chained[p] = body(Chained, p)
  <2> HIDE DEF body
  <2> QED
    BY <1>9, <1>11
<1> QED
  BY <1>12

\* Rules that leave what is kept alone give it back.
LEMMA SaysStill ==
  ASSUME NEW rule \in Phrases, rule.is \in {"select", "chain", "join", "script", "get"},
         NEW c \in Contents, NEW v \in Texts
  PROVE  Says[rule][c][v].kept = v
<1>1. Says[rule] = Saying(Says, rule)
  BY SaysIs
<1>2. CASE rule.is = "select"
  <2>1. Saying(Says, rule)[c][v] = [items |-> Found(rule.ways, c), kept |-> v]
    BY <1>2, SayingSelect
  <2> QED
    BY <1>1, <2>1
<1>3. CASE rule.is = "chain"
  <2>1. Saying(Says, rule)[c][v] = [items |-> Ran(Found(rule.ways, c), v), kept |-> v]
    BY <1>3, SayingChain
  <2> QED
    BY <1>1, <2>1
<1>4. CASE rule.is = "join"
  <2>1. Saying(Says, rule)[c][v] = [items |-> Lined(rule.type, Lists(Says, rule, c, v)), kept |-> v]
    BY <1>4, SayingJoin
  <2> QED
    BY <1>1, <2>1
<1>5. CASE rule.is = "script"
  <2>1. Saying(Says, rule)[c][v] = [items |-> <<Run(<<c>>, v)>>, kept |-> v]
    BY <1>5, SayingScript
  <2> QED
    BY <1>1, <2>1
<1>6. CASE rule.is = "get"
  <2>1. Saying(Says, rule)[c][v] = [items |-> IF v = Empty THEN <<>> ELSE <<v>>, kept |-> v]
    BY <1>6, SayingGet
  <2> QED
    BY <1>1, <2>1
<1> QED
  BY <1>2, <1>3, <1>4, <1>5, <1>6

\* What is said of a content with a value kept that does not matter.
Steady(rule) ==
    \A c \in Contents : \A v, w \in Texts : Says[rule][c][v].items = Says[rule][c][w].items

\* A rule that is not chained says the same whatever a runtime keeps, if the cache is asked
\* for it: this is what makes its results those of every thread.
LEMMA CachedIsSteady ==
  \A rule \in Phrases : rule.is \in {"select", "join"} /\ ~Chained[rule] => Steady(rule)
<1> DEFINE bad(p) == p.is \in {"select", "join"} /\ ~Chained[p] /\ ~Steady(p)
           D == {n \in Nat : \E p \in Phrases : Length[p] = n /\ bad(p)}
<1>1. Length \in [Phrases -> Nat]
  BY PhrasesAreWhole
<1>2. SUFFICES ASSUME NEW r \in Phrases, bad(r) PROVE FALSE
  OBVIOUS
<1>3. D \subseteq Nat /\ Length[r] \in D
  BY <1>1, <1>2
<1>4. PICK n \in D : \A m \in D : n <= m
  <2> HIDE DEF D
  <2> QED
    BY <1>3, LeastNumber
<1>5. PICK p \in Phrases : Length[p] = n /\ bad(p)
  OBVIOUS
<1>6. Says[p] = Saying(Says, p)
  BY SaysIs
<1>7. CASE p.is = "select"
  <2>1. ASSUME NEW c \in Contents, NEW v \in Texts PROVE Says[p][c][v].items = Found(p.ways, c)
    <3>1. Saying(Says, p)[c][v] = [items |-> Found(p.ways, c), kept |-> v]
      BY <1>7, SayingSelect
    <3> QED
      BY <1>6, <3>1
  <2>2. Steady(p)
    BY <2>1 DEF Steady
  <2> QED
    BY <1>5, <2>2
<1>8. CASE p.is = "join"
  <2>1. /\ DOMAIN p.parts = 1 .. Len(p.parts)
        /\ \A i \in 1 .. Len(p.parts) : /\ p.parts[i] \in Inners(p) /\ p.parts[i] \in Phrases
                                        /\ p.parts[i].is \in {"select", "chain", "join", "script"}
    BY <1>8, PartsShape
  <2>2. /\ ~(\E q \in Inners(p) : q.is = "script")
        /\ ~(\E q \in Inners(p) : Chained[q])
    BY <1>5, <1>8, ChainedIs
  <2>3. ASSUME NEW i \in 1 .. Len(p.parts) PROVE Steady(p.parts[i])
    <3> DEFINE q == p.parts[i]
    <3>1. q \in Inners(p) /\ q \in Phrases /\ ~Chained[q] /\ q.is # "script"
      BY <2>1, <2>2
    <3>2. q.is # "chain"
      BY <3>1, ChainedIs
    <3>3. q.is \in {"select", "join"}
      BY <2>1, <3>1, <3>2
    <3>4. Length[q] < Length[p] /\ Length[q] \in Nat /\ Length[p] \in Nat
      BY <1>1, <3>1, PhraseShape
    <3>5. Length[q] \notin D
      <4> HIDE DEF D
      <4> QED
        BY <1>4, <1>5, <3>4
    <3> HIDE DEF q
    <3>6. ~bad(q)
      BY <3>1, <3>4, <3>5
    <3> QED
      BY <3>1, <3>3, <3>6 DEF q
  <2>4. ASSUME NEW c \in Contents, NEW v \in Texts, NEW w \in Texts
        PROVE  Says[p][c][v].items = Says[p][c][w].items
    <3>1. Saying(Says, p)[c][v] = [items |-> Lined(p.type, Lists(Says, p, c, v)), kept |-> v]
      BY <1>8, SayingJoin
    <3>2. Saying(Says, p)[c][w] = [items |-> Lined(p.type, Lists(Says, p, c, w)), kept |-> w]
      BY <1>8, SayingJoin
    <3>3. Lists(Says, p, c, v) = Lists(Says, p, c, w)
      <4>1. \A i \in 1 .. Len(p.parts) : Says[p.parts[i]][c][v].items = Says[p.parts[i]][c][w].items
        BY <2>3 DEF Steady
      <4> QED
        BY <2>1, <4>1 DEF Lists
    <3> QED
      BY <1>6, <3>1, <3>2, <3>3
  <2>5. Steady(p)
    BY <2>4 DEF Steady
  <2> QED
    BY <1>5, <2>5
<1> QED
  BY <1>5, <1>7, <1>8

\* What comes before ## of a rule.
LEMMA BodyIs ==
  ASSUME NEW rule \in Phrases
  PROVE  /\ Body(rule) \in Phrases
         /\ Body(rule).is \in {"script", "get", "put", "template", "select", "chain", "join"}
         /\ (rule.is # "redact" => Body(rule) = rule /\ Pattern(rule) = NoPattern)
         /\ (rule.is = "redact" => /\ Body(rule) = rule.of /\ Pattern(rule) = rule.pattern
                                   /\ rule.pattern \in STRING
                                   /\ Body(rule).is \in {"select", "chain", "join", "template"})
         /\ (Chained[Body(rule)] => Chained[rule])
         /\ (Chained[rule] => Chained[Body(rule)])
<1>1. CASE rule.is = "redact"
  <2>1. rule.of \in Phrases /\ rule.of \in Inners(rule) /\ rule.pattern \in STRING
        /\ rule.of.is \in {"select", "chain", "join", "template"}
    BY <1>1, PhraseShape
  <2>2. Inners(rule) = {rule.of}
    BY <1>1 DEF Inners
  <2>3. (Chained[rule.of] => Chained[rule]) /\ (Chained[rule] => Chained[rule.of])
    BY <1>1, <2>2, ChainedIs
  <2> QED
    BY <1>1, <2>1, <2>3 DEF Body, Pattern
<1>2. CASE rule.is # "redact"
  <2>1. Body(rule) = rule /\ Pattern(rule) = NoPattern
    BY <1>2 DEF Body, Pattern
  <2>2. rule.is \in {"script", "get", "put", "template", "select", "chain", "join"}
    BY <1>2, PhraseShape
  <2> QED
    BY <1>2, <2>1, <2>2
<1> QED
  BY <1>1, <1>2

-----------------------------------------------------------------------------
(* The stack of a thread. *)

Joint(rule) == Body(rule).is = "join"
Patterned(rule) == Body(rule).is = "template"
\* What leaves alone what a runtime keeps.
Still(rule) == Plain(rule) \/ rule.is = "script"

\* What a call holds by the place it has come to.
CallShape(c) ==
    /\ c.at = "enter" => c.lists = <<>> /\ c.part = 1
    /\ c.at = "work" => /\ Plain(c.rule)
                        /\ Joint(c.rule) => c.part <= Len(Body(c.rule).parts) /\ Len(c.lists) = c.part - 1
    /\ c.at = "back" => \/ (c.rule.is = "put" \/ Patterned(c.rule)) /\ Len(c.lists) = 1
                        \/ Joint(c.rule) /\ c.part <= Len(Body(c.rule).parts) /\ Len(c.lists) = c.part
    /\ c.at \in {"store", "redact"} => Plain(c.rule)

\* What its parts have said so far.
PartSaid(c, value, k) ==
    /\ c.lists[k] = Says[Body(c.rule).parts[k]][c.content][value].items
    /\ Body(c.rule).type = "||" /\ (k < Len(c.lists) \/ c.at = "work") => c.lists[k] = <<>>
PartsSaid(c, value) == \A k \in 1 .. Len(c.lists) : PartSaid(c, value, k)
SoFar(c, value) ==
    ~Chained[c.rule] =>
        /\ Joint(c.rule) /\ c.at \in {"work", "back"} => PartsSaid(c, value)
        /\ c.at \in {"store", "redact"} => c.items = Says[Body(c.rule)][c.content][value].items

\* What the call at work will give, and what a call that waits will give if it is given "owed".
Ahead(c, value) ==
    IF c.at = "back" /\ c.rule.is = "put" THEN Says[c.rule.rest][c.content][Pick1(c.lists[1])].items
    ELSE IF c.at = "back" /\ Patterned(c.rule) THEN Redacted(Templated(c.lists[1]), Pattern(c.rule))
    ELSE Says[c.rule][c.content][value].items
Behind(c, value, owed) ==
    IF c.rule.is = "put" THEN Says[c.rule.rest][c.content][Pick1(owed)].items
    ELSE IF Patterned(c.rule) THEN Redacted(Templated(owed), Pattern(c.rule))
    ELSE Says[c.rule][c.content][value].items

\* A call that waits for the next.
Waits(c, next) ==
    /\ next.content = c.content
    /\ \/ c.at = "enter" /\ (c.rule.is = "put" \/ Patterned(c.rule))
       \/ c.at = "work" /\ Joint(c.rule) /\ next.rule = Body(c.rule).parts[c.part]
    /\ Chained[next.rule] => Chained[c.rule]

CallsShaped(s, v) == \A i \in 1 .. Len(s) : CallShape(s[i]) /\ SoFar(s[i], v)
CallsWait(s) == \A i \in 1 .. Len(s) - 1 : Waits(s[i], s[i + 1])
CallsOwe(s, v, owed) ==
    /\ \A i \in 1 .. Len(s) - 1 : ~Chained[s[i].rule] => owed[i] = Behind(s[i], v, owed[i + 1])
    /\ ~Chained[s[Len(s)].rule] => owed[Len(s)] = Ahead(s[Len(s)], v)
CallsStill(s) == \A i, j \in 1 .. Len(s) : i < j /\ Plain(s[i].rule) => Still(s[j].rule)
StackOK(s, v, owed) == CallsShaped(s, v) /\ CallsWait(s) /\ CallsOwe(s, v, owed) /\ CallsStill(s)
\* The first call owes the answer.
Answering(s, a, owed) ==
    ~Chained[a.rule] => ~Chained[s[1].rule] /\ owed[1] = Says[a.rule][a.content][a.kept].items
Proper(s, v, a) ==
    /\ s # <<>> =>
        /\ a.rule \in Phrases /\ a.content \in Contents
        /\ \E owed : StackOK(s, v, owed) /\ Answering(s, a, owed)
    /\ s = <<>> /\ a # NoAnswer =>
        /\ a.rule \in Phrases /\ a.content \in Contents
        /\ ~Chained[a.rule] => a.items = Says[a.rule][a.content][a.kept].items

\* What is cached are the results of selectors and joints; what they are, see CachesAreSound.
CachesArePlain == \A i \in DOMAIN ruleCache : ruleCache[i].key.rule.is \in {"select", "chain", "join"}
CacheInv ==
    /\ ruleCache \in Seq([key : [rule : Phrases, content : Contents], value : Seq(Texts)])
    /\ regexCache \in Seq([key : STRING, value : {TRUE}])
    /\ CachesAreSound /\ CachesArePlain
Answers == [rule : Phrases \union {Script}, content : STRING, kept : Texts, items : Seq(Texts)]
ThreadInv ==
    /\ kept \in [Appliers -> Texts] /\ jobs \in [Appliers -> Seq([rule : Phrases, content : Contents])]
    /\ calls \in [Appliers -> Seq(RuleCalls)] /\ answers \in [Appliers -> Answers]
    /\ \A t \in Appliers : Proper(calls[t], kept[t], answers[t])
RuleInv == CacheInv /\ ThreadInv

Ats == {"enter", "work", "back", "store", "redact"}

\* The parts of a call.
LEMMA CallTyped ==
  ASSUME NEW c \in RuleCalls
  PROVE  /\ c.rule \in Phrases /\ c.content \in Contents /\ c.at \in Ats /\ c.part \in Nat \ {0}
         /\ c.lists \in Seq(Seq(Texts)) /\ c.items \in Seq(Texts)
BY DEF RuleCalls, Ats

\* The ways a call goes on.
LEMMA MadeBack ==
  ASSUME NEW c \in RuleCalls, NEW items \in Seq(Texts)
  PROVE  LET d == [c EXCEPT !.at = "back", !.lists = Append(@, items)]
         IN  /\ d \in RuleCalls /\ d.rule = c.rule /\ d.content = c.content /\ d.at = "back" /\ d.part = c.part
             /\ d.lists = Append(c.lists, items) /\ d.items = c.items
<1> DEFINE l == Append(c.lists, items)
<1>1. l \in Seq(Seq(Texts))
  BY CallTyped
<1> HIDE DEF l
<1>2. LET d == [c EXCEPT !.at = "back", !.lists = l]
      IN  /\ d \in RuleCalls /\ d.rule = c.rule /\ d.content = c.content /\ d.at = "back" /\ d.part = c.part
          /\ d.lists = l /\ d.items = c.items
  BY <1>1 DEF RuleCalls
<1> QED
  BY <1>2 DEF l

\* A call goes on to its replacement,
LEMMA MadeRedact ==
  ASSUME NEW c \in RuleCalls, NEW items \in Seq(Texts)
  PROVE  LET d == [c EXCEPT !.at = "redact", !.items = items]
         IN  /\ d \in RuleCalls /\ d.rule = c.rule /\ d.content = c.content /\ d.at = "redact" /\ d.part = c.part
             /\ d.lists = c.lists /\ d.items = items
BY DEF RuleCalls

\* to the cache,
LEMMA MadeStore ==
  ASSUME NEW c \in RuleCalls, NEW items \in Seq(Texts)
  PROVE  LET d == [c EXCEPT !.at = "store", !.items = items]
         IN  /\ d \in RuleCalls /\ d.rule = c.rule /\ d.content = c.content /\ d.at = "store" /\ d.part = c.part
             /\ d.lists = c.lists /\ d.items = items
BY DEF RuleCalls

\* from the cache to its replacement,
LEMMA MadeStored ==
  ASSUME NEW c \in RuleCalls
  PROVE  LET d == [c EXCEPT !.at = "redact"]
         IN  /\ d \in RuleCalls /\ d.rule = c.rule /\ d.content = c.content /\ d.at = "redact"
             /\ d.part = c.part /\ d.lists = c.lists /\ d.items = c.items
BY DEF RuleCalls

\* to its work,
LEMMA MadeWork ==
  ASSUME NEW c \in RuleCalls
  PROVE  LET d == [c EXCEPT !.at = "work"]
         IN  /\ d \in RuleCalls /\ d.rule = c.rule /\ d.content = c.content /\ d.at = "work"
             /\ d.part = c.part /\ d.lists = c.lists /\ d.items = c.items
BY DEF RuleCalls

\* to its next part.
LEMMA MadeNext ==
  ASSUME NEW c \in RuleCalls
  PROVE  LET d == [c EXCEPT !.at = "work", !.part = @ + 1]
         IN  /\ d \in RuleCalls /\ d.rule = c.rule /\ d.content = c.content /\ d.at = "work"
             /\ d.part = c.part + 1 /\ d.lists = c.lists /\ d.items = c.items
<1> DEFINE p == c.part + 1
<1>1. p \in Nat \ {0}
  BY CallTyped
<1> HIDE DEF p
<1>2. LET d == [c EXCEPT !.at = "work", !.part = p]
      IN  /\ d \in RuleCalls /\ d.rule = c.rule /\ d.content = c.content /\ d.at = "work"
          /\ d.part = p /\ d.lists = c.lists /\ d.items = c.items
  BY <1>1 DEF RuleCalls
<1> QED
  BY <1>2 DEF p

\* A call that begins has everything ahead.
LEMMA CallIsNew ==
  ASSUME NEW rule \in Phrases, NEW content \in Contents
  PROVE  LET d == Call(rule, content)
         IN  /\ d \in RuleCalls /\ d.rule = rule /\ d.content = content /\ d.at = "enter" /\ d.part = 1
             /\ d.lists = <<>> /\ d.items = <<>> /\ CallShape(d)
             /\ \A v : SoFar(d, v)
             /\ \A v : Ahead(d, v) = Says[rule][content][v].items
<1>1. <<>> \in Seq(Texts) /\ <<>> \in Seq(Seq(Texts))
  BY EmptySeq, TextsJoin
<1>2. 1 \in Nat \ {0}
  OBVIOUS
<1> QED
  BY <1>1, <1>2 DEF Call, RuleCalls, CallShape, SoFar, Ahead

\* What is said of a rule is said of what comes before ##, redacted.
LEMMA SaysRedacted ==
  ASSUME NEW rule \in Phrases, NEW c \in Contents, NEW v \in Texts
  PROVE  Says[rule][c][v].items = Redacted(Says[Body(rule)][c][v].items, Pattern(rule))
<1>1. CASE rule.is = "redact"
  <2>1. Says[rule][c][v] = [items |-> Redacted(Says[rule.of][c][v].items, rule.pattern),
                            kept |-> Says[rule.of][c][v].kept]
    BY <1>1, SaysIs, SayingRedact
  <2>2. Body(rule) = rule.of /\ Pattern(rule) = rule.pattern
    BY <1>1 DEF Body, Pattern
  <2> QED
    BY <2>1, <2>2
<1>2. CASE rule.is # "redact"
  <2>1. Body(rule) = rule /\ Pattern(rule) = NoPattern
    BY <1>2 DEF Body, Pattern
  <2> QED
    BY <2>1 DEF Redacted
<1> QED
  BY <1>1, <1>2

\* Which of the kinds a rule is.
LEMMA KindsDiffer ==
  ASSUME NEW rule \in Phrases
  PROVE  /\ Joint(rule) => Plain(rule) /\ ~Patterned(rule) /\ rule.is # "put" /\ Body(rule) \in Phrases
                           /\ Body(rule).is = "join"
         /\ Plain(rule) => ~Patterned(rule) /\ rule.is # "put"
         /\ Still(rule) => ~Patterned(rule) /\ rule.is # "put"
         /\ Patterned(rule) => ~Joint(rule) /\ rule.is # "put" /\ ~Plain(rule) /\ Body(rule) \in Phrases
                               /\ Body(rule).is = "template"
         /\ rule.is = "put" => Body(rule) = rule
BY BodyIs DEF Joint, Plain, Patterned, Still

\* The call at work goes on, or is dropped and the one before it goes on: nothing else changes.
LEMMA TopGoesOn ==
  ASSUME NEW s \in Seq(RuleCalls), NEW z \in Seq(RuleCalls), NEW v \in Texts, NEW owed,
         StackOK(s, v, owed), Len(z) \in 1 .. Len(s),
         \A i \in 1 .. Len(z) - 1 : z[i] = s[i],
         z[Len(z)].rule = s[Len(z)].rule, z[Len(z)].content = s[Len(z)].content,
         CallShape(z[Len(z)]), SoFar(z[Len(z)], v),
         ~Chained[z[Len(z)].rule] => owed[Len(z)] = Ahead(z[Len(z)], v)
  PROVE  StackOK(z, v, owed)
<1> DEFINE m == Len(z)
<1>0. m \in Nat /\ Len(s) \in Nat /\ m <= Len(s) /\ 1 <= m
  OBVIOUS
<1> HIDE DEF m
<1>1. CallsShaped(z, v)
  BY <1>0 DEF m, StackOK, CallsShaped
<1>2. CallsWait(z)
  <2> SUFFICES ASSUME NEW i \in 1 .. m - 1
               PROVE  Waits(z[i], z[i + 1])
    BY DEF CallsWait, m
  <2>1. Waits(s[i], s[i + 1])
    BY <1>0 DEF StackOK, CallsWait
  <2>2. z[i] = s[i]
    BY DEF m
  <2>3. CASE i + 1 = m
    <3>1. z[i + 1].rule = s[i + 1].rule /\ z[i + 1].content = s[i + 1].content
      BY <2>3 DEF m
    <3> QED
      BY <2>1, <2>2, <3>1 DEF Waits
  <2>4. CASE i + 1 # m
    <3>1. i + 1 \in 1 .. m - 1
      BY <1>0, <2>4
    <3>2. z[i + 1] = s[i + 1]
      BY <3>1 DEF m
    <3> QED
      BY <2>1, <2>2, <3>2
  <2> QED
    BY <2>3, <2>4
<1>3. CallsOwe(z, v, owed)
  <2>1. ASSUME NEW i \in 1 .. m - 1, ~Chained[z[i].rule]
        PROVE  owed[i] = Behind(z[i], v, owed[i + 1])
    <3>1. z[i] = s[i]
      BY DEF m
    <3>2. i \in 1 .. Len(s) - 1
      BY <1>0
    <3> QED
      BY <2>1, <3>1, <3>2 DEF StackOK, CallsOwe
  <2> QED
    BY <2>1 DEF CallsOwe, m
<1>4. CallsStill(z)
  <2> SUFFICES ASSUME NEW i \in 1 .. m, NEW j \in 1 .. m, i < j, Plain(z[i].rule)
               PROVE  Still(z[j].rule)
    BY DEF CallsStill, m
  <2>1. i \in 1 .. m - 1 /\ i \in 1 .. Len(s) /\ j \in 1 .. Len(s)
    BY <1>0
  <2>2. z[i] = s[i]
    BY <2>1 DEF m
  <2>3. Still(s[j].rule)
    BY <2>1, <2>2 DEF StackOK, CallsStill
  <2>4. z[j].rule = s[j].rule
    <3>1. CASE j = m
      BY <3>1 DEF m
    <3>2. CASE j # m
      <4>1. j \in 1 .. m - 1
        BY <1>0, <3>2
      <4> QED
        BY <4>1 DEF m
    <3> QED
      BY <3>1, <3>2
  <2> QED
    BY <2>3, <2>4
<1> QED
  BY <1>1, <1>2, <1>3, <1>4 DEF StackOK

\* The call at work calls for another rule.
LEMMA CallsAnother ==
  ASSUME NEW s \in Seq(RuleCalls), NEW z \in Seq(RuleCalls), NEW v \in Texts, NEW owed,
         StackOK(s, v, owed), Len(s) > 0, Len(z) = Len(s) + 1,
         \A i \in 1 .. Len(s) : z[i] = s[i],
         NEW r \in Phrases, z[Len(z)] = Call(r, s[Len(s)].content),
         Waits(s[Len(s)], z[Len(z)]), Plain(s[Len(s)].rule) => Still(r),
         ~Chained[s[Len(s)].rule] =>
            Ahead(s[Len(s)], v) = Behind(s[Len(s)], v, Says[r][s[Len(s)].content][v].items)
  PROVE  \E o : StackOK(z, v, o) /\ o[1] = owed[1]
<1> DEFINE n == Len(s)
           c == s[n]
           d == z[n + 1]
           o == [i \in 1 .. n + 1 |-> IF i = n + 1 THEN Says[r][c.content][v].items ELSE owed[i]]
<1>0. n \in Nat /\ n >= 1 /\ n \in 1 .. n /\ n + 1 \in 1 .. n + 1 /\ Len(z) = n + 1
  OBVIOUS
<1>1. c \in RuleCalls /\ c.rule \in Phrases /\ c.content \in Contents
  BY CallTyped
<1>2. d = Call(r, c.content) /\ d.rule = r /\ CallShape(d) /\ SoFar(d, v)
      /\ Ahead(d, v) = Says[r][c.content][v].items
  BY <1>1, CallIsNew
<1>3. o[n + 1] = Says[r][c.content][v].items /\ \A i \in 1 .. n : o[i] = owed[i]
  BY <1>0
<1>4. \A i \in 1 .. n : z[i] = s[i]
  OBVIOUS
<1>5. Waits(c, d) /\ (Plain(c.rule) => Still(r))
      /\ (~Chained[c.rule] => Ahead(c, v) = Behind(c, v, Says[r][c.content][v].items))
  OBVIOUS
<1>6. CallsShaped(s, v) /\ CallsWait(s) /\ CallsOwe(s, v, owed) /\ CallsStill(s)
  BY DEF StackOK
<1>7. s[n] = c /\ z[n + 1] = d
  OBVIOUS
<1>8. Len(s) = n
  OBVIOUS
<1> HIDE DEF n, c, d, o
<1>9. CallsShaped(z, v)
  <2> SUFFICES ASSUME NEW i \in 1 .. n + 1
               PROVE  CallShape(z[i]) /\ SoFar(z[i], v)
    BY <1>0 DEF CallsShaped
  <2>1. CASE i = n + 1
    BY <2>1, <1>2, <1>7
  <2>2. CASE i # n + 1
    <3>1. i \in 1 .. n
      BY <1>0, <2>2
    <3> QED
      BY <3>1, <1>4, <1>6, <1>8 DEF CallsShaped
  <2> QED
    BY <2>1, <2>2
<1>10. CallsWait(z)
  <2> SUFFICES ASSUME NEW i \in 1 .. n
               PROVE  Waits(z[i], z[i + 1])
    BY <1>0 DEF CallsWait
  <2>1. CASE i = n
    BY <2>1, <1>4, <1>5, <1>7
  <2>2. CASE i # n
    <3>1. i \in 1 .. n - 1 /\ i + 1 \in 1 .. n
      BY <1>0, <2>2
    <3>2. Waits(s[i], s[i + 1])
      BY <3>1, <1>6, <1>8 DEF CallsWait
    <3> QED
      BY <3>1, <3>2, <1>4
  <2> QED
    BY <2>1, <2>2
<1>11. CallsOwe(z, v, o)
  <2>1. ASSUME NEW i \in 1 .. n, ~Chained[z[i].rule]
        PROVE  o[i] = Behind(z[i], v, o[i + 1])
    <3>1. CASE i = n
      <4>1. owed[n] = Ahead(c, v)
        BY <2>1, <3>1, <1>4, <1>6, <1>7, <1>8 DEF CallsOwe
      <4>2. ~Chained[c.rule]
        BY <2>1, <3>1, <1>4, <1>7
      <4> QED
        BY <3>1, <4>1, <4>2, <1>3, <1>4, <1>5, <1>7
    <3>2. CASE i # n
      <4>1. i \in 1 .. n - 1 /\ i + 1 \in 1 .. n
        BY <1>0, <3>2
      <4>2. owed[i] = Behind(s[i], v, owed[i + 1])
        BY <4>1, <2>1, <1>4, <1>6, <1>8 DEF CallsOwe
      <4> QED
        BY <4>1, <4>2, <1>3, <1>4
    <3> QED
      BY <3>1, <3>2
  <2>2. o[n + 1] = Ahead(z[n + 1], v)
    BY <1>2, <1>3, <1>7
  <2>3. n + 1 - 1 = n
    BY <1>0
  <2> QED
    BY <2>1, <2>2, <2>3, <1>0 DEF CallsOwe
<1>12. CallsStill(z)
  <2> SUFFICES ASSUME NEW i \in 1 .. n + 1, NEW j \in 1 .. n + 1, i < j, Plain(z[i].rule)
               PROVE  Still(z[j].rule)
    BY <1>0 DEF CallsStill
  <2>1. i \in 1 .. n /\ z[i] = s[i]
    BY <1>0, <1>4
  <2>2. CASE j = n + 1
    <3>1. CASE i = n
      BY <3>1, <2>1, <2>2, <1>2, <1>5, <1>7
    <3>2. CASE i # n
      <4>1. i < n
        BY <2>1, <3>2, <1>0
      <4>2. Still(c.rule)
        BY <4>1, <2>1, <1>0, <1>6, <1>7, <1>8 DEF CallsStill
      <4>3. ~Patterned(c.rule) /\ c.rule.is # "put"
        BY <4>2, <1>1, KindsDiffer
      <4>4. Joint(c.rule)
        BY <4>3, <1>5 DEF Waits
      <4>5. Plain(c.rule)
        BY <4>4, <1>1, KindsDiffer
      <4> QED
        BY <4>5, <2>2, <1>2, <1>5, <1>7
    <3> QED
      BY <3>1, <3>2
  <2>3. CASE j # n + 1
    <3>1. j \in 1 .. n
      BY <2>3, <1>0
    <3> QED
      BY <3>1, <2>1, <1>4, <1>6, <1>8 DEF CallsStill
  <2> QED
    BY <2>2, <2>3
<1>13. StackOK(z, v, o)
  BY <1>9, <1>10, <1>11, <1>12 DEF StackOK
<1>14. o[1] = owed[1]
  BY <1>0, <1>3
<1> QED
  BY <1>13, <1>14

\* What was found for @put: is kept, and the rest of the rule takes its place: no call below
\* is one whose answer what is kept has a part in.
LEMMA RestGoesOn ==
  ASSUME NEW s \in Seq(RuleCalls), NEW z \in Seq(RuleCalls), NEW v \in Texts, NEW owed,
         StackOK(s, v, owed), Len(s) > 0, Len(z) = Len(s),
         \A i \in 1 .. Len(s) - 1 : z[i] = s[i],
         s[Len(s)].at = "back", s[Len(s)].rule.is = "put",
         z[Len(s)] = Call(s[Len(s)].rule.rest, s[Len(s)].content),
         NEW w \in Texts, w = Pick1(s[Len(s)].lists[1])
  PROVE  \E o : StackOK(z, w, o) /\ (~Chained[s[1].rule] => ~Chained[z[1].rule] /\ o[1] = owed[1])
<1> DEFINE n == Len(s)
           c == s[n]
           d == z[n]
           o == [i \in 1 .. n |-> IF i = n THEN Ahead(d, w) ELSE owed[i]]
<1>0. n \in Nat /\ n >= 1 /\ n \in 1 .. n
  OBVIOUS
<1>1. c \in RuleCalls /\ c.rule \in Phrases /\ c.content \in Contents
  BY CallTyped
<1>2. c.rule.rest \in Phrases /\ c.rule.rest \in Inners(c.rule)
  BY <1>1, PhraseShape
<1>3. /\ d.rule = c.rule.rest /\ d.content = c.content /\ CallShape(d) /\ SoFar(d, w)
      /\ Ahead(d, w) = Says[c.rule.rest][c.content][w].items
  BY <1>1, <1>2, CallIsNew
<1>4. Chained[c.rule.rest] => Chained[c.rule]
  BY <1>1, <1>2, ChainedIs
<1>5. CallsShaped(s, v) /\ CallsWait(s) /\ CallsOwe(s, v, owed) /\ CallsStill(s)
  BY DEF StackOK
<1>6. /\ s[n] = c /\ z[n] = d /\ Len(s) = n /\ Len(z) = n /\ c.at = "back" /\ c.rule.is = "put"
      /\ \A i \in 1 .. n - 1 : z[i] = s[i]
      /\ w = Pick1(c.lists[1])
  OBVIOUS
<1>7. o[n] = Ahead(d, w) /\ \A i \in 1 .. n - 1 : o[i] = owed[i]
  BY <1>0
<1>a. \A i \in 1 .. n : s[i] \in RuleCalls /\ s[i].rule \in Phrases
  BY CallTyped
<1> HIDE DEF n, c, d, o
<1>8. ASSUME NEW i \in 1 .. n - 1
      PROVE  /\ z[i] = s[i] /\ i \in 1 .. n /\ i + 1 \in 1 .. n /\ ~Plain(s[i].rule) /\ ~Joint(s[i].rule)
             /\ Waits(s[i], s[i + 1]) /\ s[i].at = "enter" /\ (s[i].rule.is = "put" \/ Patterned(s[i].rule))
  <2>1. i \in 1 .. n /\ i + 1 \in 1 .. n /\ i < n
    BY <1>0
  <2>2. Waits(s[i], s[i + 1])
    BY <1>5, <1>6 DEF CallsWait
  <2>3. ~Still(c.rule)
    BY <1>1, <1>6, KindsDiffer
  <2>4. ~Plain(s[i].rule)
    BY <2>1, <2>3, <1>0, <1>5, <1>6 DEF CallsStill
  <2>5. ~Joint(s[i].rule)
    BY <2>1, <2>4, <1>a, KindsDiffer
  <2>6. s[i].at = "enter" /\ (s[i].rule.is = "put" \/ Patterned(s[i].rule))
    BY <2>2, <2>5 DEF Waits
  <2> QED
    BY <2>1, <2>2, <2>4, <2>5, <2>6, <1>6
<1>9. CallsShaped(z, w)
  <2> SUFFICES ASSUME NEW i \in 1 .. n
               PROVE  CallShape(z[i]) /\ SoFar(z[i], w)
    BY <1>6 DEF CallsShaped
  <2>1. CASE i = n
    BY <2>1, <1>3, <1>6
  <2>2. CASE i # n
    <3>1. i \in 1 .. n - 1
      BY <1>0, <2>2
    <3>2. z[i] = s[i] /\ s[i].at = "enter"
      BY <3>1, <1>8
    <3>3. CallShape(s[i])
      BY <1>5, <1>6 DEF CallsShaped
    <3> QED
      BY <3>2, <3>3 DEF SoFar
  <2> QED
    BY <2>1, <2>2
<1>10. CallsWait(z)
  <2> SUFFICES ASSUME NEW i \in 1 .. n - 1
               PROVE  Waits(z[i], z[i + 1])
    BY <1>6 DEF CallsWait
  <2>1. z[i] = s[i] /\ Waits(s[i], s[i + 1]) /\ s[i].at = "enter" /\ (s[i].rule.is = "put" \/ Patterned(s[i].rule))
    BY <1>8
  <2>2. CASE i + 1 = n
    <3>1. s[i + 1] = c /\ z[i + 1] = d
      BY <2>2, <1>6
    <3> QED
      BY <2>1, <3>1, <1>3, <1>4 DEF Waits
  <2>3. CASE i + 1 # n
    <3>1. i + 1 \in 1 .. n - 1
      BY <1>0, <2>3
    <3> QED
      BY <2>1, <3>1, <1>6
  <2> QED
    BY <2>2, <2>3
<1>11. ~Chained[c.rule] => owed[n] = Ahead(d, w)
  <2>1. Ahead(c, v) = Says[c.rule.rest][c.content][w].items
    BY <1>6 DEF Ahead
  <2> QED
    BY <2>1, <1>3, <1>5, <1>6 DEF CallsOwe
<1>12. CallsOwe(z, w, o)
  <2>1. ASSUME NEW i \in 1 .. n - 1, ~Chained[z[i].rule]
        PROVE  o[i] = Behind(z[i], w, o[i + 1])
    <3>1. /\ z[i] = s[i] /\ Waits(s[i], s[i + 1]) /\ (s[i].rule.is = "put" \/ Patterned(s[i].rule))
          /\ ~Chained[s[i].rule]
      BY <2>1, <1>8
    <3>2. owed[i] = Behind(s[i], v, owed[i + 1])
      BY <3>1, <1>5, <1>6 DEF CallsOwe
    <3>3. o[i + 1] = owed[i + 1]
      <4>1. CASE i + 1 = n
        <5>1. ~Chained[c.rule]
          BY <3>1, <4>1, <1>6 DEF Waits
        <5> QED
          BY <4>1, <5>1, <1>7, <1>11
      <4>2. CASE i + 1 # n
        <5>1. i + 1 \in 1 .. n - 1
          BY <1>0, <4>2
        <5> QED
          BY <5>1, <1>7
      <4> QED
        BY <4>1, <4>2
    <3>4. Behind(s[i], v, owed[i + 1]) = Behind(s[i], w, owed[i + 1])
      BY <3>1 DEF Behind
    <3> QED
      BY <3>1, <3>2, <3>3, <3>4, <1>7
  <2>2. o[n] = Ahead(z[n], w)
    BY <1>6, <1>7
  <2> QED
    BY <2>1, <2>2, <1>6 DEF CallsOwe
<1>13. CallsStill(z)
  <2> SUFFICES ASSUME NEW i \in 1 .. n, NEW j \in 1 .. n, i < j, Plain(z[i].rule)
               PROVE  Still(z[j].rule)
    BY <1>6 DEF CallsStill
  <2>1. i \in 1 .. n - 1
    BY <1>0
  <2> QED
    BY <2>1, <1>8
<1>14. ~Chained[s[1].rule] => ~Chained[z[1].rule] /\ o[1] = owed[1]
  <2>1. CASE n = 1
    BY <2>1, <1>3, <1>4, <1>6, <1>7, <1>11
  <2>2. CASE n # 1
    <3>1. 1 \in 1 .. n - 1
      BY <2>2, <1>0
    <3> QED
      BY <3>1, <1>6, <1>7
  <2> QED
    BY <2>1, <2>2
<1>15. StackOK(z, w, o)
  BY <1>9, <1>10, <1>12, <1>13 DEF StackOK
<1> QED
  BY <1>14, <1>15

\* The call that waits is given what the call at work was to give.
LEMMA WaiterGoesOn ==
  ASSUME NEW c \in RuleCalls, NEW e \in RuleCalls, NEW v \in Texts, NEW items \in Seq(Texts),
         CallShape(c), SoFar(c, v), Waits(c, e), Joint(c.rule) => Still(e.rule),
         ~Chained[e.rule] => items = Ahead(e, v)
  PROVE  LET d == Resumed(c, items)
         IN  /\ d \in RuleCalls /\ d.rule = c.rule /\ d.content = c.content
             /\ CallShape(d) /\ SoFar(d, v)
             /\ ~Chained[c.rule] => Ahead(d, v) = Behind(c, v, items)
<1> DEFINE d == Resumed(c, items)
<1>1. /\ c.rule \in Phrases /\ c.content \in Contents /\ c.part \in Nat \ {0} /\ c.lists \in Seq(Seq(Texts))
      /\ e.rule \in Phrases
  BY CallTyped
<1>2. /\ d \in RuleCalls /\ d.rule = c.rule /\ d.content = c.content /\ d.at = "back" /\ d.part = c.part
      /\ d.lists = Append(c.lists, items)
  BY MadeBack DEF Resumed
<1> HIDE DEF d
<1>3. Len(d.lists) = Len(c.lists) + 1 /\ Len(c.lists) \in Nat /\ d.lists[Len(c.lists) + 1] = items
  BY <1>1, <1>2
<1>4. \A k \in 1 .. Len(c.lists) : d.lists[k] = c.lists[k]
  BY <1>1, <1>2
<1>5. CASE c.at = "enter" /\ (c.rule.is = "put" \/ Patterned(c.rule))
  <2>1. c.lists = <<>> /\ ~Joint(c.rule)
    BY <1>1, <1>5, KindsDiffer DEF CallShape
  <2>2. Len(d.lists) = 1 /\ d.lists[1] = items
    BY <2>1, <1>3, EmptySeq
  <2>3. CallShape(d) /\ SoFar(d, v)
    BY <2>1, <2>2, <1>2, <1>5 DEF CallShape, SoFar
  <2>4. Ahead(d, v) = Behind(c, v, items)
    BY <2>2, <1>2, <1>5 DEF Ahead, Behind
  <2> QED
    BY <2>3, <2>4, <1>2 DEF d
<1>6. CASE c.at = "work" /\ Joint(c.rule) /\ e.rule = Body(c.rule).parts[c.part]
  <2>1. c.part <= Len(Body(c.rule).parts) /\ Len(c.lists) = c.part - 1
    BY <1>1, <1>6, KindsDiffer DEF CallShape
  <2>2. Len(d.lists) = c.part
    BY <2>1, <1>1, <1>3
  <2>3. CallShape(d)
    BY <2>1, <2>2, <1>2, <1>6 DEF CallShape
  <2>4. Ahead(d, v) = Behind(c, v, items)
    BY <1>1, <1>2, <1>6, KindsDiffer DEF Ahead, Behind
  <2>5. ASSUME ~Chained[c.rule]
        PROVE  PartsSaid(d, v)
    <3>1. items = Ahead(e, v) /\ e.content = c.content
      BY <2>5 DEF Waits
    <3>2. e.rule.is # "put" /\ ~Patterned(e.rule)
      BY <1>1, <1>6, KindsDiffer
    <3>3. items = Says[e.rule][c.content][v].items
      BY <3>1, <3>2 DEF Ahead
    <3> SUFFICES ASSUME NEW k \in 1 .. Len(d.lists)
                 PROVE  PartSaid(d, v, k)
      BY DEF PartsSaid
    <3>4. CASE k = c.part
      <4>1. Len(c.lists) + 1 = c.part
        BY <2>1, <1>1
      <4>2. d.lists[k] = items
        BY <3>4, <4>1, <1>3
      <4>3. ~(k < Len(d.lists)) /\ d.at = "back"
        BY <3>4, <2>2, <1>1, <1>2
      <4>4. e.rule = Body(d.rule).parts[k] /\ d.content = c.content
        BY <3>4, <1>2, <1>6
      <4> QED
        BY <3>3, <4>2, <4>3, <4>4 DEF PartSaid
    <3>5. CASE k # c.part
      <4>1. k \in 1 .. Len(c.lists)
        BY <3>5, <2>1, <2>2, <1>1
      <4>2. PartSaid(c, v, k)
        BY <4>1, <2>5, <1>6 DEF SoFar, PartsSaid
      <4> QED
        BY <4>1, <4>2, <1>2, <1>4, <1>6 DEF PartSaid
    <3> QED
      BY <3>4, <3>5
  <2>6. SoFar(d, v)
    BY <2>5, <1>2 DEF SoFar
  <2> QED
    BY <2>3, <2>4, <2>6, <1>2 DEF d
<1> QED
  BY <1>5, <1>6 DEF Waits

\* The last call of a stack is exchanged.
LEMMA PutAt ==
  ASSUME NEW X, NEW f \in Seq(X), NEW k \in 1 .. Len(f), NEW d \in X
  PROVE  LET z == [f EXCEPT ![k] = d]
         IN  z \in Seq(X) /\ Len(z) = Len(f) /\ z[k] = d /\ \A i \in 1 .. k - 1 : z[i] = f[i]
OBVIOUS

\* The last calls of a stack are dropped.
LEMMA FrontIs ==
  ASSUME NEW X, NEW s \in Seq(X), NEW k \in 0 .. Len(s)
  PROVE  SubSeq(s, 1, k) \in Seq(X) /\ Len(SubSeq(s, 1, k)) = k /\ \A i \in 1 .. k : SubSeq(s, 1, k)[i] = s[i]
<1>1. \A i \in 1 .. k : s[i] \in X
  OBVIOUS
<1> QED
  BY <1>1

\* The call at work returns.
LEMMA ReturnIsProper ==
  ASSUME NEW s \in Seq(RuleCalls), NEW v \in Texts, NEW a, Proper(s, v, a), Len(s) > 1,
         NEW items \in Seq(Texts), ~Chained[s[Len(s)].rule] => items = Ahead(s[Len(s)], v)
  PROVE  LET z == [SubSeq(s, 1, Len(s) - 1) EXCEPT ![Len(s) - 1] = Resumed(s[Len(s) - 1], items)]
         IN  z \in Seq(RuleCalls) /\ Proper(z, v, a)
<1> DEFINE n == Len(s)
           m == Len(s) - 1
           c == s[Len(s) - 1]
           e == s[Len(s)]
           front == SubSeq(s, 1, Len(s) - 1)
           d == Resumed(c, items)
           z == [front EXCEPT ![m] = d]
<1>1. n \in Nat /\ m \in Nat /\ n = m + 1 /\ m \in 1 .. m /\ m \in 1 .. n /\ 1 \in 1 .. m /\ n \in 1 .. n
  OBVIOUS
<1>2. c \in RuleCalls /\ e \in RuleCalls
  BY <1>1
<1>3. front \in Seq(RuleCalls) /\ Len(front) = m /\ \A i \in 1 .. m : front[i] = s[i]
  <2>1. \A i \in 1 .. m : s[i] \in RuleCalls
    BY <1>1
  <2> QED
    BY <1>1, <2>1
<1>4. s # <<>>
  BY EmptySeq
<1>5. PICK owed : StackOK(s, v, owed) /\ Answering(s, a, owed)
  BY <1>4 DEF Proper
<1>6. a.rule \in Phrases /\ a.content \in Contents
  BY <1>4 DEF Proper
<1>7. CallShape(c) /\ SoFar(c, v)
  BY <1>1, <1>5 DEF StackOK, CallsShaped
<1>8. Waits(c, e)
  BY <1>1, <1>5 DEF StackOK, CallsWait
<1>9. Joint(c.rule) => Still(e.rule)
  <2>1. Joint(c.rule) => Plain(c.rule)
    BY <1>2, CallTyped, KindsDiffer
  <2>2. m < n
    BY <1>1
  <2> QED
    BY <2>1, <2>2, <1>1, <1>5 DEF StackOK, CallsStill
<1>10. /\ d \in RuleCalls /\ d.rule = c.rule /\ d.content = c.content
       /\ CallShape(d) /\ SoFar(d, v)
       /\ ~Chained[c.rule] => Ahead(d, v) = Behind(c, v, items)
  BY <1>2, <1>7, <1>8, <1>9, WaiterGoesOn
<1>11. ~Chained[c.rule] => owed[m] = Behind(c, v, items)
  <2> SUFFICES ASSUME ~Chained[c.rule]
               PROVE  owed[m] = Behind(c, v, items)
    OBVIOUS
  <2>1. owed[m] = Behind(c, v, owed[n])
    BY <1>1, <1>5 DEF StackOK, CallsOwe
  <2>2. ~Chained[e.rule]
    BY <1>8 DEF Waits
  <2>3. owed[n] = Ahead(e, v)
    BY <2>2, <1>5 DEF StackOK, CallsOwe
  <2> QED
    BY <2>1, <2>2, <2>3
<1> HIDE DEF d
<1>12. z \in Seq(RuleCalls) /\ Len(z) = m /\ z[m] = d /\ \A i \in 1 .. m - 1 : z[i] = s[i]
  <2>1. m \in 1 .. Len(front)
    BY <1>1, <1>3
  <2> HIDE DEF m, front
  <2>2. z \in Seq(RuleCalls) /\ Len(z) = Len(front) /\ z[m] = d /\ \A i \in 1 .. m - 1 : z[i] = front[i]
    BY <2>1, <1>3, <1>10, PutAt
  <2>3. \A i \in 1 .. m - 1 : i \in 1 .. m
    BY <1>1
  <2> HIDE DEF z
  <2> QED
    BY <2>2, <2>3, <1>3
<1> HIDE DEF z
<1>13. StackOK(z, v, owed)
  <2>1. /\ Len(z) \in 1 .. Len(s) /\ (\A i \in 1 .. Len(z) - 1 : z[i] = s[i])
        /\ z[Len(z)].rule = s[Len(z)].rule /\ z[Len(z)].content = s[Len(z)].content
    BY <1>1, <1>10, <1>12
  <2>2. /\ CallShape(z[Len(z)]) /\ SoFar(z[Len(z)], v)
        /\ ~Chained[z[Len(z)].rule] => owed[Len(z)] = Ahead(z[Len(z)], v)
    BY <1>10, <1>11, <1>12
  <2> QED
    BY <2>1, <2>2, <1>5, <1>12, TopGoesOn
<1>14. Answering(z, a, owed)
  <2>1. z[1].rule = s[1].rule
    <3>1. CASE m = 1
      BY <3>1, <1>10, <1>12
    <3>2. CASE m # 1
      BY <3>2, <1>1, <1>12
    <3> QED
      BY <3>1, <3>2
  <2> QED
    BY <2>1, <1>5 DEF Answering
<1>15. z # <<>>
  BY <1>1, <1>12, EmptySeq
<1>16. Proper(z, v, a)
  BY <1>6, <1>13, <1>14, <1>15 DEF Proper
<1> QED
  BY <1>12, <1>16 DEF z, d

\* It goes on in the same place.
LEMMA GoingIsProper ==
  ASSUME NEW s \in Seq(RuleCalls), NEW v \in Texts, NEW a, Proper(s, v, a), s # <<>>,
         NEW d \in RuleCalls, d.rule = s[Len(s)].rule, d.content = s[Len(s)].content,
         CallShape(d), SoFar(d, v), ~Chained[d.rule] => Ahead(d, v) = Ahead(s[Len(s)], v)
  PROVE  LET z == [s EXCEPT ![Len(s)] = d]
         IN  z \in Seq(RuleCalls) /\ Proper(z, v, a)
<1> DEFINE n == Len(s)
           z == [s EXCEPT ![Len(s)] = d]
<1>1. n \in Nat /\ n >= 1 /\ n \in 1 .. n /\ 1 \in 1 .. n
  BY EmptySeq
<1>2. z \in Seq(RuleCalls) /\ Len(z) = n /\ z[n] = d /\ \A i \in 1 .. n - 1 : z[i] = s[i]
  BY <1>1
<1>3. PICK owed : StackOK(s, v, owed) /\ Answering(s, a, owed)
  BY DEF Proper
<1>4. a.rule \in Phrases /\ a.content \in Contents
  BY DEF Proper
<1> HIDE DEF z
<1>5. StackOK(z, v, owed)
  <2>1. /\ Len(z) \in 1 .. Len(s) /\ (\A i \in 1 .. Len(z) - 1 : z[i] = s[i])
        /\ z[Len(z)].rule = s[Len(z)].rule /\ z[Len(z)].content = s[Len(z)].content
    BY <1>1, <1>2
  <2>2. ~Chained[d.rule] => owed[n] = Ahead(d, v)
    BY <1>3 DEF StackOK, CallsOwe
  <2>3. /\ CallShape(z[Len(z)]) /\ SoFar(z[Len(z)], v)
        /\ ~Chained[z[Len(z)].rule] => owed[Len(z)] = Ahead(z[Len(z)], v)
    BY <2>2, <1>2
  <2> QED
    BY <2>1, <2>3, <1>2, <1>3, TopGoesOn
<1>6. Answering(z, a, owed)
  <2>1. z[1].rule = s[1].rule
    <3>1. CASE n = 1
      BY <3>1, <1>2
    <3>2. CASE n # 1
      BY <3>2, <1>1, <1>2
    <3> QED
      BY <3>1, <3>2
  <2> QED
    BY <2>1, <1>3 DEF Answering
<1>7. z # <<>>
  BY <1>1, <1>2, EmptySeq
<1>8. Proper(z, v, a)
  BY <1>4, <1>5, <1>6, <1>7 DEF Proper
<1> QED
  BY <1>2, <1>8 DEF z

\* It calls for another rule.
LEMMA CallingIsProper ==
  ASSUME NEW s \in Seq(RuleCalls), NEW v \in Texts, NEW a, Proper(s, v, a), s # <<>>,
         NEW r \in Phrases, Waits(s[Len(s)], Call(r, s[Len(s)].content)),
         Plain(s[Len(s)].rule) => Still(r),
         ~Chained[s[Len(s)].rule] =>
            Ahead(s[Len(s)], v) = Behind(s[Len(s)], v, Says[r][s[Len(s)].content][v].items)
  PROVE  LET z == Append(SubSeq(s, 1, Len(s) - 1), s[Len(s)]) \o <<Call(r, s[Len(s)].content)>>
         IN  z \in Seq(RuleCalls) /\ Proper(z, v, a)
<1> DEFINE n == Len(s)
           e == s[Len(s)]
           d == Call(r, s[Len(s)].content)
           front == SubSeq(s, 1, Len(s) - 1)
           z == Append(front, e) \o <<d>>
<1>1. n \in Nat /\ n >= 1 /\ n \in 1 .. n /\ 1 \in 1 .. n /\ n - 1 \in Nat /\ n + 1 \in 1 .. n + 1
  BY EmptySeq
<1>2. e \in RuleCalls /\ e.content \in Contents
  BY <1>1, CallTyped
<1>3. d \in RuleCalls
  BY <1>2, CallIsNew
<1>4. front \in Seq(RuleCalls) /\ Len(front) = n - 1 /\ \A i \in 1 .. n - 1 : front[i] = s[i]
  <2>1. n - 1 \in 0 .. Len(s)
    BY <1>1
  <2> QED
    BY <2>1, FrontIs
<1> HIDE DEF d, front
<1>5. Append(front, e) = s
  <2>1. Append(front, e) \in Seq(RuleCalls) /\ Len(Append(front, e)) = n
    BY <1>1, <1>2, <1>4
  <2>2. \A i \in 1 .. n : Append(front, e)[i] = s[i]
    BY <1>1, <1>2, <1>4
  <2> QED
    BY <2>1, <2>2, SeqEqual
<1>6. z \in Seq(RuleCalls) /\ Len(z) = n + 1 /\ z[n + 1] = d /\ \A i \in 1 .. n : z[i] = s[i]
  BY <1>1, <1>3, <1>5
<1>7. PICK owed : StackOK(s, v, owed) /\ Answering(s, a, owed)
  BY DEF Proper
<1>8. a.rule \in Phrases /\ a.content \in Contents
  BY DEF Proper
<1> HIDE DEF z
<1>9. z[Len(z)] = Call(r, s[Len(s)].content) /\ Waits(s[Len(s)], z[Len(z)]) /\ Len(s) > 0
  BY <1>1, <1>6 DEF d
<1>10. PICK o : StackOK(z, v, o) /\ o[1] = owed[1]
  BY <1>6, <1>7, <1>9, CallsAnother
<1>11. Answering(z, a, o)
  <2>1. z[1] = s[1]
    BY <1>1, <1>6
  <2> QED
    BY <2>1, <1>7, <1>10 DEF Answering
<1>12. z # <<>>
  BY <1>1, <1>6, EmptySeq
<1>13. Proper(z, v, a)
  BY <1>8, <1>10, <1>11, <1>12 DEF Proper
<1> QED
  BY <1>6, <1>13 DEF z, d, front

\* The rest of @put: comes next.
LEMMA RestIsProper ==
  ASSUME NEW s \in Seq(RuleCalls), NEW v \in Texts, NEW a, Proper(s, v, a), s # <<>>,
         s[Len(s)].at = "back", s[Len(s)].rule.is = "put",
         NEW w \in Texts, w = Pick1(s[Len(s)].lists[1])
  PROVE  LET z == [s EXCEPT ![Len(s)] = Call(s[Len(s)].rule.rest, s[Len(s)].content)]
         IN  z \in Seq(RuleCalls) /\ Proper(z, w, a)
<1> DEFINE n == Len(s)
           d == Call(s[Len(s)].rule.rest, s[Len(s)].content)
           z == [s EXCEPT ![Len(s)] = d]
<1>1. n \in Nat /\ n >= 1 /\ n \in 1 .. n /\ 1 \in 1 .. n
  BY EmptySeq
<1>2. s[n].rule \in Phrases /\ s[n].content \in Contents
  BY <1>1, CallTyped
<1>3. s[n].rule.rest \in Phrases
  BY <1>2, PhraseShape
<1>4. d \in RuleCalls
  BY <1>2, <1>3, CallIsNew
<1> HIDE DEF d
<1>5. z \in Seq(RuleCalls) /\ Len(z) = n /\ z[n] = d /\ \A i \in 1 .. n - 1 : z[i] = s[i]
  BY <1>1, <1>4
<1>6. PICK owed : StackOK(s, v, owed) /\ Answering(s, a, owed)
  BY DEF Proper
<1>7. a.rule \in Phrases /\ a.content \in Contents
  BY DEF Proper
<1> HIDE DEF z
<1>8. Len(s) > 0 /\ Len(z) = Len(s) /\ z[Len(s)] = Call(s[Len(s)].rule.rest, s[Len(s)].content)
  BY <1>1, <1>5 DEF d
<1>9. PICK o : StackOK(z, w, o) /\ (~Chained[s[1].rule] => ~Chained[z[1].rule] /\ o[1] = owed[1])
  BY <1>5, <1>6, <1>8, RestGoesOn
<1>10. Answering(z, a, o)
  BY <1>6, <1>9 DEF Answering
<1>11. z # <<>>
  BY <1>1, <1>5, EmptySeq
<1>12. Proper(z, w, a)
  BY <1>7, <1>9, <1>10, <1>11 DEF Proper
<1> QED
  BY <1>5, <1>12 DEF z, d

\* A thread begins.
LEMMA BeginningIsProper ==
  ASSUME NEW rule \in Phrases, NEW content \in Contents, NEW v \in Texts, NEW a,
         a.rule = rule, a.content = content, a.kept = v
  PROVE  <<Call(rule, content)>> \in Seq(RuleCalls) /\ Proper(<<Call(rule, content)>>, v, a)
<1> DEFINE d == Call(rule, content)
           z == <<Call(rule, content)>>
           o == [i \in 1 .. 1 |-> Ahead(Call(rule, content), v)]
<1>1. d \in RuleCalls /\ d.rule = rule /\ CallShape(d) /\ SoFar(d, v) /\ Ahead(d, v) = Says[rule][content][v].items
  BY CallIsNew
<1>2. Len(z) = 1 /\ z[1] = d /\ z # <<>>
  OBVIOUS
<1>3. o[1] = Ahead(d, v)
  OBVIOUS
<1>4. z \in Seq(RuleCalls)
  BY <1>1
<1> HIDE DEF z, o, d
<1>5. CallsShaped(z, v) /\ CallsWait(z) /\ CallsOwe(z, v, o) /\ CallsStill(z)
  BY <1>1, <1>2, <1>3 DEF CallsShaped, CallsWait, CallsOwe, CallsStill
<1>6. Answering(z, a, o)
  BY <1>1, <1>2, <1>3 DEF Answering
<1>7. Proper(z, v, a)
  BY <1>2, <1>5, <1>6 DEF Proper, StackOK
<1> QED
  BY <1>4, <1>7 DEF z

\* The answer is given.
LEMMA AnswerIsProper ==
  ASSUME NEW s \in Seq(RuleCalls), NEW v \in Texts, NEW a, NEW b, Proper(s, v, a), Len(s) = 1,
         ~Chained[s[1].rule] => b.items = Ahead(s[1], v),
         b.rule = a.rule, b.content = a.content, b.kept = a.kept
  PROVE  Proper(<<>>, v, b)
<1>1. s # <<>>
  OBVIOUS
<1>2. PICK owed : StackOK(s, v, owed) /\ Answering(s, a, owed)
  BY <1>1 DEF Proper
<1>3. a.rule \in Phrases /\ a.content \in Contents
  BY <1>1 DEF Proper
<1>4. ~Chained[s[1].rule] => owed[1] = Ahead(s[1], v)
  BY <1>2 DEF StackOK, CallsOwe
<1>5. ~Chained[a.rule] => b.items = Says[a.rule][a.content][a.kept].items
  BY <1>2, <1>4 DEF Answering
<1> QED
  BY <1>3, <1>5 DEF Proper

-----------------------------------------------------------------------------
(* The caches. *)

Entries(K, V) == [key : K, value : V]
\* One entry for a key.
OneEach(cache) == \A i, j \in DOMAIN cache : cache[i].key = cache[j].key => i = j
\* Every entry is one of these, or the new one.
ComesFrom(new, old, key, value) ==
    \A i \in DOMAIN new : \/ \E j \in DOMAIN old : new[i] = old[j]
                          \/ new[i].key = key /\ new[i].value = value

\* get: the same entries in another order, the one asked for first.
LEMMA TouchedIs ==
  ASSUME NEW K, NEW V, NEW cache \in Seq(Entries(K, V)), NEW key, Place(cache, key) # {}, OneEach(cache)
  PROVE  LET new == Touched(cache, key)
         IN  /\ new \in Seq(Entries(K, V)) /\ Len(new) = Len(cache) /\ Len(new) >= 1
             /\ new[1].key = key /\ OneEach(new)
             /\ \A i \in DOMAIN new : \E j \in DOMAIN cache : new[i] = cache[j]
<1> DEFINE i == CHOOSE j \in Place(cache, key) : TRUE
           n == Len(cache)
           left == SubSeq(cache, 1, i - 1)
           right == SubSeq(cache, i + 1, Len(cache))
           new == <<cache[i]>> \o left \o right
           from(k) == IF k = 1 THEN i ELSE IF k <= i THEN k - 1 ELSE k
<1>1. i \in Place(cache, key)
  OBVIOUS
<1>2. i \in 1 .. n /\ n \in Nat /\ cache[i].key = key
  BY <1>1 DEF Place
<1>3. Touched(cache, key) = new
  BY DEF Touched
<1> HIDE DEF i
<1>4. left \in Seq(Entries(K, V)) /\ Len(left) = i - 1 /\ \A k \in 1 .. i - 1 : left[k] = cache[k]
  <2>1. i - 1 \in 0 .. Len(cache)
    BY <1>2
  <2> QED
    BY <2>1, FrontIs
<1>5. right \in Seq(Entries(K, V)) /\ Len(right) = n - i /\ \A k \in 1 .. n - i : right[k] = cache[i + k]
  <2>1. \A k \in i + 1 .. n : cache[k] \in Entries(K, V)
    BY <1>2
  <2>2. i + 1 \in Int /\ n \in Int
    BY <1>2
  <2> HIDE DEF n
  <2>3. /\ SubSeq(cache, i + 1, n) \in Seq(Entries(K, V))
        /\ Len(SubSeq(cache, i + 1, n)) = IF i + 1 <= n THEN n - (i + 1) + 1 ELSE 0
        /\ \A k \in 1 .. n - (i + 1) + 1 : SubSeq(cache, i + 1, n)[k] = cache[i + 1 + k - 1]
    BY <2>1, <2>2, SubSeqProperties
  <2>4. n - (i + 1) + 1 = n - i /\ \A k \in 1 .. n - i : i + 1 + k - 1 = i + k
    BY <1>2
  <2>5. Len(SubSeq(cache, i + 1, n)) = n - i
    BY <2>3, <1>2
  <2> QED
    BY <2>3, <2>4, <2>5 DEF n
<1>6. cache[i] \in Entries(K, V)
  BY <1>2
<1>7. DOMAIN cache = 1 .. n
  OBVIOUS
<1> HIDE DEF left, right, n
<1>8. <<cache[i]>> \o left \in Seq(Entries(K, V)) /\ Len(<<cache[i]>> \o left) = i
      /\ (<<cache[i]>> \o left)[1] = cache[i]
      /\ \A k \in 2 .. i : (<<cache[i]>> \o left)[k] = cache[k - 1]
  BY <1>2, <1>4, <1>6
<1> DEFINE head == <<cache[i]>> \o left
<1>9. head \in Seq(Entries(K, V)) /\ Len(head) = i /\ head[1] = cache[i]
      /\ (\A k \in 2 .. i : head[k] = cache[k - 1]) /\ new = head \o right
  BY <1>8
<1> HIDE DEF head, new
<1>10. new \in Seq(Entries(K, V)) /\ Len(new) = n /\ DOMAIN new = 1 .. n
  <2>a. head \in Seq(Entries(K, V)) /\ right \in Seq(Entries(K, V))
    BY <1>5, <1>9
  <2>1. head \o right \in Seq(Entries(K, V)) /\ Len(head \o right) = Len(head) + Len(right)
    BY <2>a, ConcatProperties
  <2>2. Len(new) = n
    BY <2>1, <1>2, <1>5, <1>9
  <2>3. new \in Seq(Entries(K, V))
    BY <2>1, <1>9
  <2> QED
    BY <2>2, <2>3
<1>11. \A k \in 1 .. i : new[k] = head[k]
  BY <1>2, <1>5, <1>9
<1>12. \A k \in i + 1 .. n : new[k] = cache[k]
  <2> SUFFICES ASSUME NEW k \in i + 1 .. n
               PROVE  new[k] = cache[k]
    OBVIOUS
  <2>1. k - i \in 1 .. n - i /\ i + (k - i) = k
    BY <1>2
  <2>2. new[k] = right[k - i]
    BY <2>1, <1>2, <1>5, <1>9
  <2> QED
    BY <2>1, <2>2, <1>5
<1>13. \A k \in 1 .. n : from(k) \in 1 .. n /\ new[k] = cache[from(k)]
  <2> SUFFICES ASSUME NEW k \in 1 .. n
               PROVE  from(k) \in 1 .. n /\ new[k] = cache[from(k)]
    OBVIOUS
  <2>1. CASE k = 1
    BY <2>1, <1>2, <1>9, <1>11
  <2>2. CASE k # 1 /\ k <= i
    <3>1. k \in 2 .. i /\ k \in 1 .. i
      BY <2>2, <1>2
    <3> QED
      BY <2>2, <3>1, <1>2, <1>9, <1>11
  <2>3. CASE k # 1 /\ ~(k <= i)
    <3>1. k \in i + 1 .. n
      BY <2>3, <1>2
    <3> QED
      BY <2>3, <3>1, <1>12
  <2> QED
    BY <2>1, <2>2, <2>3
<1>14. \A a, b \in 1 .. n : from(a) = from(b) => a = b
  BY <1>2
<1> HIDE DEF from
<1>15. OneEach(new)
  BY <1>7, <1>10, <1>13, <1>14 DEF OneEach
<1>16. new[1].key = key
  BY <1>2, <1>9, <1>11
<1>17. \A k \in DOMAIN new : \E j \in DOMAIN cache : new[k] = cache[j]
  BY <1>7, <1>10, <1>13
<1>18. Len(new) = Len(cache) /\ Len(new) >= 1
  BY <1>2, <1>10 DEF n
<1> QED
  BY <1>3, <1>10, <1>15, <1>16, <1>17, <1>18

\* put: the entries there were, and the new one, within the capacity.
LEMMA PutLastIs ==
  ASSUME NEW K, NEW V, NEW cache \in Seq(Entries(K, V)), NEW key \in K, NEW value \in V,
         NEW capacity \in Nat \ {0}, OneEach(cache), Len(cache) <= capacity
  PROVE  LET new == PutLast(cache, key, value, capacity)
         IN  /\ new \in Seq(Entries(K, V)) /\ Len(new) <= capacity /\ OneEach(new)
             /\ ComesFrom(new, cache, key, value)
<1>1. CASE Place(cache, key) # {}
  <2> DEFINE t == Touched(cache, key)
             new == [t EXCEPT ![1].value = value]
  <2>1. /\ t \in Seq(Entries(K, V)) /\ Len(t) = Len(cache) /\ Len(t) >= 1 /\ t[1].key = key /\ OneEach(t)
        /\ \A i \in DOMAIN t : \E j \in DOMAIN cache : t[i] = cache[j]
    BY <1>1, TouchedIs
  <2>2. PutLast(cache, key, value, capacity) = new
    BY <1>1 DEF PutLast
  <2> HIDE DEF t
  <2>3. t[1] \in Entries(K, V)
    BY <2>1
  <2>4. [t[1] EXCEPT !.value = value] \in Entries(K, V)
        /\ [t[1] EXCEPT !.value = value].key = key /\ [t[1] EXCEPT !.value = value].value = value
    BY <2>1, <2>3 DEF Entries
  <2>5. new = [t EXCEPT ![1] = [t[1] EXCEPT !.value = value]]
    OBVIOUS
  <2> DEFINE e == [t[1] EXCEPT !.value = value]
  <2>6. e \in Entries(K, V) /\ e.key = key /\ e.value = value /\ new = [t EXCEPT ![1] = e]
    BY <2>4, <2>5
  <2> HIDE DEF e, new
  <2>7. /\ new \in Seq(Entries(K, V)) /\ Len(new) = Len(t) /\ DOMAIN new = DOMAIN t
        /\ new[1] = e /\ \A i \in DOMAIN t : i # 1 => new[i] = t[i]
    BY <2>1, <2>6
  <2>8. \A i \in DOMAIN t : new[i].key = t[i].key
    BY <2>1, <2>6, <2>7
  <2>9. OneEach(new)
    BY <2>1, <2>7, <2>8 DEF OneEach
  <2>10. ComesFrom(new, cache, key, value)
    BY <2>1, <2>6, <2>7 DEF ComesFrom
  <2> QED
    BY <2>1, <2>2, <2>7, <2>9, <2>10
<1>2. CASE Place(cache, key) = {}
  <2> DEFINE e == [key |-> key, value |-> value]
             trimmed == IF Len(cache) >= capacity THEN SubSeq(cache, 1, Len(cache) - 1) ELSE cache
             new == <<e>> \o trimmed
  <2>1. PutLast(cache, key, value, capacity) = new
    BY <1>2 DEF PutLast
  <2>2. /\ trimmed \in Seq(Entries(K, V)) /\ Len(trimmed) + 1 <= capacity /\ Len(trimmed) <= Len(cache)
        /\ \A i \in 1 .. Len(trimmed) : trimmed[i] = cache[i]
    <3>1. CASE Len(cache) >= capacity
      <4>1. Len(cache) - 1 \in 0 .. Len(cache)
        BY <3>1
      <4>2. /\ SubSeq(cache, 1, Len(cache) - 1) \in Seq(Entries(K, V))
            /\ Len(SubSeq(cache, 1, Len(cache) - 1)) = Len(cache) - 1
            /\ \A i \in 1 .. Len(cache) - 1 : SubSeq(cache, 1, Len(cache) - 1)[i] = cache[i]
        BY <4>1, FrontIs
      <4> QED
        BY <3>1, <4>2
    <3>2. CASE ~(Len(cache) >= capacity)
      BY <3>2
    <3> QED
      BY <3>1, <3>2
  <2>3. e \in Entries(K, V) /\ e.key = key /\ e.value = value
    BY DEF Entries
  <2> HIDE DEF trimmed, e
  <2>4. new \in Seq(Entries(K, V)) /\ Len(new) = Len(trimmed) + 1 /\ DOMAIN new = 1 .. Len(trimmed) + 1
        /\ new[1] = e /\ \A i \in 2 .. Len(trimmed) + 1 : new[i] = trimmed[i - 1]
    BY <2>2, <2>3
  <2> HIDE DEF new
  <2>5. DOMAIN cache = 1 .. Len(cache) /\ Len(trimmed) \in Nat /\ Len(cache) \in Nat
    BY <2>2
  <2>6. \A i \in 2 .. Len(trimmed) + 1 : i - 1 \in DOMAIN cache /\ new[i] = cache[i - 1]
    <3> SUFFICES ASSUME NEW i \in 2 .. Len(trimmed) + 1
                 PROVE  i - 1 \in DOMAIN cache /\ new[i] = cache[i - 1]
      OBVIOUS
    <3>1. i - 1 \in 1 .. Len(trimmed)
      BY <2>5
    <3> QED
      BY <3>1, <2>2, <2>4, <2>5
  <2>7. \A i \in DOMAIN cache : cache[i].key # key
    BY <1>2 DEF Place
  <2>8. OneEach(new)
    <3> SUFFICES ASSUME NEW i \in DOMAIN new, NEW j \in DOMAIN new, new[i].key = new[j].key
                 PROVE  i = j
      BY DEF OneEach
    <3>1. (i = 1 \/ i \in 2 .. Len(trimmed) + 1) /\ (j = 1 \/ j \in 2 .. Len(trimmed) + 1)
      BY <2>4, <2>5
    <3>2. CASE i \in 2 .. Len(trimmed) + 1 /\ j \in 2 .. Len(trimmed) + 1
      <4>1. i - 1 = j - 1
        BY <3>2, <2>6 DEF OneEach
      <4> QED
        BY <3>2, <4>1, <2>5
    <3>3. CASE i = 1 /\ j \in 2 .. Len(trimmed) + 1
      BY <3>3, <2>3, <2>4, <2>6, <2>7
    <3>4. CASE i \in 2 .. Len(trimmed) + 1 /\ j = 1
      BY <3>4, <2>3, <2>4, <2>6, <2>7
    <3> QED
      BY <3>1, <3>2, <3>3, <3>4
  <2>9. ComesFrom(new, cache, key, value)
    <3> SUFFICES ASSUME NEW i \in DOMAIN new
                 PROVE  \/ \E j \in DOMAIN cache : new[i] = cache[j]
                        \/ new[i].key = key /\ new[i].value = value
      BY DEF ComesFrom
    <3>1. i = 1 \/ i \in 2 .. Len(trimmed) + 1
      BY <2>4, <2>5
    <3> QED
      BY <3>1, <2>3, <2>4, <2>6
  <2> QED
    BY <2>1, <2>2, <2>4, <2>8, <2>9
<1> QED
  BY <1>1, <1>2

-----------------------------------------------------------------------------
(* The steps. *)

\* The caches stay.
LEMMA CacheStill ==
  ASSUME CacheInv, UNCHANGED <<ruleCache, regexCache>>
  PROVE  CacheInv'
BY DEF CacheInv, CachesAreSound, CachesArePlain

\* One thread has gone on.
LEMMA ThreadStep ==
  ASSUME ThreadInv, NEW t \in Appliers, NEW z \in Seq(RuleCalls), NEW w \in Texts, NEW b \in Answers,
         Proper(z, w, b), calls' = [calls EXCEPT ![t] = z], kept' = [kept EXCEPT ![t] = w],
         answers' = [answers EXCEPT ![t] = b],
         jobs' \in [Appliers -> Seq([rule : Phrases, content : Contents])]
  PROVE  ThreadInv'
<1>1. /\ calls \in [Appliers -> Seq(RuleCalls)] /\ kept \in [Appliers -> Texts]
      /\ answers \in [Appliers -> Answers] /\ \A u \in Appliers : Proper(calls[u], kept[u], answers[u])
  BY DEF ThreadInv
<1>2. /\ calls' \in [Appliers -> Seq(RuleCalls)] /\ kept' \in [Appliers -> Texts]
      /\ answers' \in [Appliers -> Answers]
  BY <1>1
<1>3. ASSUME NEW u \in Appliers
      PROVE  Proper(calls'[u], kept'[u], answers'[u])
  <2>1. CASE u = t
    <3>1. calls'[u] = z /\ kept'[u] = w /\ answers'[u] = b
      BY <2>1, <1>1
    <3> QED
      BY <3>1
  <2>2. CASE u # t
    <3>1. calls'[u] = calls[u] /\ kept'[u] = kept[u] /\ answers'[u] = answers[u]
      BY <2>2, <1>1
    <3> QED
      BY <3>1, <1>1
  <2> QED
    BY <2>1, <2>2
<1> QED
  BY <1>2, <1>3 DEF ThreadInv

\* The call at work.
LEMMA AtWork ==
  ASSUME ThreadInv, NEW t \in Appliers, calls[t] # <<>>
  PROVE  /\ calls[t] \in Seq(RuleCalls) /\ kept[t] \in Texts /\ answers[t] \in Answers
         /\ Proper(calls[t], kept[t], answers[t])
         /\ Now(t) = calls[t][Len(calls[t])] /\ Depth(t) = Len(calls[t]) /\ Len(calls[t]) \in Nat \ {0}
         /\ Now(t) \in RuleCalls /\ Now(t).rule \in Phrases /\ Now(t).content \in Contents
         /\ Now(t).at \in Ats /\ Now(t).part \in Nat \ {0}
         /\ Now(t).lists \in Seq(Seq(Texts)) /\ Now(t).items \in Seq(Texts)
         /\ CallShape(Now(t)) /\ SoFar(Now(t), kept[t])
<1>1. /\ calls[t] \in Seq(RuleCalls) /\ kept[t] \in Texts /\ answers[t] \in Answers
      /\ Proper(calls[t], kept[t], answers[t])
  BY DEF ThreadInv
<1>2. Len(calls[t]) \in Nat \ {0}
  BY <1>1, EmptySeq
<1>3. Now(t) = calls[t][Len(calls[t])] /\ Depth(t) = Len(calls[t])
  BY DEF Now, Depth
<1>4. Now(t) \in RuleCalls
  BY <1>1, <1>2, <1>3
<1>5. PICK owed : StackOK(calls[t], kept[t], owed)
  BY <1>1 DEF Proper
<1>6. CallShape(Now(t)) /\ SoFar(Now(t), kept[t])
  BY <1>2, <1>3, <1>5 DEF StackOK, CallsShaped
<1> QED
  BY <1>1, <1>2, <1>3, <1>4, <1>6, CallTyped

\* A thread that keeps its value.
LEMMA StillKept ==
  ASSUME ThreadInv, NEW t \in Appliers
  PROVE  kept = [kept EXCEPT ![t] = kept[t]] /\ answers = [answers EXCEPT ![t] = answers[t]]
         /\ jobs \in [Appliers -> Seq([rule : Phrases, content : Contents])]
BY DEF ThreadInv

\* A thread goes on in its call,
LEMMA StepGoes ==
  ASSUME ThreadInv, NEW t \in Appliers, calls[t] # <<>>, NEW d \in RuleCalls, Goes(t, d),
         d.rule = Now(t).rule, d.content = Now(t).content, CallShape(d), SoFar(d, kept[t]),
         ~Chained[d.rule] => Ahead(d, kept[t]) = Ahead(Now(t), kept[t]),
         UNCHANGED <<kept, jobs, answers>>
  PROVE  ThreadInv'
<1> DEFINE s == calls[t]
           z == [s EXCEPT ![Len(s)] = d]
<1>1. /\ s \in Seq(RuleCalls) /\ kept[t] \in Texts /\ answers[t] \in Answers
      /\ Proper(s, kept[t], answers[t]) /\ Now(t) = s[Len(s)] /\ Depth(t) = Len(s)
  BY AtWork
<1>2. z \in Seq(RuleCalls) /\ Proper(z, kept[t], answers[t])
  <2> HIDE DEF s
  <2> QED
    BY <1>1, GoingIsProper DEF s
<1>3. calls' = [calls EXCEPT ![t] = z]
  BY <1>1 DEF Goes
<1> HIDE DEF z
<1>4. /\ kept' = [kept EXCEPT ![t] = kept[t]] /\ answers' = [answers EXCEPT ![t] = answers[t]]
      /\ jobs' \in [Appliers -> Seq([rule : Phrases, content : Contents])]
  BY StillKept
<1> QED
  BY <1>1, <1>2, <1>3, <1>4, ThreadStep

\* enters an inner one,
LEMMA StepCalls ==
  ASSUME ThreadInv, NEW t \in Appliers, calls[t] # <<>>, NEW r \in Phrases, Calls(t, Now(t), r),
         Waits(Now(t), Call(r, Now(t).content)), Plain(Now(t).rule) => Still(r),
         ~Chained[Now(t).rule] =>
            Ahead(Now(t), kept[t]) = Behind(Now(t), kept[t], Says[r][Now(t).content][kept[t]].items),
         UNCHANGED <<kept, jobs, answers>>
  PROVE  ThreadInv'
<1> DEFINE s == calls[t]
           z == Append(SubSeq(s, 1, Len(s) - 1), s[Len(s)]) \o <<Call(r, s[Len(s)].content)>>
<1>1. /\ s \in Seq(RuleCalls) /\ kept[t] \in Texts /\ answers[t] \in Answers
      /\ Proper(s, kept[t], answers[t]) /\ Now(t) = s[Len(s)] /\ Depth(t) = Len(s)
  BY AtWork
<1>2. z \in Seq(RuleCalls) /\ Proper(z, kept[t], answers[t])
  BY <1>1, CallingIsProper
<1>3. calls' = [calls EXCEPT ![t] = z]
  BY <1>1 DEF Calls
<1> HIDE DEF z
<1>4. /\ kept' = [kept EXCEPT ![t] = kept[t]] /\ answers' = [answers EXCEPT ![t] = answers[t]]
      /\ jobs' \in [Appliers -> Seq([rule : Phrases, content : Contents])]
  BY StillKept
<1> QED
  BY <1>1, <1>2, <1>3, <1>4, ThreadStep

\* or returns from it with what the rule says.
LEMMA StepReturns ==
  ASSUME ThreadInv, NEW t \in Appliers, calls[t] # <<>>, NEW items \in Seq(Texts), Returns(t, items),
         ~Chained[Now(t).rule] => items = Ahead(Now(t), kept[t]),
         UNCHANGED <<kept, jobs>>
  PROVE  ThreadInv'
<1> DEFINE s == calls[t]
<1>1. /\ s \in Seq(RuleCalls) /\ kept[t] \in Texts /\ answers[t] \in Answers /\ Len(s) \in Nat \ {0}
      /\ Proper(s, kept[t], answers[t]) /\ Now(t) = s[Len(s)] /\ Depth(t) = Len(s)
  BY AtWork
<1>2. /\ kept' = [kept EXCEPT ![t] = kept[t]] /\ answers = [answers EXCEPT ![t] = answers[t]]
      /\ jobs' \in [Appliers -> Seq([rule : Phrases, content : Contents])]
  BY StillKept
<1>3. CASE Len(s) = 1
  <2> DEFINE b == [answers[t] EXCEPT !.items = items]
  <2>1. b \in Answers /\ b.rule = answers[t].rule /\ b.content = answers[t].content
        /\ b.kept = answers[t].kept /\ b.items = items
    BY <1>1 DEF Answers
  <2>2. calls' = [calls EXCEPT ![t] = <<>>] /\ answers' = [answers EXCEPT ![t].items = items]
    BY <1>1, <1>3 DEF Returns
  <2>3. answers' = [answers EXCEPT ![t] = b]
    BY <2>2
  <2> HIDE DEF b
  <2>4. Proper(<<>>, kept[t], b)
    BY <1>1, <1>3, <2>1, AnswerIsProper
  <2>5. <<>> \in Seq(RuleCalls)
    BY EmptySeq
  <2> QED
    BY <1>1, <1>2, <2>1, <2>2, <2>3, <2>4, <2>5, ThreadStep
<1>4. CASE Len(s) # 1
  <2> DEFINE z == [SubSeq(s, 1, Len(s) - 1) EXCEPT ![Len(s) - 1] = Resumed(s[Len(s) - 1], items)]
  <2>a. Len(s) \in Nat \ {0} /\ Depth(t) = Len(s) /\ s \in Seq(RuleCalls)
    BY <1>1
  <2>0. Len(s) > 1 /\ Len(s) - 1 # 0 /\ Depth(t) - 1 = Len(s) - 1
    <3> HIDE DEF s
    <3>1. Len(s) # 1
      BY <1>4
    <3> QED
      BY <2>a, <3>1
  <2>1. z \in Seq(RuleCalls) /\ Proper(z, kept[t], answers[t])
    <3> HIDE DEF s
    <3> QED
      BY <1>1, <2>0, ReturnIsProper
  <2>2. calls' = [calls EXCEPT ![t] = z] /\ answers' = answers
    <3>1. LET below == Depth(t) - 1
          IN  /\ calls' = [calls EXCEPT ![t] = [SubSeq(calls[t], 1, below) EXCEPT ![below] = Resumed(calls[t][below], items)]]
              /\ answers' = answers
      BY <2>0 DEF Returns
    <3> QED
      BY <2>0, <3>1
  <2> HIDE DEF z
  <2>3. answers' = [answers EXCEPT ![t] = answers[t]]
    BY <1>2, <2>2
  <2>4. kept[t] \in Texts /\ answers[t] \in Answers
    BY <1>1
  <2>5. calls' = [calls EXCEPT ![t] = z]
    BY <2>2
  <2> HIDE DEF s
  <2> QED
    BY <1>2, <2>1, <2>3, <2>4, <2>5, ThreadStep
<1> QED
  BY <1>3, <1>4

\* The first item of a list.
LEMMA FirstIn == ASSUME NEW X, NEW s \in Seq(X), s # <<>> PROVE s[1] \in X
OBVIOUS

\* Nothing is replaced in nothing.
LEMMA NothingRedacted == ASSUME NEW pattern PROVE Redacted(<<>>, pattern) = <<>>
<1> DEFINE f == [i \in DOMAIN <<>> |-> Append(<<>>[i], pattern)]
<1>1. f \in Seq(Texts) /\ Len(f) = 0
  OBVIOUS
<1>2. f = <<>>
  BY <1>1, EmptySeq
<1>3. Redacted(<<>>, pattern) = IF pattern \in {NoPattern, Bad} THEN <<>> ELSE f
  BY DEF Redacted
<1> QED
  BY <1>2, <1>3

\* What @put says, by the meaning of its inner rules;
LEMMA SaysPut ==
  ASSUME NEW rule \in Phrases, rule.is = "put", NEW c \in Contents, NEW v \in Texts
  PROVE  Says[rule][c][v] = Says[rule.rest][c][Pick1(Says[rule.of][c][v].items)]
<1>1. Says[rule] = Saying(Says, rule)
  BY SaysIs
<1>2. Saying(Says, rule)[c][v] = Says[rule.rest][c][Pick1(Says[rule.of][c][v].items)]
  BY SayingPut
<1> QED
  BY <1>1, <1>2

\* what a template says,
LEMMA SaysTemplate ==
  ASSUME NEW rule \in Phrases, rule.is = "template", NEW c \in Contents, NEW v \in Texts
  PROVE  Says[rule][c][v].items = Templated(Says[rule.of][c][v].items)
<1>1. Says[rule] = Saying(Says, rule)
  BY SaysIs
<1>2. Saying(Says, rule)[c][v] = [items |-> Templated(Says[rule.of][c][v].items), kept |-> Says[rule.of][c][v].kept]
  BY SayingTemplate
<1> QED
  BY <1>1, <1>2

\* and rules joined by an operator.
LEMMA SaysJoin ==
  ASSUME NEW rule \in Phrases, rule.is = "join", NEW c \in Contents, NEW v \in Texts
  PROVE  Says[rule][c][v].items = Lined(rule.type, Lists(Says, rule, c, v))
<1>1. Says[rule] = Saying(Says, rule)
  BY SaysIs
<1>2. Saying(Says, rule)[c][v] = [items |-> Lined(rule.type, Lists(Says, rule, c, v)), kept |-> v]
  BY SayingJoin
<1> QED
  BY <1>1, <1>2

\* A rule without a pattern replaces nothing.
LEMMA PatternTyped ==
  ASSUME NEW rule \in Phrases, NEW items \in Seq(Texts)
  PROVE  Redacted(items, Pattern(rule)) \in Seq(Texts)
<1>1. CASE rule.is = "redact"
  BY <1>1, BodyIs, RedactedTyped
<1>2. CASE rule.is # "redact"
  BY <1>2, BodyIs DEF Redacted
<1> QED
  BY <1>1, <1>2

\* A thread takes its next job.
LEMMA StepBegin ==
  ASSUME RuleInv, NEW t \in Appliers, Begin(t)
  PROVE  RuleInv'
<1> DEFINE first == jobs[t][1]
           b == [rule |-> first.rule, content |-> first.content, kept |-> kept[t], items |-> <<>>]
<1>1. ThreadInv /\ CacheInv
  BY DEF RuleInv
<1>2. jobs[t] \in Seq([rule : Phrases, content : Contents]) /\ jobs[t] # <<>> /\ kept[t] \in Texts
  BY <1>1 DEF ThreadInv, Begin
<1>3. first \in [rule : Phrases, content : Contents]
  BY <1>2, FirstIn
<1>4. first.rule \in Phrases /\ first.content \in Contents
  BY <1>3
<1>5. b \in Answers /\ b.rule = first.rule /\ b.content = first.content /\ b.kept = kept[t]
  BY <1>2, <1>4, TextsJoin, SelectorsGiveTexts DEF Answers
<1>6. /\ <<Call(first.rule, first.content)>> \in Seq(RuleCalls)
      /\ Proper(<<Call(first.rule, first.content)>>, kept[t], b)
  <2> HIDE DEF b, first
  <2> QED
    BY <1>2, <1>4, <1>5, BeginningIsProper
<1>7. /\ calls' = [calls EXCEPT ![t] = <<Call(first.rule, first.content)>>]
      /\ answers' = [answers EXCEPT ![t] = b]
      /\ kept' = kept /\ jobs' = [jobs EXCEPT ![t] = Tail(@)]
      /\ UNCHANGED <<ruleCache, regexCache>>
  BY DEF Begin
<1>8. jobs' \in [Appliers -> Seq([rule : Phrases, content : Contents])]
  <2>1. Tail(jobs[t]) \in Seq([rule : Phrases, content : Contents])
    BY <1>2
  <2> QED
    BY <2>1, <1>1, <1>7 DEF ThreadInv
<1>9. kept' = [kept EXCEPT ![t] = kept[t]]
  BY <1>1, <1>7, StillKept
<1> HIDE DEF b, first
<1>10. ThreadInv'
  BY <1>1, <1>2, <1>5, <1>6, <1>7, <1>8, <1>9, ThreadStep
<1> QED
  BY <1>1, <1>7, <1>10, CacheStill DEF RuleInv

\* A rule without an operator goes to its work.
LEMMA StepWhole ==
  ASSUME RuleInv, NEW t \in Appliers, Whole(t)
  PROVE  RuleInv'
<1> DEFINE c == Now(t)
           items == <<Run(<<c.content>>, kept[t])>>
<1>1. ThreadInv /\ CacheInv /\ calls[t] # <<>> /\ c.at = "enter" /\ c.rule.is = "script"
      /\ Returns(t, items) /\ UNCHANGED <<ruleCache, regexCache, kept, jobs>>
  BY DEF RuleInv, Whole
<1>2. c.rule \in Phrases /\ c.content \in Contents /\ kept[t] \in Texts
  BY <1>1, AtWork
<1>3. items \in Seq(Texts)
  <2>1. c.content \in STRING
    BY <1>2, SelectorsGiveTexts, Zenon
  <2>2. <<c.content>> \in Texts
    BY <2>1, TextsJoin
  <2>3. Run(<<c.content>>, kept[t]) \in Texts
    BY <2>2, <1>2, RunTyped
  <2> QED
    BY <2>3, TextsJoin
<1>4. items = Ahead(c, kept[t])
  <2>1. Says[c.rule][c.content][kept[t]] = [items |-> items, kept |-> kept[t]]
    BY <1>1, <1>2, SaysIs, SayingScript
  <2> QED
    BY <2>1, <1>1 DEF Ahead
<1> HIDE DEF items
<1>5. ThreadInv'
  BY <1>1, <1>3, <1>4, StepReturns
<1> QED
  BY <1>1, <1>5, CacheStill DEF RuleInv

\* @get returns the kept value.
LEMMA StepKept ==
  ASSUME RuleInv, NEW t \in Appliers, Kept(t)
  PROVE  RuleInv'
<1> DEFINE c == Now(t)
           items == IF kept[t] = Empty THEN <<>> ELSE <<kept[t]>>
<1>1. ThreadInv /\ CacheInv /\ calls[t] # <<>> /\ c.at = "enter" /\ c.rule.is = "get"
      /\ Returns(t, items) /\ UNCHANGED <<ruleCache, regexCache, kept, jobs>>
  BY DEF RuleInv, Kept
<1>2. c.rule \in Phrases /\ c.content \in Contents /\ kept[t] \in Texts
  BY <1>1, AtWork
<1>3. items \in Seq(Texts)
  BY <1>2, TextsJoin
<1>4. items = Ahead(c, kept[t])
  <2>1. Says[c.rule][c.content][kept[t]] = [items |-> items, kept |-> kept[t]]
    BY <1>1, <1>2, SaysIs, SayingGet
  <2> QED
    BY <2>1, <1>1 DEF Ahead
<1> HIDE DEF items
<1>5. ThreadInv'
  BY <1>1, <1>3, <1>4, StepReturns
<1> QED
  BY <1>1, <1>5, CacheStill DEF RuleInv

\* A template returns.
LEMMA StepTemplateDone ==
  ASSUME RuleInv, NEW t \in Appliers, TemplateDone(t)
  PROVE  RuleInv'
<1> DEFINE c == Now(t)
           text == OneText(c.lists[1])
           items == IF text = Empty THEN <<>> ELSE Redacted(<<text>>, Pattern(c.rule))
<1>1. ThreadInv /\ CacheInv /\ calls[t] # <<>> /\ c.at = "back" /\ Patterned(c.rule)
      /\ Returns(t, items) /\ UNCHANGED <<ruleCache, regexCache, kept, jobs>>
  BY DEF RuleInv, TemplateDone, Patterned
<1>2. c.rule \in Phrases /\ c.content \in Contents /\ kept[t] \in Texts /\ c.lists \in Seq(Seq(Texts))
      /\ CallShape(c)
  BY <1>1, AtWork
<1>3. c.rule.is # "put" /\ ~Joint(c.rule)
  BY <1>1, <1>2, KindsDiffer
<1>4. Len(c.lists) = 1
  BY <1>1, <1>2, <1>3 DEF CallShape
<1>5. c.lists[1] \in Seq(Texts)
  BY <1>2, <1>4
<1>6. items = Redacted(Templated(c.lists[1]), Pattern(c.rule))
  BY NothingRedacted DEF Templated
<1>7. Templated(c.lists[1]) \in Seq(Texts)
  BY <1>5, TemplatedTyped
<1> HIDE DEF items
<1>8. items \in Seq(Texts)
  BY <1>2, <1>6, <1>7, PatternTyped
<1>9. items = Ahead(c, kept[t])
  BY <1>1, <1>3, <1>6 DEF Ahead
<1>10. ThreadInv'
  BY <1>1, <1>8, <1>9, StepReturns
<1> QED
  BY <1>1, <1>10, CacheStill DEF RuleInv

\* An inner rule is entered.
LEMMA StepInner ==
  ASSUME RuleInv, NEW t \in Appliers, Inner(t)
  PROVE  RuleInv'
<1> DEFINE c == Now(t)
           r == Body(Now(t).rule).of
<1>1. ThreadInv /\ CacheInv /\ calls[t] # <<>> /\ c.at = "enter" /\ Body(c.rule).is \in {"put", "template"}
      /\ Calls(t, c, r) /\ UNCHANGED <<ruleCache, regexCache, kept, jobs, answers>>
  BY DEF RuleInv, Inner
<1>2. c.rule \in Phrases /\ c.content \in Contents /\ kept[t] \in Texts
  BY <1>1, AtWork
<1>3. Body(c.rule) \in Phrases /\ (Chained[Body(c.rule)] => Chained[c.rule])
  BY <1>2, BodyIs
<1>4. r \in Phrases /\ r \in Inners(Body(c.rule))
  BY <1>1, <1>3, PhraseShape
<1>5. Chained[r] => Chained[c.rule]
  BY <1>3, <1>4, ChainedIs
<1>6. ~Plain(c.rule)
  BY <1>1 DEF Plain
<1>7. c.rule.is = "put" \/ Patterned(c.rule)
  BY <1>1, <1>2, BodyIs DEF Patterned
<1>8. Waits(c, Call(r, c.content))
  <2>1. Call(r, c.content).rule = r /\ Call(r, c.content).content = c.content
    BY <1>2, <1>4, CallIsNew
  <2> QED
    BY <2>1, <1>1, <1>5, <1>7 DEF Waits
<1>9. Ahead(c, kept[t]) = Behind(c, kept[t], Says[r][c.content][kept[t]].items)
  <2>1. Ahead(c, kept[t]) = Says[c.rule][c.content][kept[t]].items
    BY <1>1 DEF Ahead
  <2>2. CASE c.rule.is = "put"
    <3>1. r = c.rule.of
      BY <2>2 DEF Body
    <3>2. Says[c.rule][c.content][kept[t]]
            = Says[c.rule.rest][c.content][Pick1(Says[c.rule.of][c.content][kept[t]].items)]
      BY <2>2, <1>2, SaysPut
    <3> QED
      BY <2>1, <2>2, <3>1, <3>2 DEF Behind
  <2>3. CASE c.rule.is # "put" /\ Patterned(c.rule)
    <3>1. Says[Body(c.rule)][c.content][kept[t]].items = Templated(Says[r][c.content][kept[t]].items)
      BY <2>3, <1>2, <1>3, SaysTemplate DEF Patterned
    <3>2. Says[c.rule][c.content][kept[t]].items
            = Redacted(Says[Body(c.rule)][c.content][kept[t]].items, Pattern(c.rule))
      BY <1>2, SaysRedacted
    <3> QED
      BY <2>1, <2>3, <3>1, <3>2 DEF Behind
  <2> QED
    BY <2>2, <2>3, <1>7
<1> HIDE DEF r
<1>10. ThreadInv'
  BY <1>1, <1>4, <1>6, <1>8, <1>9, StepCalls
<1> QED
  BY <1>1, <1>10, CacheStill DEF RuleInv

\* @put keeps what its rule gave, and goes on with the rest.
LEMMA StepPutDone ==
  ASSUME RuleInv, NEW t \in Appliers, PutDone(t)
  PROVE  RuleInv'
<1> DEFINE s == calls[t]
           c == Now(t)
           w == Pick1(Now(t).lists[1])
           z == [s EXCEPT ![Len(s)] = Call(s[Len(s)].rule.rest, s[Len(s)].content)]
<1>1. ThreadInv /\ CacheInv /\ calls[t] # <<>> /\ c.at = "back" /\ c.rule.is = "put"
      /\ kept' = [kept EXCEPT ![t] = w] /\ Goes(t, Call(c.rule.rest, c.content))
      /\ UNCHANGED <<ruleCache, regexCache, jobs, answers>>
  BY DEF RuleInv, PutDone, Pick1
<1>2. /\ s \in Seq(RuleCalls) /\ kept[t] \in Texts /\ answers[t] \in Answers /\ Proper(s, kept[t], answers[t])
      /\ c = s[Len(s)] /\ Depth(t) = Len(s) /\ c.rule \in Phrases /\ c.lists \in Seq(Seq(Texts)) /\ CallShape(c)
  BY <1>1, AtWork
<1>3. ~Joint(c.rule)
  BY <1>1, <1>2, KindsDiffer
<1>4. Len(c.lists) = 1
  BY <1>1, <1>2, <1>3 DEF CallShape
<1>5. w \in Texts
  BY <1>2, <1>4, Pick1Typed
<1>6. z \in Seq(RuleCalls) /\ Proper(z, w, answers[t])
  <2> HIDE DEF s, w
  <2>1. s[Len(s)].at = "back" /\ s[Len(s)].rule.is = "put" /\ w = Pick1(s[Len(s)].lists[1]) /\ s # <<>>
    BY <1>1, <1>2 DEF s, w
  <2> QED
    BY <1>2, <1>5, <2>1, RestIsProper
<1>7. calls' = [calls EXCEPT ![t] = z]
  BY <1>1, <1>2 DEF Goes
<1>8. answers' = [answers EXCEPT ![t] = answers[t]]
      /\ jobs' \in [Appliers -> Seq([rule : Phrases, content : Contents])]
  BY <1>1, StillKept
<1> HIDE DEF z, w
<1>9. ThreadInv'
  BY <1>1, <1>2, <1>5, <1>6, <1>7, <1>8, ThreadStep
<1> QED
  BY <1>1, <1>9, CacheStill DEF RuleInv

\* Results that are cached are those of any value kept.
LEMMA CachedSays ==
  ASSUME NEW rule \in Phrases, rule.is \in {"select", "chain", "join"}, ~Chained[rule],
         NEW c \in Contents, NEW v \in Texts, NEW w \in Texts
  PROVE  Says[rule][c][v].items = Says[rule][c][w].items
<1>1. rule.is # "chain"
  BY ChainedIs
<1>2. Steady(rule)
  BY <1>1, CachedIsSteady
<1> QED
  BY <1>2 DEF Steady

\* An entry of the cache of results.
CachedOK(e) ==
    /\ e.key.rule.is \in {"select", "chain", "join"} /\ e.value # <<>>
    /\ ~Chained[e.key.rule] => e.value = Says[e.key.rule][e.key.content][Empty].items
\* What the invariant says of the caches.
LEMMA CachedEntries ==
  CacheInv <=>
    /\ ruleCache \in Seq(Entries([rule : Phrases, content : Contents], Seq(Texts)))
    /\ regexCache \in Seq(Entries(STRING, {TRUE}))
    /\ Len(ruleCache) <= RuleCapacity /\ Len(regexCache) <= RegexCapacity
    /\ OneEach(ruleCache) /\ OneEach(regexCache)
    /\ \A i \in DOMAIN ruleCache : CachedOK(ruleCache[i])
BY DEF CacheInv, CachesAreSound, CachesArePlain, Entries, OneEach, CachedOK

\* The same of the caches after a step.
LEMMA CachedEntriesNext ==
  ASSUME ruleCache' \in Seq(Entries([rule : Phrases, content : Contents], Seq(Texts))),
         regexCache' \in Seq(Entries(STRING, {TRUE})),
         Len(ruleCache') <= RuleCapacity, Len(regexCache') <= RegexCapacity,
         OneEach(ruleCache'), OneEach(regexCache'),
         \A i \in DOMAIN ruleCache' : CachedOK(ruleCache'[i])
  PROVE  CacheInv'
BY DEF CacheInv, CachesAreSound, CachesArePlain, Entries, OneEach, CachedOK

\* The rule cache is looked into.
LEMMA StepLook ==
  ASSUME RuleInv, NEW t \in Appliers, Look(t)
  PROVE  RuleInv'
<1> DEFINE c == Now(t)
           key == Key(c)
           hit == Place(ruleCache, key) # {}
           new == Touched(ruleCache, key)
<1>1. ThreadInv /\ CacheInv /\ calls[t] # <<>> /\ c.at = "enter" /\ Plain(c.rule)
      /\ ruleCache' = (IF hit THEN new ELSE ruleCache)
      /\ Goes(t, IF hit THEN [c EXCEPT !.at = "redact", !.items = new[1].value] ELSE [c EXCEPT !.at = "work"])
      /\ UNCHANGED <<regexCache, kept, jobs, answers>>
  BY DEF RuleInv, Look
<1>2. c \in RuleCalls /\ c.rule \in Phrases /\ c.content \in Contents /\ kept[t] \in Texts
  BY <1>1, AtWork
<1>3. Ahead(c, kept[t]) = Says[c.rule][c.content][kept[t]].items
  BY <1>1 DEF Ahead
<1>4. c.lists = <<>> /\ c.part = 1
  <2>1. CallShape(c)
    BY <1>1, AtWork
  <2> QED
    BY <2>1, <1>1 DEF CallShape
<1>5. Body(c.rule) \in Phrases /\ (Chained[Body(c.rule)] => Chained[c.rule])
  BY <1>2, BodyIs
<1>6. key.rule = Body(c.rule) /\ key.content = c.content
  BY DEF Key
<1>7. CASE ~hit
  <2> DEFINE d == [c EXCEPT !.at = "work"]
  <2>1. /\ d \in RuleCalls /\ d.rule = c.rule /\ d.content = c.content /\ d.at = "work"
        /\ d.part = c.part /\ d.lists = c.lists
    BY <1>2, MadeWork
  <2>2. Goes(t, d) /\ ruleCache' = ruleCache
    BY <1>1, <1>7
  <2> HIDE DEF d
  <2>3. Len(d.lists) = 0 /\ d.part = 1
    BY <2>1, <1>4
  <2>4. CallShape(d)
    <3>1. Joint(d.rule) => 1 <= Len(Body(d.rule).parts)
      BY <2>1, <1>2, KindsDiffer, PartsShape
    <3>2. Plain(d.rule)
      BY <2>1, <1>1
    <3>3. d.at = "work"
      BY <2>1
    <3> QED
      BY <2>3, <3>1, <3>2, <3>3 DEF CallShape
  <2>5. SoFar(d, kept[t])
    <3>1. PartsSaid(d, kept[t])
      BY <2>3 DEF PartsSaid
    <3> QED
      BY <2>1, <3>1 DEF SoFar
  <2>6. Ahead(d, kept[t]) = Ahead(c, kept[t])
    BY <2>1, <1>3 DEF Ahead
  <2>7. ThreadInv'
    BY <2>1, <2>2, <2>4, <2>5, <2>6, <1>1, StepGoes
  <2> QED
    BY <2>2, <2>7, <1>1, CacheStill DEF RuleInv
<1>8. CASE hit
  <2> DEFINE K == [rule : Phrases, content : Contents]
             V == Seq(Texts)
  <2>1. /\ ruleCache \in Seq(Entries(K, V)) /\ regexCache \in Seq(Entries(STRING, {TRUE}))
        /\ Len(ruleCache) <= RuleCapacity /\ Len(regexCache) <= RegexCapacity
        /\ OneEach(ruleCache) /\ OneEach(regexCache)
        /\ \A i \in DOMAIN ruleCache : CachedOK(ruleCache[i])
    BY <1>1, CachedEntries
  <2>2. /\ new \in Seq(Entries(K, V)) /\ Len(new) = Len(ruleCache) /\ Len(new) >= 1
        /\ new[1].key = key /\ OneEach(new)
        /\ \A i \in DOMAIN new : \E j \in DOMAIN ruleCache : new[i] = ruleCache[j]
    <3> HIDE DEF K, V, key
    <3> QED
      BY <2>1, <1>8, TouchedIs
  <2>3. ruleCache' = new /\ regexCache' = regexCache
    BY <1>1, <1>8
  <2> DEFINE d == [c EXCEPT !.at = "redact", !.items = new[1].value]
  <2>4. Goes(t, d)
    BY <1>1, <1>8
  <2> HIDE DEF new, key
  <2>5. \A i \in DOMAIN new : CachedOK(new[i])
    BY <2>1, <2>2
  <2>6. CacheInv'
    <3> HIDE DEF hit
    <3>1. ruleCache' \in Seq(Entries(K, V)) /\ Len(ruleCache') <= RuleCapacity /\ OneEach(ruleCache')
      BY <2>1, <2>2, <2>3
    <3>2. regexCache' \in Seq(Entries(STRING, {TRUE})) /\ Len(regexCache') <= RegexCapacity /\ OneEach(regexCache')
      BY <2>1, <2>3
    <3>3. \A i \in DOMAIN ruleCache' : CachedOK(ruleCache'[i])
      BY <2>3, <2>5
    <3> QED
      BY <3>1, <3>2, <3>3, CachedEntriesNext
  <2>7. 1 \in DOMAIN new /\ new[1] \in Entries(K, V)
    BY <2>2
  <2>8. new[1].value \in Seq(Texts)
    BY <2>7 DEF Entries
  <2>9. /\ d \in RuleCalls /\ d.rule = c.rule /\ d.content = c.content /\ d.at = "redact"
        /\ d.items = new[1].value
    BY <2>8, <1>2, MadeRedact
  <2> HIDE DEF d
  <2>10. CallShape(d)
    BY <2>9, <1>1 DEF CallShape
  <2>11. SoFar(d, kept[t])
    <3> SUFFICES ASSUME ~Chained[c.rule]
                 PROVE  d.items = Says[Body(c.rule)][c.content][kept[t]].items
      BY <2>9 DEF SoFar
    <3>1. CachedOK(new[1]) /\ new[1].key = key
      BY <2>2, <2>5, <2>7
    <3>2. /\ new[1].value = Says[Body(c.rule)][c.content][Empty].items
          /\ Body(c.rule).is \in {"select", "chain", "join"}
      BY <3>1, <1>5, <1>6 DEF CachedOK
    <3>3. Empty \in Texts
      BY TextsJoin DEF Empty
    <3>4. Says[Body(c.rule)][c.content][Empty].items = Says[Body(c.rule)][c.content][kept[t]].items
      BY <3>2, <3>3, <1>2, <1>5, CachedSays
    <3> QED
      BY <3>2, <3>4, <2>9
  <2>12. Ahead(d, kept[t]) = Ahead(c, kept[t])
    BY <2>9, <1>3 DEF Ahead
  <2>13. ThreadInv'
    BY <2>4, <2>9, <2>10, <2>11, <2>12, <1>1, StepGoes
  <2> QED
    BY <2>6, <2>13 DEF RuleInv
<1> QED
  BY <1>7, <1>8

\* A selector is applied.
LEMMA StepApply ==
  ASSUME RuleInv, NEW t \in Appliers, Apply(t)
  PROVE  RuleInv'
<1> DEFINE c == Now(t)
           rule == Body(Now(t).rule)
           hits == Found(Body(Now(t).rule).ways, Now(t).content)
           items == IF rule.is = "select" THEN hits ELSE Ran(hits, kept[t])
           d == [c EXCEPT !.at = "store", !.items = items]
<1>1. ThreadInv /\ CacheInv /\ calls[t] # <<>> /\ c.at = "work" /\ rule.is \in {"select", "chain"}
      /\ Goes(t, d) /\ UNCHANGED <<ruleCache, regexCache, kept, jobs, answers>>
  BY DEF RuleInv, Apply, Ran
<1>2. c \in RuleCalls /\ c.rule \in Phrases /\ c.content \in Contents /\ kept[t] \in Texts
  BY <1>1, AtWork
<1>3. rule \in Phrases /\ (Chained[rule] => Chained[c.rule])
  BY <1>2, BodyIs
<1>4. hits \in Seq(Texts)
  <2>1. rule.ways \in Seq(DOMAIN Finds)
    BY <1>1, <1>3, PhraseShape
  <2> QED
    BY <2>1, <1>2, FoundTyped
<1> HIDE DEF hits
<1>5. Ran(hits, kept[t]) \in Seq(Texts)
  <2> DEFINE run == Ran(hits, kept[t])
  <2>1. DOMAIN hits = 1 .. Len(hits) /\ Len(hits) \in Nat
    BY <1>4
  <2>2. \A i \in 1 .. Len(hits) : Run(hits[i], kept[t]) \in Texts
    BY <2>1, <1>2, <1>4, RunTyped
  <2>3. run = [i \in 1 .. Len(hits) |-> run[i]] /\ \A i \in 1 .. Len(hits) : run[i] \in Texts
    BY <2>1, <2>2 DEF Ran
  <2> HIDE DEF run
  <2>4. run \in Seq(Texts)
    BY <2>1, <2>3, AsSequence
  <2> QED
    BY <2>4 DEF run
<1>6. items \in Seq(Texts)
  BY <1>4, <1>5
<1>7. ~Chained[c.rule] => items = Says[rule][c.content][kept[t]].items
  <2> SUFFICES ASSUME ~Chained[c.rule]
               PROVE  items = Says[rule][c.content][kept[t]].items
    OBVIOUS
  <2>1. rule.is = "select"
    BY <1>1, <1>3, ChainedIs
  <2>2. Says[rule] = Saying(Says, rule)
    BY <1>3, SaysIs
  <2>3. Saying(Says, rule)[c.content][kept[t]] = [items |-> Found(rule.ways, c.content), kept |-> kept[t]]
    BY <2>1, <1>2, SayingSelect
  <2>4. items = Found(rule.ways, c.content)
    BY <2>1 DEF hits
  <2> QED
    BY <2>2, <2>3, <2>4
<1> HIDE DEF items
<1>8. /\ d \in RuleCalls /\ d.rule = c.rule /\ d.content = c.content /\ d.at = "store" /\ d.items = items
  BY <1>2, <1>6, MadeStore
<1> HIDE DEF d
<1>9. Plain(c.rule) /\ c.rule.is # "put" /\ ~Patterned(c.rule)
  BY <1>1, <1>2, KindsDiffer DEF Plain
<1>10. CallShape(d)
  BY <1>8, <1>9 DEF CallShape
<1>11. SoFar(d, kept[t])
  BY <1>7, <1>8 DEF SoFar
<1>12. Ahead(d, kept[t]) = Ahead(c, kept[t])
  BY <1>1, <1>8 DEF Ahead
<1>13. ThreadInv'
  BY <1>1, <1>8, <1>10, <1>11, <1>12, StepGoes
<1> QED
  BY <1>1, <1>13, CacheStill DEF RuleInv

\* A part of a joined rule is entered ...
LEMMA StepPart ==
  ASSUME RuleInv, NEW t \in Appliers, Part(t)
  PROVE  RuleInv'
<1> DEFINE c == Now(t)
           r == Body(Now(t).rule).parts[Now(t).part]
<1>1. ThreadInv /\ CacheInv /\ calls[t] # <<>> /\ c.at = "work" /\ Joint(c.rule)
      /\ Calls(t, c, r) /\ UNCHANGED <<ruleCache, regexCache, kept, jobs, answers>>
  BY DEF RuleInv, Part, Joint
<1>2. c.rule \in Phrases /\ c.content \in Contents /\ kept[t] \in Texts /\ c.part \in Nat \ {0} /\ CallShape(c)
  BY <1>1, AtWork
<1>3. Body(c.rule) \in Phrases /\ (Chained[Body(c.rule)] => Chained[c.rule])
  BY <1>2, BodyIs
<1>4. Body(c.rule).is = "join" /\ c.rule.is # "put" /\ ~Patterned(c.rule)
  BY <1>1, <1>2, KindsDiffer
<1>5. c.part \in 1 .. Len(Body(c.rule).parts)
  <2>1. Len(Body(c.rule).parts) \in Nat
    BY <1>3, <1>4, PartsShape
  <2>2. c.part <= Len(Body(c.rule).parts)
    BY <1>1, <1>2 DEF CallShape
  <2> QED
    BY <2>1, <2>2, <1>2
<1>6. r \in Inners(Body(c.rule)) /\ r \in Phrases /\ r.is \in {"select", "chain", "join", "script"}
  BY <1>3, <1>4, <1>5, PartsShape
<1>7. Chained[r] => Chained[c.rule]
  BY <1>3, <1>6, ChainedIs
<1>8. Still(r)
  <2>1. r.is # "redact" => Body(r) = r
    BY DEF Body
  <2> QED
    BY <2>1, <1>6 DEF Still, Plain
<1>9. Waits(c, Call(r, c.content))
  <2>1. Call(r, c.content).rule = r /\ Call(r, c.content).content = c.content
    BY <1>2, <1>6, CallIsNew
  <2> QED
    BY <2>1, <1>1, <1>7 DEF Waits
<1>10. Ahead(c, kept[t]) = Behind(c, kept[t], Says[r][c.content][kept[t]].items)
  BY <1>1, <1>4 DEF Ahead, Behind
<1> HIDE DEF r
<1>11. ThreadInv'
  BY <1>1, <1>6, <1>8, <1>9, <1>10, StepCalls
<1> QED
  BY <1>1, <1>11, CacheStill DEF RuleInv

\* What the parts have said so far is what a joint rule says, if it is enough.
LEMMA PartsSuffice ==
  ASSUME NEW rule \in Phrases, rule.is = "join", NEW content \in Contents, NEW v \in Texts,
         NEW lists \in Seq(Seq(Texts)), Len(lists) > 0, Len(lists) <= Len(rule.parts),
         \A k \in 1 .. Len(lists) : lists[k] = Says[rule.parts[k]][content][v].items,
         rule.type = "||" => \A k \in 1 .. Len(lists) : k < Len(lists) => lists[k] = <<>>,
         Len(lists) = Len(rule.parts) \/ (rule.type = "||" /\ lists[Len(lists)] # <<>>)
  PROVE  Says[rule][content][v].items
            = IF rule.type = "||" THEN lists[Len(lists)]
              ELSE IF rule.type = "%%" THEN Woven(lists) ELSE FlattenSeq(lists)
<1> DEFINE n == Len(rule.parts)
           m == Len(lists)
           all == Lists(Says, rule, content, v)
           some == {i \in DOMAIN all : all[i] # <<>>}
<1>1. /\ rule.type \in {"&&", "||", "%%"} /\ n \in Nat \ {0} /\ DOMAIN rule.parts = 1 .. n
  BY PartsShape
<1>2. m \in Nat /\ m >= 1 /\ m <= n
  OBVIOUS
<1>3. all = [i \in 1 .. n |-> Says[rule.parts[i]][content][v].items]
  BY <1>1 DEF Lists
<1>4. DOMAIN all = 1 .. n /\ \A i \in 1 .. n : all[i] = Says[rule.parts[i]][content][v].items
  BY <1>3
<1>5. \A i \in 1 .. m : lists[i] = all[i]
  BY <1>2, <1>4
<1>6. Says[rule][content][v].items = Lined(rule.type, all)
  BY SaysJoin
<1>7. /\ m = n \/ (rule.type = "||" /\ lists[m] # <<>>)
      /\ rule.type = "||" => \A k \in 1 .. m : k < m => lists[k] = <<>>
  OBVIOUS
<1> HIDE DEF all, n, m
<1>8. CASE rule.type # "||"
  <2>1. m = n
    BY <1>7, <1>8
  <2>2. lists = all
    <3>1. lists = [i \in 1 .. m |-> lists[i]]
      BY DEF m
    <3>2. all = [i \in 1 .. n |-> all[i]]
      BY <1>3, <1>4
    <3> QED
      BY <3>1, <3>2, <2>1, <1>5
  <2>3. Lined(rule.type, all) = IF rule.type = "%%" THEN Woven(all) ELSE FlattenSeq(all)
    BY <1>1, <1>8 DEF Lined
  <2> QED
    BY <2>2, <2>3, <1>6, <1>8
<1>9. CASE rule.type = "||"
  <2>1. Lined(rule.type, all) = FirstFilled(all)
    BY <1>9 DEF Lined
  <2>2. \A k \in 1 .. m : k < m => all[k] = <<>>
    BY <1>5, <1>7, <1>9
  <2>3. m \in 1 .. m
    BY <1>2
  <2>4. FirstFilled(all) = lists[m]
    <3>1. CASE lists[m] = <<>>
      <4>1. m = n
        BY <3>1, <1>7
      <4>2. ASSUME NEW k \in 1 .. n
            PROVE  all[k] = <<>>
        <5>1. CASE k = m
          BY <5>1, <3>1, <2>3, <1>5
        <5>2. CASE k # m
          <6>1. k \in 1 .. m /\ k < m
            BY <5>2, <4>1, <1>2
          <6> QED
            BY <6>1, <2>2
        <5> QED
          BY <5>1, <5>2
      <4>3. some = {}
        BY <4>2, <1>4
      <4> QED
        BY <4>3, <3>1 DEF FirstFilled
    <3>2. CASE lists[m] # <<>>
      <4> DEFINE first == CHOOSE i \in some : \A j \in some : i <= j
      <4>1. m \in some
        BY <3>2, <2>3, <1>2, <1>4, <1>5
      <4>2. some \subseteq Nat
        BY <1>4
      <4>3. first \in some /\ \A j \in some : first <= j
        BY <4>1, <4>2, FirstOf
      <4>4. FirstFilled(all) = all[first]
        BY <4>1 DEF FirstFilled
      <4>5. first <= m /\ first \in 1 .. n /\ all[first] # <<>>
        BY <4>1, <4>3, <1>4
      <4> HIDE DEF first
      <4>6. first = m
        <5>1. first \in 1 .. m
          BY <4>5, <1>2
        <5>2. ~(first < m)
          BY <5>1, <4>5, <2>2
        <5> QED
          BY <5>1, <5>2, <1>2
      <4> QED
        BY <4>4, <4>6, <2>3, <1>5
    <3> QED
      BY <3>1, <3>2
  <2> QED
    BY <2>1, <2>4, <1>6, <1>9 DEF m
<1> QED
  BY <1>8, <1>9

\* ... and returns.
LEMMA StepPartDone ==
  ASSUME RuleInv, NEW t \in Appliers, PartDone(t)
  PROVE  RuleInv'
<1> DEFINE c == Now(t)
           rule == Body(Now(t).rule)
           lists == Now(t).lists
           enough == Now(t).part = Len(rule.parts) \/ (rule.type = "||" /\ lists[Len(lists)] # <<>>)
           items == IF rule.type = "||" THEN lists[Len(lists)]
                    ELSE IF rule.type = "%%" THEN Woven(lists) ELSE FlattenSeq(lists)
<1>1. ThreadInv /\ CacheInv /\ calls[t] # <<>> /\ c.at = "back" /\ Joint(c.rule)
      /\ Goes(t, IF enough THEN [c EXCEPT !.at = "store", !.items = items]
                 ELSE [c EXCEPT !.at = "work", !.part = @ + 1])
      /\ UNCHANGED <<ruleCache, regexCache, kept, jobs, answers>>
  BY DEF RuleInv, PartDone, Joint
<1>2. /\ c \in RuleCalls /\ c.rule \in Phrases /\ c.content \in Contents /\ kept[t] \in Texts
      /\ c.part \in Nat \ {0} /\ lists \in Seq(Seq(Texts)) /\ CallShape(c) /\ SoFar(c, kept[t])
  BY <1>1, AtWork
<1>3. rule \in Phrases
  BY <1>2, BodyIs
<1>4. rule.is = "join" /\ c.rule.is # "put" /\ ~Patterned(c.rule) /\ Plain(c.rule)
  BY <1>1, <1>2, KindsDiffer
<1>5. c.part <= Len(rule.parts) /\ Len(lists) = c.part
  <2>1. c.at = "back" /\ c.rule.is # "put" /\ ~Patterned(c.rule) /\ CallShape(c)
    BY <1>1, <1>2, <1>4
  <2> QED
    BY <2>1 DEF CallShape
<1>6. Ahead(c, kept[t]) = Says[c.rule][c.content][kept[t]].items
  BY <1>4 DEF Ahead
<1>7. ~Chained[c.rule] => PartsSaid(c, kept[t])
  BY <1>1, <1>2 DEF SoFar
<1>8. CASE enough
  <2> DEFINE d == [c EXCEPT !.at = "store", !.items = items]
  <2>1. Goes(t, d)
    BY <1>1, <1>8
  <2>2. items \in Seq(Texts)
    <3>1. lists[Len(lists)] \in Seq(Texts)
      BY <1>2, <1>5
    <3>2. Woven(lists) \in Seq(Texts) /\ FlattenSeq(lists) \in Seq(Texts)
      BY <1>2, WovenTyped, FlattenTyped
    <3> QED
      BY <3>1, <3>2
  <2>3. ASSUME ~Chained[c.rule]
        PROVE  items = Says[rule][c.content][kept[t]].items
    <3>1. \A k \in 1 .. Len(lists) : PartSaid(c, kept[t], k)
      BY <2>3, <1>7 DEF PartsSaid
    <3>2. \A k \in 1 .. Len(lists) : lists[k] = Says[rule.parts[k]][c.content][kept[t]].items
      BY <3>1 DEF PartSaid
    <3>3. rule.type = "||" => \A k \in 1 .. Len(lists) : k < Len(lists) => lists[k] = <<>>
      BY <3>1 DEF PartSaid
    <3>4. Len(lists) > 0 /\ Len(lists) <= Len(rule.parts)
      BY <1>2, <1>5
    <3>5. Len(lists) = Len(rule.parts) \/ (rule.type = "||" /\ lists[Len(lists)] # <<>>)
      BY <1>5, <1>8
    <3> HIDE DEF rule, lists, c
    <3> QED
      BY <3>2, <3>3, <3>4, <3>5, <1>2, <1>3, <1>4, PartsSuffice
  <2> HIDE DEF items
  <2>4. /\ d \in RuleCalls /\ d.rule = c.rule /\ d.content = c.content /\ d.at = "store" /\ d.items = items
    BY <2>2, <1>2, MadeStore
  <2> HIDE DEF d
  <2>5. CallShape(d)
    BY <2>4, <1>4 DEF CallShape
  <2>6. SoFar(d, kept[t])
    BY <2>3, <2>4 DEF SoFar
  <2>7. Ahead(d, kept[t]) = Ahead(c, kept[t])
    BY <2>4, <1>6 DEF Ahead
  <2>8. ThreadInv'
    BY <2>1, <2>4, <2>5, <2>6, <2>7, <1>1, StepGoes
  <2> QED
    BY <2>8, <1>1, CacheStill DEF RuleInv
<1>9. CASE ~enough
  <2> DEFINE d == [c EXCEPT !.at = "work", !.part = @ + 1]
  <2>1. Goes(t, d)
    BY <1>1, <1>9
  <2>2. /\ d \in RuleCalls /\ d.rule = c.rule /\ d.content = c.content /\ d.at = "work"
        /\ d.part = c.part + 1 /\ d.lists = lists
    BY <1>2, MadeNext
  <2> HIDE DEF d
  <2>3. CallShape(d)
    <3>1. Len(rule.parts) \in Nat
      BY <1>3, <1>4, PartsShape
    <3>2. d.part <= Len(rule.parts) /\ Len(d.lists) = d.part - 1
      BY <3>1, <2>2, <1>2, <1>5, <1>9
    <3>3. Body(d.rule) = rule /\ Plain(d.rule) /\ d.at = "work"
      BY <2>2, <1>4
    <3> QED
      BY <3>2, <3>3 DEF CallShape
  <2>4. ASSUME ~Chained[c.rule]
        PROVE  PartsSaid(d, kept[t])
    <3> SUFFICES ASSUME NEW k \in 1 .. Len(lists)
                 PROVE  PartSaid(d, kept[t], k)
      BY <2>2 DEF PartsSaid
    <3>1. PartSaid(c, kept[t], k)
      BY <2>4, <1>7 DEF PartsSaid
    <3>2. lists[k] = Says[rule.parts[k]][c.content][kept[t]].items
      BY <3>1 DEF PartSaid
    <3>3. rule.type = "||" => lists[k] = <<>>
      <4>1. CASE k = Len(lists)
        BY <4>1, <1>9
      <4>2. CASE k # Len(lists)
        <5>1. k < Len(lists)
          BY <4>2, <1>2, <1>5
        <5> QED
          BY <5>1, <3>1 DEF PartSaid
      <4> QED
        BY <4>1, <4>2
    <3> QED
      BY <3>2, <3>3, <2>2 DEF PartSaid
  <2>5. SoFar(d, kept[t])
    BY <2>2, <2>4 DEF SoFar
  <2>6. Ahead(d, kept[t]) = Ahead(c, kept[t])
    BY <2>2, <1>6 DEF Ahead
  <2>7. ThreadInv'
    BY <2>1, <2>2, <2>3, <2>5, <2>6, <1>1, StepGoes
  <2> QED
    BY <2>7, <1>1, CacheStill DEF RuleInv
<1> QED
  BY <1>8, <1>9

\* An answer is put into the cache.
LEMMA StepStore ==
  ASSUME RuleInv, NEW t \in Appliers, Store(t)
  PROVE  RuleInv'
<1> DEFINE c == Now(t)
           key == Key(Now(t))
           new == PutLast(ruleCache, key, c.items, RuleCapacity)
           K == [rule : Phrases, content : Contents]
           V == Seq(Texts)
           d == [c EXCEPT !.at = "redact"]
<1>1. ThreadInv /\ CacheInv /\ calls[t] # <<>> /\ c.at = "store"
      /\ ruleCache' = (IF c.items = <<>> THEN ruleCache ELSE new)
      /\ Goes(t, d) /\ UNCHANGED <<regexCache, kept, jobs, answers>>
  BY DEF RuleInv, Store
<1>2. /\ c \in RuleCalls /\ c.rule \in Phrases /\ c.content \in Contents /\ kept[t] \in Texts
      /\ c.items \in Seq(Texts) /\ CallShape(c) /\ SoFar(c, kept[t])
  BY <1>1, AtWork
<1>3. Body(c.rule) \in Phrases /\ (Chained[c.rule] => Chained[Body(c.rule)])
  BY <1>2, BodyIs
<1>4. Plain(c.rule)
  BY <1>1, <1>2 DEF CallShape
<1>5. /\ d \in RuleCalls /\ d.rule = c.rule /\ d.content = c.content /\ d.at = "redact" /\ d.items = c.items
  BY <1>2, MadeStored
<1> HIDE DEF d
<1>6. ~Chained[c.rule] => c.items = Says[Body(c.rule)][c.content][kept[t]].items
  BY <1>1, <1>2 DEF SoFar
<1>7. ThreadInv'
  <2>1. CallShape(d)
    BY <1>4, <1>5 DEF CallShape
  <2>2. SoFar(d, kept[t])
    BY <1>5, <1>6 DEF SoFar
  <2>3. Ahead(d, kept[t]) = Ahead(c, kept[t])
    BY <1>1, <1>5 DEF Ahead
  <2> QED
    BY <2>1, <2>2, <2>3, <1>1, <1>5, StepGoes
<1>8. CASE c.items = <<>>
  <2>1. ruleCache' = ruleCache
    BY <1>1, <1>8
  <2> QED
    BY <2>1, <1>1, <1>7, CacheStill DEF RuleInv
<1>9. CASE c.items # <<>>
  <2>1. /\ ruleCache \in Seq(Entries(K, V)) /\ regexCache \in Seq(Entries(STRING, {TRUE}))
        /\ Len(ruleCache) <= RuleCapacity /\ Len(regexCache) <= RegexCapacity
        /\ OneEach(ruleCache) /\ OneEach(regexCache)
        /\ \A i \in DOMAIN ruleCache : CachedOK(ruleCache[i])
    BY <1>1, CachedEntries
  <2>2. key \in K /\ key.rule = Body(c.rule) /\ key.content = c.content
    BY <1>2, <1>3 DEF Key
  <2>3. /\ new \in Seq(Entries(K, V)) /\ Len(new) <= RuleCapacity /\ OneEach(new)
        /\ ComesFrom(new, ruleCache, key, c.items)
    <3> HIDE DEF K, key, c
    <3>1. RuleCapacity \in Nat \ {0}
      BY RuleCapacities
    <3> QED
      BY <3>1, <2>1, <2>2, <1>2, PutLastIs
  <2>4. ruleCache' = new /\ regexCache' = regexCache
    BY <1>1, <1>9
  <2> HIDE DEF new, key
  <2>5. ASSUME NEW i \in DOMAIN new
        PROVE  CachedOK(new[i])
    <3>1. CASE \E j \in DOMAIN ruleCache : new[i] = ruleCache[j]
      BY <3>1, <2>1
    <3>2. CASE new[i].key = key /\ new[i].value = c.items
      <4>1. ASSUME ~Chained[Body(c.rule)]
            PROVE  c.items = Says[Body(c.rule)][c.content][Empty].items
        <5>1. c.items = Says[Body(c.rule)][c.content][kept[t]].items
          BY <4>1, <1>3, <1>6
        <5>2. Empty \in Texts
          BY TextsJoin DEF Empty
        <5>3. Body(c.rule).is \in {"select", "chain", "join"}
          BY <1>4 DEF Plain
        <5>4. Says[Body(c.rule)][c.content][kept[t]].items = Says[Body(c.rule)][c.content][Empty].items
          BY <4>1, <5>2, <5>3, <1>2, <1>3, CachedSays
        <5> QED
          BY <5>1, <5>4
      <4>2. Body(c.rule).is \in {"select", "chain", "join"}
        BY <1>4 DEF Plain
      <4> QED
        BY <3>2, <4>1, <4>2, <2>2, <1>9 DEF CachedOK
    <3> QED
      BY <3>1, <3>2, <2>3 DEF ComesFrom
  <2>6. CacheInv'
    <3>1. ruleCache' \in Seq(Entries(K, V)) /\ Len(ruleCache') <= RuleCapacity /\ OneEach(ruleCache')
      BY <2>3, <2>4
    <3>2. regexCache' \in Seq(Entries(STRING, {TRUE})) /\ Len(regexCache') <= RegexCapacity /\ OneEach(regexCache')
      BY <2>1, <2>4
    <3>3. \A i \in DOMAIN ruleCache' : CachedOK(ruleCache'[i])
      BY <2>4, <2>5
    <3> QED
      BY <3>1, <3>2, <3>3, CachedEntriesNext
  <2> QED
    BY <2>6, <1>7 DEF RuleInv
<1> QED
  BY <1>8, <1>9

\* A call ends with its replacement.
LEMMA StepFinish ==
  ASSUME RuleInv, NEW t \in Appliers, Finish(t)
  PROVE  RuleInv'
<1> DEFINE c == Now(t)
           pattern == Pattern(Now(t).rule)
           items == Redacted(Now(t).items, Pattern(Now(t).rule))
           new == PutLast(regexCache, pattern, TRUE, RegexCapacity)
<1>1. ThreadInv /\ CacheInv /\ calls[t] # <<>> /\ c.at = "redact" /\ Returns(t, items)
      /\ regexCache' = (IF c.items = <<>> \/ pattern \in {NoPattern, Bad} THEN regexCache ELSE new)
      /\ UNCHANGED <<ruleCache, kept, jobs>>
  BY DEF RuleInv, Finish
<1>2. /\ c.rule \in Phrases /\ c.content \in Contents /\ kept[t] \in Texts
      /\ c.items \in Seq(Texts) /\ CallShape(c) /\ SoFar(c, kept[t])
  BY <1>1, AtWork
<1>3. items \in Seq(Texts)
  BY <1>2, PatternTyped
<1>4. ~Chained[c.rule] => items = Ahead(c, kept[t])
  <2> SUFFICES ASSUME ~Chained[c.rule]
               PROVE  items = Ahead(c, kept[t])
    OBVIOUS
  <2>1. c.items = Says[Body(c.rule)][c.content][kept[t]].items
    BY <1>1, <1>2 DEF SoFar
  <2>2. Says[c.rule][c.content][kept[t]].items
          = Redacted(Says[Body(c.rule)][c.content][kept[t]].items, Pattern(c.rule))
    BY <1>2, SaysRedacted
  <2>3. Ahead(c, kept[t]) = Says[c.rule][c.content][kept[t]].items
    BY <1>1 DEF Ahead
  <2> QED
    BY <2>1, <2>2, <2>3
<1> HIDE DEF items
<1>5. ThreadInv'
  BY <1>1, <1>3, <1>4, StepReturns
<1>6. CASE c.items = <<>> \/ pattern \in {NoPattern, Bad}
  <2>1. regexCache' = regexCache
    BY <1>1, <1>6
  <2> QED
    BY <2>1, <1>1, <1>5, CacheStill DEF RuleInv
<1>7. CASE ~(c.items = <<>> \/ pattern \in {NoPattern, Bad})
  <2> DEFINE K == [rule : Phrases, content : Contents]
             V == Seq(Texts)
  <2>1. /\ ruleCache \in Seq(Entries(K, V)) /\ regexCache \in Seq(Entries(STRING, {TRUE}))
        /\ Len(ruleCache) <= RuleCapacity /\ Len(regexCache) <= RegexCapacity
        /\ OneEach(ruleCache) /\ OneEach(regexCache)
        /\ \A i \in DOMAIN ruleCache : CachedOK(ruleCache[i])
    BY <1>1, CachedEntries
  <2>2. pattern \in STRING
    <3>1. pattern # NoPattern
      BY <1>7
    <3>2. c.rule.is = "redact"
      BY <3>1, <1>2, BodyIs
    <3> QED
      BY <3>2, <1>2, BodyIs
  <2>3. new \in Seq(Entries(STRING, {TRUE})) /\ Len(new) <= RegexCapacity /\ OneEach(new)
    <3> HIDE DEF pattern
    <3>1. RegexCapacity \in Nat \ {0}
      BY RuleCapacities
    <3> QED
      BY <3>1, <2>1, <2>2, PutLastIs
  <2>4. ruleCache' = ruleCache /\ regexCache' = new
    BY <1>1, <1>7
  <2> HIDE DEF new, K, V
  <2>5. CacheInv'
    <3>1. ruleCache' \in Seq(Entries(K, V)) /\ Len(ruleCache') <= RuleCapacity /\ OneEach(ruleCache')
      BY <2>1, <2>4
    <3>2. regexCache' \in Seq(Entries(STRING, {TRUE})) /\ Len(regexCache') <= RegexCapacity /\ OneEach(regexCache')
      BY <2>3, <2>4
    <3>3. \A i \in DOMAIN ruleCache' : CachedOK(ruleCache'[i])
      BY <2>1, <2>4
    <3> QED
      BY <3>1, <3>2, <3>3, CachedEntriesNext DEF K, V
  <2> QED
    BY <2>5, <1>5 DEF RuleInv
<1> QED
  BY <1>6, <1>7

\* Where threads begin.
LEMMA RulesStart ==
  ASSUME NEW work \in [Appliers -> Seq([rule : Phrases, content : Contents])], RuleStart(work)
  PROVE  RuleInv
<1>1. /\ ruleCache = <<>> /\ regexCache = <<>> /\ kept = [t \in Appliers |-> Empty] /\ jobs = work
      /\ calls = [t \in Appliers |-> <<>>] /\ answers = [t \in Appliers |-> NoAnswer]
  BY DEF RuleStart
<1>2. CacheInv
  <2>1. RuleCapacity >= 0 /\ RegexCapacity >= 0
    BY RuleCapacities
  <2>2. Len(<<>>) = 0 /\ DOMAIN <<>> = {}
    OBVIOUS
  <2>3. <<>> \in Seq([key : [rule : Phrases, content : Contents], value : Seq(Texts)])
        /\ <<>> \in Seq([key : STRING, value : {TRUE}])
    BY EmptySeq
  <2> QED
    BY <1>1, <2>1, <2>2, <2>3 DEF CacheInv, CachesAreSound, CachesArePlain
<1>3. NoAnswer \in Answers /\ Empty \in Texts
  <2>1. "" \in STRING /\ Empty \in Texts /\ <<>> \in Seq(Texts)
    BY TextsJoin, SelectorsGiveTexts DEF Empty
  <2> QED
    BY <2>1 DEF NoAnswer, Answers
<1>4. <<>> \in Seq(RuleCalls)
  BY EmptySeq
<1>5. \A t \in Appliers : Proper(calls[t], kept[t], answers[t])
  BY <1>1 DEF Proper
<1> QED
  BY <1>1, <1>2, <1>3, <1>4, <1>5 DEF RuleInv, ThreadInv

\* At the start.
LEMMA RulesInit == RuleInit => RuleInv
<1> SUFFICES ASSUME NEW work \in [Appliers -> Jobs], RuleStart(work)
             PROVE  RuleInv
  BY DEF RuleInit
<1>1. \A x \in Jobs : x \in Seq([rule : Phrases, content : Contents])
  BY JobsAreRules
<1>2. work \in [Appliers -> Seq([rule : Phrases, content : Contents])]
  BY <1>1
<1> QED
  BY <1>2, RulesStart

\* Every step.
LEMMA RulesStep == RuleInv /\ [RuleNext]_ruleVars => RuleInv'
<1> SUFFICES ASSUME RuleInv, [RuleNext]_ruleVars
             PROVE  RuleInv'
  OBVIOUS
<1>1. CASE RuleNext
  <2>1. PICK t \in Appliers :
            \/ Begin(t) \/ Whole(t) \/ Inner(t) \/ Kept(t) \/ PutDone(t) \/ TemplateDone(t)
            \/ Look(t) \/ Apply(t) \/ Part(t) \/ PartDone(t) \/ Store(t) \/ Finish(t)
    BY <1>1 DEF RuleNext
  <2>2. Begin(t) \/ Whole(t) \/ Inner(t) \/ Kept(t) \/ PutDone(t) \/ TemplateDone(t) => RuleInv'
    BY StepBegin, StepWhole, StepInner, StepKept, StepPutDone, StepTemplateDone
  <2>3. Look(t) \/ Apply(t) \/ Part(t) \/ PartDone(t) \/ Store(t) \/ Finish(t) => RuleInv'
    BY StepLook, StepApply, StepPart, StepPartDone, StepStore, StepFinish
  <2> QED
    BY <2>1, <2>2, <2>3
<1>2. CASE UNCHANGED ruleVars
  <2>1. CacheInv'
    BY <1>2, CacheStill DEF RuleInv, ruleVars
  <2>2. ThreadInv'
    BY <1>2 DEF RuleInv, ThreadInv, ruleVars
  <2> QED
    BY <2>1, <2>2 DEF RuleInv
<1> QED
  BY <1>1, <1>2

\* What the invariant says of types, answers and caches.
LEMMA RulesHold == RuleInv => RuleTypeOK /\ AnswersMatchRules /\ CachesAreSound
<1> SUFFICES ASSUME RuleInv
             PROVE  RuleTypeOK /\ AnswersMatchRules /\ CachesAreSound
  OBVIOUS
<1>1. CacheInv /\ ThreadInv
  BY DEF RuleInv
<1>2. RuleTypeOK
  BY <1>1 DEF RuleTypeOK, CacheInv, ThreadInv, Answers
<1>3. AnswersMatchRules
  BY <1>1 DEF ThreadInv, Proper, AnswersMatchRules
<1> QED
  BY <1>1, <1>2, <1>3 DEF CacheInv

-----------------------------------------------------------------------------
(* Next to the other parts, which leave them alone. *)

\* Threads that apply rules.
LEMMA RulesInService ==
  /\ ServiceInit => RuleInv
  /\ RuleInv /\ [ServiceNext]_serviceVars => RuleInv'
<1>1. ServiceInit => RuleInv
  <2> SUFFICES ASSUME ServiceInit
               PROVE  RuleInv
    OBVIOUS
  <2>1. RuleInit \/ RuleStart([t \in Appliers |-> <<>>])
    BY DEF ServiceInit
  <2>2. [t \in Appliers |-> <<>>] \in [Appliers -> Seq([rule : Phrases, content : Contents])]
    BY EmptySeq
  <2> QED
    BY <2>1, <2>2, RulesInit, RulesStart
<1>2. ServiceNext => RuleNext \/ UNCHANGED ruleVars
  BY DEF ServiceNext
<1>3. UNCHANGED serviceVars => UNCHANGED ruleVars
  BY DEF serviceVars
<1>4. [ServiceNext]_serviceVars => [RuleNext]_ruleVars
  BY <1>2, <1>3
<1> QED
  BY <1>1, <1>4, RulesStep

\* Threads that apply rules stay within the types, and so do the caches they share.
THEOREM RuleTypeCorrect == ServiceSpec => []RuleTypeOK
<1>1. ServiceInit => RuleInv
  BY RulesInService
<1>2. RuleInv /\ [ServiceNext]_serviceVars => RuleInv'
  BY RulesInService
<1>3. RuleInv => RuleTypeOK
  BY RulesHold
<1> QED
  BY <1>1, <1>2, <1>3, PTL DEF ServiceSpec

\* Whatever other threads cached, for other rules, contents and patterns, an answer is what the
\* rule says of the content (applyRuleStatic), and the caches hold nothing that is not.
THEOREM AnswersMatch == ServiceSpec => [](AnswersMatchRules /\ CachesAreSound)
<1>1. ServiceInit => RuleInv
  BY RulesInService
<1>2. RuleInv /\ [ServiceNext]_serviceVars => RuleInv'
  BY RulesInService
<1>3. RuleInv => AnswersMatchRules /\ CachesAreSound
  BY RulesHold
<1> QED
  BY <1>1, <1>2, <1>3, PTL DEF ServiceSpec
=============================================================================
