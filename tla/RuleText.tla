------------------------------ MODULE RuleText ------------------------------
(***************************************************************************)
(* How a rule is read: RuleAnalyzer::splitRule of src/rule/                *)
(* rule_analyzer.cpp, which cuts a rule at its separators but not inside   *)
(* brackets, and ElementsSingle of src/rule/elements_single.cpp, which     *)
(* reads a list of indexes from its end and takes these of the elements.   *)
(*                                                                         *)
(* A rule is a sequence of tokens: a separator or a number is one, and "x" *)
(* stands for a character of no meaning.  Positions count from 0 as in the *)
(* code; where nothing is found they are the length.                       *)
(***************************************************************************)
EXTENDS Integers, Sequences, FiniteSets, FiniteSetsExt, SequencesExt, Ascending

CONSTANTS Separators,      \* separators: &&, || and %%
          Rules,      \* bound: rules to split; none ends in a backslash
          IndexLists, \* bound: lists of indexes, see Spelled
          Sizes       \* bound: numbers of elements

VARIABLES splitter,   \* RuleAnalyzer
          indexer     \* ElementsSingle

textVars == <<splitter, indexer>>

Opening == {"[", "("}
Failed == -1

SplitStart(rule, at) ==
    splitter = [rule |-> rule, at |-> at, pos |-> 0, start |-> 0, startX |-> 0, end |-> 0,
                before |-> 0, type |-> "", pieces |-> <<>>]

TextTypeOK ==
    /\ splitter.at \in {"split", "first", "later", "cut", "throws", "done", "idle"}
    /\ {splitter.start, splitter.startX, splitter.pos, splitter.end} \subseteq 0 .. Len(splitter.rule)
    /\ indexer.at \in {"read", "filter", "done", "idle"}
    /\ indexer.taken \subseteq 0 .. indexer.size - 1

-----------------------------------------------------------------------------
(* Helpers of the splitter. *)

\* consumeTo, consumeToAny, findToAny: the first of some tokens from position p on.
Where(q, p, tokens) ==
    LET found == {i \in p .. Len(q) - 1 : q[i + 1] \in tokens}
    IN  IF found = {} THEN Len(q) ELSE Min(found)

\* substr from position a to before position b.
Piece(q, a, b) == SubSeq(q, a + 1, b)

\* chompRuleBalanced: the position after the bracket that closes the one at p.  Quotes are
\* kept, and an escaped token outside of quotes is skipped.
Close(q, p) ==
    LET open == q[p + 1]
        close == IF open = "[" THEN "]" ELSE ")"
        deeper(c, depth) == IF c = open THEN depth + 1 ELSE IF c = close THEN depth - 1 ELSE depth
        after[i \in Nat] ==
            [depth \in Nat |-> [quoted \in BOOLEAN |->
                IF depth = 0 THEN i
                ELSE IF i >= Len(q) THEN Failed
                ELSE LET c == q[i + 1]
                     IN  IF c = "'" THEN after[i + 1][depth][~quoted]
                         ELSE IF quoted THEN after[i + 1][depth][TRUE]
                         ELSE IF c = "\\" THEN after[i + 2][depth][FALSE]
                         ELSE after[i + 1][deeper(c, depth)][FALSE]]]
    IN  after[p + 1][1][FALSE]

-----------------------------------------------------------------------------
(* The splitter. *)

\* splitRule: the first separator of any kind, from "pos" on.
Split ==
    /\ splitter.at = "split"
    /\ LET s == splitter
           end == Where(s.rule, s.pos, Separators)
       IN  splitter' = IF end = Len(s.rule)
                       THEN [s EXCEPT !.at = "done",
                                      !.pieces = <<Piece(s.rule, s.startX, Len(s.rule))>>]
                       ELSE [s EXCEPT !.at = "first", !.end = end, !.pos = s.start]

\* splitRuleNext: the separator was found at "pos".
Next2(s) == [s EXCEPT !.at = "later", !.end = s.pos, !.pos = s.start]

\* The separator lies before the next bracket: a piece ends here.
PieceEnds ==
    /\ splitter.at \in {"first", "later"}
    /\ LET s == splitter
           bracket == Where(s.rule, s.pos, Opening)
       IN  /\ bracket > s.end
           /\ splitter' = [s EXCEPT !.at = "cut", !.pos = s.end + 1, !.before = bracket,
                               !.type = IF s.at = "first" THEN s.rule[s.end + 1] ELSE @,
                               !.pieces = Append(@, Piece(s.rule, s.startX, s.end))]

\* A bracket comes first: past the one that closes it.  If this is past the separator as
\* well, the next one is looked for: of any kind as long as none has ended a piece.
Bracket ==
    /\ splitter.at \in {"first", "later"}
    /\ LET s == splitter
           bracket == Where(s.rule, s.pos, Opening)
           past == Close(s.rule, bracket)
           next == Where(s.rule, past, {s.type})
       IN  /\ bracket < s.end
           /\ splitter' =
                IF past = Failed THEN [s EXCEPT !.at = "throws"]
                ELSE IF past < s.end THEN [s EXCEPT !.pos = past]
                ELSE IF s.at = "first" THEN [s EXCEPT !.at = "split", !.pos = past, !.start = past]
                ELSE IF next = Len(s.rule)
                     THEN [s EXCEPT !.at = "done",
                                    !.pieces = Append(@, Piece(s.rule, s.startX, Len(s.rule)))]
                     ELSE Next2([s EXCEPT !.start = past, !.pos = next])

\* Pieces end at every further separator before the bracket; one after it is looked at again,
\* and the rest is the last piece.
CutFurther ==
    /\ splitter.at = "cut"
    /\ LET s == splitter
           next == Where(s.rule, s.pos, {s.type})
       IN  splitter' =
            IF next = Len(s.rule)
            THEN [s EXCEPT !.at = "done", !.start = s.pos,
                           !.pieces = Append(@, Piece(s.rule, s.pos, Len(s.rule)))]
            ELSE IF next < s.before
                 THEN [s EXCEPT !.start = s.pos, !.pos = next + 1,
                                !.pieces = Append(@, Piece(s.rule, s.pos, next))]
                 ELSE Next2([s EXCEPT !.start = s.pos, !.startX = s.pos, !.pos = next])

-----------------------------------------------------------------------------
(* The indexes. *)

\* A number is written with one token.
Digits == <<"0", "1", "2", "3">>
Worth(t) == CHOOSE n \in 0 .. 3 : Digits[n + 1] = t

NoList == [indexes |-> <<>>, brackets |-> TRUE, exclude |-> FALSE]

\* An index is [from, to, step]: a single one is a range of its own.
Single(n) == [from |-> n, to |-> n, step |-> 1, single |-> TRUE]
RangeOf(a, b, step) == [from |-> a, to |-> b, step |-> step, single |-> FALSE]

\* A rule is a sequence of tokens, and a list has an index at least.
ASSUME TextsAreWhole ==
    /\ Separators \intersect Opening = {} /\ Sizes \subseteq Nat
    /\ \A q \in Rules : q \in Seq(ToSet(q))
    /\ \A list \in IndexLists :
        /\ list.brackets \in BOOLEAN /\ list.exclude \in BOOLEAN
        /\ Len(list.indexes) \in Nat \ {0} /\ DOMAIN list.indexes = 1 .. Len(list.indexes)
        /\ \A i \in DOMAIN list.indexes :
            \/ \E n \in -3 .. 3 : list.indexes[i] = Single(n)
            \/ list.brackets /\ \E a, b, step \in -3 .. 3 : list.indexes[i] = RangeOf(a, b, step)

\* How a list of indexes is written: [a,b:c:step] or [!a], and .a:b or !a:b.
Figure(n) == IF n < 0 THEN <<"-", Digits[1 - n]>> ELSE <<Digits[n + 1]>>
Item(index) ==
    IF index.single THEN Figure(index.from)
    ELSE Figure(index.from) \o <<":">> \o Figure(index.to)
         \o (IF index.step = 1 THEN <<>> ELSE <<":">> \o Figure(index.step))
Joined(parts, by) ==
    FlattenSeq([i \in DOMAIN parts |-> IF i = 1 THEN parts[i] ELSE <<by>> \o parts[i]])
Spelled(list) ==
    LET parts == [i \in DOMAIN list.indexes |-> Item(list.indexes[i])]
    IN  IF list.brackets
        THEN (IF list.exclude THEN <<"x", "[", "!">> ELSE <<"x", "[">>) \o Joined(parts, ",") \o <<"]">>
        ELSE <<"x", IF list.exclude THEN "!" ELSE ".">> \o Joined(parts, ":")

\* "list" is what the rule was written for, see Spelled.
IndexStart(list, size, at) ==
    indexer = [list |-> list, rule |-> Spelled(list), size |-> size, at |-> at,
               len |-> Len(Spelled(list)), number |-> "",
               minus |-> FALSE, colons |-> <<>>, found |-> <<>>, split |-> ".", taken |-> {}]

\* The number that was read so far, from its end: 0 if there is none.
Read(x) == IF x.number = "" THEN 0 ELSE IF x.minus THEN -Worth(x.number) ELSE Worth(x.number)

Cleared(x) == [x EXCEPT !.number = "", !.minus = FALSE]

\* findIndexSet, the loop over the tokens from the end, of a list in brackets.
InBrackets(x, c) ==
    LET index == IF x.colons = <<>> THEN Single(Read(x))
                 ELSE RangeOf(Read(x), x.colons[Len(x.colons)],
                              IF Len(x.colons) = 2 THEN x.colons[1] ELSE 1)
        next == [x EXCEPT !.found = Append(@, index), !.colons = <<>>,
                          !.split = IF c = "!" THEN "!" ELSE @]
    IN  IF c = ":" THEN Cleared([x EXCEPT !.colons = Append(@, Read(x))])
        ELSE IF x.colons = <<>> /\ x.number = "" THEN [x EXCEPT !.at = "filter"]
        ELSE IF c = "," THEN Cleared(next)
        ELSE [next EXCEPT !.at = "filter"]

\* The other form: .1:2 or !1:2 at the end of a rule.
AtTheEnd(x, c) ==
    LET next == [x EXCEPT !.found = Append(@, Single(Read(x))),
                          !.split = IF c = "!" THEN "!" ELSE @]
    IN  IF c = ":" THEN Cleared(next)
        ELSE IF c \in {".", "!"} THEN [next EXCEPT !.at = "filter"]
        ELSE Cleared(x)

ReadIndex ==
    /\ indexer.at = "read"
    /\ LET brackets == indexer.rule[Len(indexer.rule)] = "]"
           x == [indexer EXCEPT !.len = IF brackets /\ @ = Len(indexer.rule) THEN @ - 2 ELSE @ - 1]
           c == x.rule[x.len + 1]
       IN  indexer' =
            IF x.len < 0 THEN [x EXCEPT !.at = "filter",
                                 !.found = IF brackets \/ x.number = "" THEN @
                                           ELSE Append(@, Single(Read(x)))]
            ELSE IF c \in ToSet(Digits) THEN [x EXCEPT !.number = c]
            ELSE IF c = "-" THEN [x EXCEPT !.minus = TRUE]
            ELSE IF brackets THEN InBrackets(x, c) ELSE AtTheEnd(x, c)

\* A negative index counts from the end.
Placed(n, size) == IF n < 0 THEN n + size ELSE n

Clipped(n, size) == IF n < 0 THEN 0 ELSE IF n >= size THEN size - 1 ELSE n

\* parseAndFilter: the elements of an index.
Taken(index, size) ==
    LET a == Placed(index.from, size)
        b == Placed(index.to, size)
        from == Clipped(a, size)
        to == Clipped(b, size)
        step == IF index.step > 0 THEN index.step
                ELSE IF -index.step < size THEN index.step + size ELSE 1
    IN  IF index.single THEN {a} \intersect 0 .. size - 1
        ELSE IF (a < 0 /\ b < 0) \/ (a >= size /\ b >= size) THEN {}
        ELSE IF from = to \/ index.step >= size THEN {from}
        ELSE {i \in Min({from, to}) .. Max({from, to}) :
                (IF to > from THEN i - from ELSE from - i) % step = 0}

\* FilterByIndex (selector_impl.cpp): these elements, or all but these.
Filter ==
    /\ indexer.at = "filter"
    /\ LET x == indexer
           all == 0 .. x.size - 1
           named == all \intersect UNION {Taken(x.found[i], x.size) : i \in DOMAIN x.found}
       IN  indexer' = [x EXCEPT !.at = "done", !.taken = IF x.split = "!" THEN all \ named ELSE named]

-----------------------------------------------------------------------------
TextInit ==
    \/ (\E r \in Rules : SplitStart(r, "split")) /\ IndexStart(NoList, 0, "idle")
    \/ SplitStart(<<>>, "idle") /\ \E l \in IndexLists, n \in Sizes : IndexStart(l, n, "read")

TextNext ==
    \/ (Split \/ PieceEnds \/ Bracket \/ CutFurther) /\ UNCHANGED indexer
    \/ (ReadIndex \/ Filter) /\ UNCHANGED splitter

TextSpec == TextInit /\ [][TextNext]_textVars

-----------------------------------------------------------------------------
(* Properties. *)

\* Positions outside of brackets, and whether every bracket was closed.
Outside(q) ==
    LET from[p \in Nat] ==
            IF p >= Len(q) THEN [places |-> {}, closed |-> TRUE]
            ELSE IF q[p + 1] \notin Opening
                 THEN LET later == from[p + 1]
                      IN  [places |-> later.places \union {p}, closed |-> later.closed]
            ELSE IF Close(q, p) = Failed THEN [places |-> {}, closed |-> FALSE]
            ELSE from[Close(q, p)]
    IN  from[0]

\* What splitRule promises (rule_analyzer.h:29): the pieces between all the separators, of
\* the kind that comes first, outside of brackets.
Pieces(q) ==
    LET ends == {p \in Outside(q).places : q[p + 1] \in Separators}
        cuts == InTurn({p \in ends : q[p + 1] = q[Min(ends) + 1]})
    IN  IF ends = {} THEN <<q>>
        ELSE [i \in 1 .. Len(cuts) + 1 |->
                Piece(q, IF i = 1 THEN 0 ELSE cuts[i - 1] + 1,
                         IF i > Len(cuts) THEN Len(q) ELSE cuts[i])]

\* Nothing of a rule is lost or cut within brackets, and only a bracket that is never closed
\* is an error.
SplitsAtSeparators ==
    /\ splitter.at = "done" => splitter.pieces = Pieces(splitter.rule)
    /\ splitter.at = "throws" => ~Outside(splitter.rule).closed

\* What an index list says, whatever it is written like: the elements it names, or all but
\* these (elements_single.h).
Meant(list, size) ==
    LET all == 0 .. size - 1
        named == all \intersect UNION {Taken(list.indexes[i], size) : i \in DOMAIN list.indexes}
    IN  IF list.exclude THEN all \ named ELSE named
IndexesAreRead ==
    indexer.at = "done" => indexer.taken = Meant(indexer.list, indexer.size)
=============================================================================
