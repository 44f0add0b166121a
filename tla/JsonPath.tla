------------------------------ MODULE JsonPath ------------------------------
(***************************************************************************)
(* JsonPathSelector of src/selector/selector_impl.cpp: a path is cut into  *)
(* tokens, which are followed one after the other from the root of a JSON  *)
(* value.  A token that does not apply ends the walk without a result.     *)
(*                                                                         *)
(* A value is a leaf (a string), an array, an object or null.  A slice     *)
(* whose step is not positive never ends or leaves the array; none is      *)
(* followed here.                                                          *)
(***************************************************************************)
EXTENDS Integers, Sequences, FiniteSets, SequencesExt, FiniteSetsExt, Ascending

CONSTANTS JsonValues,  \* what a selector is given, with all the values within
          JsonRules    \* sequences of tokens

Leaf(s) == [is |-> "leaf", val |-> s]
Arr(items) == [is |-> "array", val |-> items]
Obj(fields) == [is |-> "object", val |-> fields]
Null == [is |-> "null", val |-> <<>>]

Open == <<>>  \* a bound of a slice that is not written; <<n>>: one that is
Field(k) == [is |-> "key", key |-> k]
Element(n) == [is |-> "index", n |-> n]
Every == [is |-> "all"]
SliceOf(from, to, step) == [is |-> "slice", from |-> from, to |-> to, step |-> step]
Unfollowed == [is |-> "filter"]  \* also "..", which is not followed either

\* A value that is not a leaf has values within, and a slice leads on.
IsBound(b, allowed) == b = Open \/ (Len(b) = 1 /\ b[1] \in allowed)
ASSUME JsonIsWhole ==
    /\ Null \in JsonValues
    /\ \A v \in JsonValues :
        \/ v.is \in {"leaf", "null"}
        \/ v.is = "array" /\ v.val \in Seq(JsonValues)
        \/ v.is = "object" /\ \A k \in DOMAIN v.val : v.val[k] \in JsonValues
    /\ \A rule \in JsonRules :
        /\ rule \in Seq(ToSet(rule))
        /\ \A i \in DOMAIN rule :
            \/ rule[i].is \in {"key", "all", "filter"}
            \/ rule[i].is = "index" /\ rule[i].n \in Int
            \/ /\ rule[i].is = "slice" /\ IsBound(rule[i].from, Int) /\ IsBound(rule[i].to, Int)
               /\ IsBound(rule[i].step, Nat \ {0})

VARIABLES json, path,   \* what was given
          place,        \* current
          rest,         \* tokens not yet followed
          picked,       \* results
          jpc           \* "idle", "walking", "done"

jsonVars == <<json, path, place, rest, picked, jpc>>

JsonTypeOK ==
    /\ jpc \in {"idle", "walking", "done"}
    /\ place \in JsonValues /\ picked \in Seq(JsonValues)
    /\ \E n \in 0 .. Len(path) : rest = SubSeq(path, n + 1, Len(path))

JsonStart(j, p, at) ==
    /\ json = j /\ path = p /\ place = j /\ rest = p /\ picked = <<>> /\ jpc = at

JsonInit == \E j \in JsonValues, p \in JsonRules : JsonStart(j, p, "walking")

-----------------------------------------------------------------------------

\* The positions of a slice, from 0: what is not written is 0, -1 and 1, and -1 is the last
\* element, which a slice does not reach.
SliceBegin(n, size) == IF n = Open THEN 0 ELSE IF n[1] < 0 THEN Max({0, n[1] + size}) ELSE n[1]
SliceEnd(n, size) == IF n = Open THEN size - 1 ELSE IF n[1] < 0 THEN n[1] + size ELSE Min({n[1], size})
Sliced(items, t) ==
    LET first == SliceBegin(t.from, Len(items))
        end == SliceEnd(t.to, Len(items))
        step == IF t.step = Open THEN 1 ELSE t.step[1]
        count == IF first < end THEN (end - first + step - 1) \div step ELSE 0 IN
    [k \in 1 .. count |-> items[first + (k - 1) * step + 1]]

Gives(found) == picked' = found /\ jpc' = "done" /\ UNCHANGED <<place, rest>>
Walks(value) == place' = value /\ rest' = Tail(rest) /\ UNCHANGED <<picked, jpc>>

\* A field of an object, or an element of an array.
Has(t) ==
    CASE t.is = "key" -> place.is = "object" /\ t.key \in DOMAIN place.val
      [] t.is = "index" -> place.is = "array" /\ t.n \in 0 .. Len(place.val) - 1
Enters ==
    /\ Head(rest).is \in {"key", "index"}
    /\ LET t == Head(rest) IN
         IF Has(t) THEN Walks(IF t.is = "key" THEN place.val[t.key] ELSE place.val[t.n + 1])
                   ELSE Gives(<<>>)

\* [*] and a slice give what they find, whatever tokens follow; off an array they are skipped.
Spreads ==
    /\ Head(rest).is \in {"all", "slice"}
    /\ IF place.is # "array" THEN Walks(place)
       ELSE Gives(IF Head(rest).is = "all" THEN place.val ELSE Sliced(place.val, Head(rest)))

GivesUp == Head(rest).is = "filter" /\ Gives(<<>>)

\* At the end an array gives its elements and null nothing.
Arrives ==
    Gives(CASE place.is = "array" -> place.val [] place.is = "null" -> <<>> [] OTHER -> <<place>>)

JsonNext ==
    /\ jpc = "walking"
    /\ IF rest = <<>> THEN Arrives ELSE Enters \/ Spreads \/ GivesUp
    /\ UNCHANGED <<json, path>>

-----------------------------------------------------------------------------
(* Properties. *)

\* JSONPath's own meaning: the nodes a path leads to.
Led(nodes, t) ==
    LET one(v) ==
          CASE t.is = "key" /\ v.is = "object" -> IF t.key \in DOMAIN v.val THEN <<v.val[t.key]>> ELSE <<>>
            [] t.is = "index" /\ v.is = "array" -> IF t.n < Len(v.val) THEN <<v.val[t.n + 1]>> ELSE <<>>
            [] t.is = "all" /\ v.is = "array" -> v.val
            [] t.is = "slice" /\ v.is = "array" ->
                 LET n == Len(v.val)
                     from == IF t.from[1] < 0 THEN n + t.from[1] ELSE t.from[1]
                     to == IF t.to[1] < 0 THEN n + t.to[1] ELSE t.to[1] IN
                 ItemsAt(v.val, {i \in 1 .. n : /\ i > from /\ i <= to
                                                /\ (i - 1 - Max({from, 0})) % t.step[1] = 0})
            [] OTHER -> <<>>
    IN FlattenSeq([i \in DOMAIN nodes |-> one(nodes[i])])
Leads(value, rule) ==
    LET after[n \in 0 .. Len(rule)] == IF n = 0 THEN <<value>> ELSE Led(after[n - 1], rule[n])
    IN  after[Len(rule)]

\* [*] and slices only at the end and on an array, slices with their bounds written, and no
\* index from the end.
PlainPath ==
    /\ \A i \in DOMAIN path : path[i].is \in {"all", "slice"} => i = Len(path)
    /\ \A i \in DOMAIN path :
         /\ path[i].is # "filter"
         /\ path[i].is = "index" => path[i].n >= 0
         /\ path[i].is = "slice" => Open \notin {path[i].from, path[i].to, path[i].step}
    /\ path # <<>> /\ Last(path).is \in {"all", "slice"} => rest # <<>>

\* A plain path gives what JSONPath says: the nodes it leads to, an array and null as their
\* elements (selector_impl.cpp:27).
JsonPathsAreFollowed ==
    jpc = "done" /\ PlainPath =>
      LET nodes == Leads(json, path)
          spread == path # <<>> /\ Last(path).is \in {"all", "slice"} IN
      picked = IF spread THEN nodes
               ELSE FlattenSeq([i \in DOMAIN nodes |->
                      CASE nodes[i].is = "array" -> nodes[i].val
                        [] nodes[i].is = "null" -> <<>> [] OTHER -> <<nodes[i]>>])
=============================================================================
