---------------------------- MODULE SourceProofs -----------------------------
(***************************************************************************)
(* The list of sources with what works on it, the search for other sources *)
(* of a book, and the grading of one source.                               *)
(*                                                                         *)
(* For any sources, any request threads and any number of requests, with a *)
(* validation and a streamed search of any number of threads next to them: *)
(* the index of the selected source stays in the list, requests under the  *)
(* lock leave no trace, they fetch from the source they were asked for,    *)
(* list and table agree, the grades and counts a validation reports are    *)
(* the ones it keeps, and a stream names its sources and ends without its  *)
(* deadline, each up to the interference its property names.               *)
(*                                                                         *)
(* Looking for other sources of a book offers every book that fits, once,  *)
(* and tells the right totals, for any workers and any answers.            *)
(*                                                                         *)
(* For any number of keywords, any budget and timeouts, and answers that   *)
(* take any time: no path outruns the budget by more than one shortest     *)
(* timeout and the rules of one page, a grade was earned by the path it is *)
(* the grade of, and no runtime is in two hands.                           *)
(***************************************************************************)
EXTENDS ListService, AlternativeSources, SourceGrade, SequenceTheorems, FiniteSetTheorems, TLAPS

-----------------------------------------------------------------------------
(* Sequences of sources. *)

\* Appending an element.
LEMMA AppendOne ==
  ASSUME NEW l \in Seq(Sources), NEW s \in Sources
  PROVE  /\ Append(l, s) \in Seq(Sources)
         /\ Len(Append(l, s)) = Len(l) + 1
         /\ \A i \in 1 .. Len(l) : Append(l, s)[i] = l[i]
         /\ Append(l, s)[Len(l) + 1] = s
         /\ Append(l, s) # <<>>
  OBVIOUS

\* Dropping the last element.
LEMMA DropLast ==
  ASSUME NEW l \in Seq(Sources), l # <<>>
  PROVE  /\ Front(l) \in Seq(Sources)
         /\ Len(Front(l)) = Len(l) - 1
         /\ \A i \in 1 .. Len(l) - 1 : Front(l)[i] = l[i]
<1>1. Len(l) \in Nat \ {0}
  BY EmptySeq
<1>2. \A i \in 1 .. Len(l) - 1 : l[i] \in Sources
  BY <1>1, ElementOfSeq
<1> DEFINE n == Len(l) - 1
<1>3. Front(l) = SubSeq(l, 1, n)
  BY DEF Front
<1>4. n \in Nat /\ \A i \in 1 .. n : l[i] \in Sources
  BY <1>1, <1>2
<1> HIDE DEF n
<1>5. /\ SubSeq(l, 1, n) \in Seq(Sources) /\ Len(SubSeq(l, 1, n)) = n
      /\ \A i \in 1 .. n : SubSeq(l, 1, n)[i] = l[i]
  BY <1>4, SubSeqProperties
<1> QED
  BY <1>3, <1>5 DEF n

\* What was appended last is dropped first.
LEMMA DropAppended ==
  ASSUME NEW l \in Seq(Sources), NEW s \in Sources
  PROVE  Front(Append(l, s)) = l
<1> DEFINE m == Append(l, s)
<1>1. /\ m \in Seq(Sources) /\ m # <<>> /\ Len(m) = Len(l) + 1 /\ Len(l) \in Nat
      /\ \A i \in 1 .. Len(l) : m[i] = l[i]
  BY AppendOne
<1> HIDE DEF m
<1>2. /\ Front(m) \in Seq(Sources) /\ Len(Front(m)) = Len(l)
      /\ \A i \in 1 .. Len(l) : Front(m)[i] = l[i]
  <2>1. /\ Front(m) \in Seq(Sources) /\ Len(Front(m)) = Len(m) - 1
        /\ \A i \in 1 .. Len(m) - 1 : Front(m)[i] = m[i]
    BY <1>1, DropLast
  <2>2. Len(m) - 1 = Len(l)
    BY <1>1
  <2> QED
    BY <2>1, <2>2, <1>1
<1> QED
  BY <1>2, SeqEqual DEF m

\* Erasing the element at position i, counted from 0.
LEMMA EraseOne ==
  ASSUME NEW l \in Seq(Sources), NEW i \in 0 .. Len(l) - 1
  PROVE  /\ Erase(l, i) \in Seq(Sources)
         /\ Len(Erase(l, i)) = Len(l) - 1
         /\ \A k \in 1 .. Len(l) - 1 : Erase(l, i)[k] = IF k <= i THEN l[k] ELSE l[k + 1]
<1> DEFINE low == SubSeq(l, 1, i)
           high == SubSeq(l, i + 2, Len(l))
<1>1. Len(l) \in Nat /\ \A k \in 1 .. Len(l) : l[k] \in Sources
  BY ElementOfSeq
<1>2. /\ low \in Seq(Sources) /\ Len(low) = i
      /\ \A k \in 1 .. i : low[k] = l[k]
  BY <1>1, SubSeqProperties
<1>3. /\ high \in Seq(Sources) /\ Len(high) = Len(l) - 1 - i
      /\ \A k \in 1 .. Len(l) - 1 - i : high[k] = l[k + i + 1]
  BY <1>1, SubSeqProperties
<1>4. Erase(l, i) = low \o high
  <2>1. Erase(l, i) = SubSeq(l, 1, (i + 1) - 1) \o SubSeq(l, (i + 1) + 1, Len(l))
    BY DEF Erase, RemoveAt
  <2>2. (i + 1) - 1 = i /\ (i + 1) + 1 = i + 2
    OBVIOUS
  <2> QED
    BY <2>1, <2>2
<1> HIDE DEF low, high
<1>a. low \in Seq(Sources) /\ high \in Seq(Sources)
  BY <1>2, <1>3
<1>5. /\ low \o high \in Seq(Sources)
      /\ Len(low \o high) = Len(low) + Len(high)
      /\ \A k \in 1 .. Len(low) + Len(high) :
            (low \o high)[k] = IF k <= Len(low) THEN low[k] ELSE high[k - Len(low)]
  BY <1>a, ConcatProperties
<1> QED
  BY <1>1, <1>2, <1>3, <1>4, <1>5

\* The urls of a list.
LEMMA UrlsOfList ==
  ASSUME NEW l \in Seq(Sources)
  PROVE  /\ UrlsOf(l) = {l[i].url : i \in 1 .. Len(l)}
         /\ UrlsOf(l) \subseteq Urls \union {Temp}
         /\ l = <<>> <=> UrlsOf(l) = {}
<1>1. DOMAIN l = 1 .. Len(l) /\ Len(l) \in Nat /\ \A k \in 1 .. Len(l) : l[k] \in Sources
  BY ElementOfSeq, LenProperties
<1>2. UrlsOf(l) = {l[i].url : i \in 1 .. Len(l)}
  BY <1>1 DEF UrlsOf
<1>3. \A k \in 1 .. Len(l) : l[k].url \in Urls \union {Temp}
  BY <1>1 DEF Sources
<1>4. CASE l = <<>>
  BY <1>2, <1>3, <1>4
<1>5. CASE l # <<>>
  <2>1. 1 \in 1 .. Len(l)
    BY <1>5, EmptySeq
  <2> QED
    BY <2>1, <1>2, <1>3, <1>5
<1> QED
  BY <1>4, <1>5

\* A list in which no url occurs twice.
UrlsDiffer(l) == \A i, j \in 1 .. Len(l) : l[i].url = l[j].url => i = j

\* Such a list has as many elements as urls.
LEMMA DistinctCardinality ==
  ASSUME NEW l \in Seq(Sources), UrlsDiffer(l)
  PROVE  Cardinality(UrlsOf(l)) = Len(l)
<1> DEFINE f == [i \in 1 .. Len(l) |-> l[i].url]
<1>1. Len(l) \in Nat /\ UrlsOf(l) = {l[i].url : i \in 1 .. Len(l)}
  BY UrlsOfList
<1>2. f \in [1 .. Len(l) -> UrlsOf(l)]
  BY <1>1
<1>3. f \in Bijection(1 .. Len(l), UrlsOf(l))
  BY <1>1, <1>2 DEF UrlsDiffer, Bijection, Injection, Surjection, IsInjective
<1>4. ExistsBijection(1 .. Len(l), UrlsOf(l))
  BY <1>3 DEF ExistsBijection
<1> QED
  BY <1>1, <1>4, FS_CountingElements

-----------------------------------------------------------------------------
(* The constants. *)

\* The sources of the table and of the feeds have urls of their own.
LEMMA KnownUrls ==
  /\ UrlsOf(Stored) \subseteq Urls /\ UrlsDiffer(Stored) /\ Stored \in Seq(Sources)
  /\ \A feed \in Feeds : feed \in Seq(Sources) /\ \A i \in 1 .. Len(feed) : feed[i].url \in Urls
<1>1. \A l \in Feeds \union {Stored} : l \in Seq(Sources)
  BY ListConstants
<1>2. \A l \in Feeds \union {Stored} : \A s \in ToSet(l) : s.url \in Urls
  BY ListConstants
<1>3. \A l \in Feeds \union {Stored} : \A i \in 1 .. Len(l) : l[i] \in ToSet(l)
  BY <1>1, LenProperties DEF ToSet
<1>4. \A l \in Feeds \union {Stored} : \A i \in 1 .. Len(l) : l[i].url \in Urls
  BY <1>2, <1>3
<1>5. UrlsOf(Stored) \subseteq Urls
  BY <1>1, <1>4, UrlsOfList
<1>6. UrlsDiffer(Stored)
  BY <1>1, LenProperties, ListConstants DEF UrlsDiffer
<1> QED
  BY <1>1, <1>4, <1>5, <1>6

-----------------------------------------------------------------------------
(* The invariant. *)

\* What is still to be imported has an url of its own; there is something while it is.
TodoKnown ==
    \A t \in Threads :
        /\ \A i \in 1 .. Len(job[t].todo) : job[t].todo[i].url \in Urls
        /\ pc[t] \in {"insert", "push"} => job[t].todo # <<>>

Types == ListTypeOK /\ TodoKnown

PCs == {"idle", "check", "insert", "push", "erase", "sweep", "wipe", "ask", "fetch", "label",
        "request", "page", "restore", "download", "unplug"}

JobStates == [todo : Seq(Sources), at : Int, want : Urls \union {Temp}, prev : Nat,
         used : SUBSET (Urls \union {Temp}), moved : BOOLEAN]

-----------------------------------------------------------------------------
(* Types. *)

\* An index in range names a source.
LEMMA UrlKnown ==
  ASSUME ListTypeOK, NEW i \in Int, InRange(i)
  PROVE  Url(i) \in Urls \union {Temp}
<1>1. i + 1 \in 1 .. Len(sources) /\ sources \in Seq(Sources)
  BY DEF ListTypeOK, InRange
<1>2. sources[i + 1] \in Sources
  BY <1>1, ElementOfSeq
<1> QED
  BY <1>2 DEF Url, Sources

\* The selection after a removal is a natural number.
LEMMA ClampIsNat ==
  ASSUME NEW i \in Nat, NEW l \in Seq(Sources)
  PROVE  Clamp(i, l) \in Nat
  BY EmptySeq DEF Clamp

\* A thread at rest has nothing to do.
LEMMA IdleJob == Idle \in JobStates /\ Idle.todo = <<>> /\ Idle.want = Temp
  BY DEF Idle, JobStates

\* The list at the start, however many requests are to come.
ListBegins == \E workload \in [Kinds -> Nat] : ListStart(workload)

\* At the start.
LEMMA InitTypes == ListBegins => Types
<1> SUFFICES ASSUME NEW w \in [Kinds -> Nat], ListStart(w) PROVE Types
  BY DEF ListBegins
<1>1. Idle \in JobStates /\ Idle.todo = <<>>
  BY IdleJob
<1>2. DOMAIN table \subseteq Urls /\ \A u \in DOMAIN table : table[u] \in Grades
  <2>1. DOMAIN table = UrlsOf(Stored)
    BY DEF ListStart
  <2>2. ASSUME NEW u \in DOMAIN table PROVE table[u] \in Grades
    <3>1. PICK i \in 1 .. Len(Stored) : Stored[i].url = u
      BY <2>1, <2>2, KnownUrls, UrlsOfList
    <3>2. Stored[i] \in ToSet(Stored)
      BY KnownUrls, LenProperties DEF ToSet
    <3>3. \A s \in ToSet(Stored) : s \in Sources
      BY KnownUrls, LenProperties, ElementOfSeq DEF ToSet
    <3>4. PICK s : s \in ToSet(Stored) /\ s.url = u /\ table[u] = s.grade
      <4> DEFINE s == CHOOSE s \in ToSet(Stored) : s.url = u
      <4>1. s \in ToSet(Stored) /\ s.url = u
        BY <3>1, <3>2
      <4>2. table[u] = s.grade
        BY <2>1, <2>2 DEF ListStart
      <4> QED
        BY <4>1, <4>2
    <3> QED
      BY <3>3, <3>4 DEF Sources
  <2> QED
    BY <2>1, <2>2, KnownUrls
<1>3. quota \in [Kinds -> Nat]
  BY ListConstants DEF ListStart
<1>4. ListTypeOK
  BY <1>1, <1>2, <1>3, KnownUrls DEF ListStart, ListTypeOK, JobStates
<1>5. TodoKnown
  BY <1>1 DEF ListStart, TodoKnown
<1> QED
  BY <1>4, <1>5 DEF Types

\* A request uses up a unit of its quota.
LEMMA AskedQuota ==
  ASSUME ListTypeOK, NEW k \in Kinds, Ask(k)
  PROVE  quota' \in [Kinds -> Nat]
<1>1. quota \in [Kinds -> Nat] /\ quota[k] \in Nat
  BY DEF ListTypeOK
<1>2. quota[k] - 1 \in Nat /\ quota' = [quota EXCEPT ![k] = quota[k] - 1]
  BY <1>1 DEF Ask
<1> QED
  BY <1>1, <1>2

\* The steps of an import.
LEMMA ImportTypes ==
  ASSUME Types, NEW t \in Threads,
         Import(t) \/ ImportCheck(t) \/ ImportInsert(t) \/ ImportPush(t) \/ ImportEnds(t)
  PROVE  Types'
<1> USE DEF Types
<1>0. /\ job \in [Threads -> JobStates] /\ pc \in [Threads -> PCs]
      /\ job[t].todo \in Seq(Sources) /\ Len(job[t].todo) \in Nat
  BY DEF ListTypeOK, JobStates, PCs
<1>1. CASE Import(t)
  <2>1. PICK feed \in Feeds : job' = [job EXCEPT ![t] = [Idle EXCEPT !.todo = feed]]
    BY <1>1 DEF Import
  <2>2. [Idle EXCEPT !.todo = feed] \in JobStates
    BY KnownUrls, IdleJob DEF JobStates
  <2>a. pc' \in [Threads -> PCs]
    BY <1>0, <1>1 DEF Import, Goto, PCs
  <2>3. job' \in [Threads -> JobStates] /\ pc' \in [Threads -> PCs]
    BY <1>0, <2>1, <2>2, <2>a
  <2>4. quota' \in [Kinds -> Nat]
    BY <1>1, AskedQuota DEF Import, Kinds
  <2>5. ListTypeOK'
    BY <1>1, <2>3, <2>4 DEF Import, ListTypeOK, data, history, JobStates, PCs
  <2>6. TodoKnown'
    BY <1>0, <1>1, <2>1, KnownUrls DEF Import, TodoKnown, Goto, Idle
  <2> QED
    BY <2>5, <2>6
<1> DEFINE todo == job[t].todo
<1>a. ASSUME todo # <<>>
      PROVE  /\ Head(todo) \in Sources /\ Head(todo).url \in Urls /\ Tail(todo) \in Seq(Sources)
             /\ \A i \in 1 .. Len(Tail(todo)) : Tail(todo)[i].url \in Urls
  <2>1. /\ Head(todo) \in Sources /\ Tail(todo) \in Seq(Sources)
        /\ Len(Tail(todo)) = Len(todo) - 1
        /\ \A i \in 1 .. Len(Tail(todo)) : Tail(todo)[i] = todo[i + 1]
    BY <1>0, <1>a, HeadTailProperties
  <2>2. Head(todo) = todo[1] /\ 1 \in 1 .. Len(todo)
    BY <1>0, <1>a, EmptySeq
  <2>3. \A i \in 1 .. Len(Tail(todo)) : i + 1 \in 1 .. Len(todo)
    BY <1>0, <2>1
  <2> QED
    BY <2>1, <2>2, <2>3 DEF TodoKnown
<1>2. CASE ImportCheck(t)
  <2>a. pc' \in [Threads -> PCs]
    BY <1>0, <1>2 DEF ImportCheck, Goto, PCs
  <2>b. \/ job' = job
        \/ job' = [job EXCEPT ![t] = [job[t] EXCEPT !.todo = Tail(todo)]]
    BY <1>0, <1>2 DEF ImportCheck
  <2>c. [job[t] EXCEPT !.todo = Tail(todo)] \in JobStates
    BY <1>0, <1>2, <1>a DEF ImportCheck, JobStates
  <2>1. job' \in [Threads -> JobStates] /\ pc' \in [Threads -> PCs]
    BY <1>0, <2>a, <2>b, <2>c
  <2>2. ListTypeOK'
    BY <1>2, <2>1 DEF ImportCheck, ListTypeOK, data, history, JobStates, PCs
  <2>3. TodoKnown'
    BY <1>0, <1>2, <1>a DEF ImportCheck, TodoKnown, Goto, JobStates, PCs
  <2> QED
    BY <2>2, <2>3
<1>3. CASE ImportInsert(t)
  <2>1. todo # <<>>
    BY <1>3 DEF ImportInsert, TodoKnown
  <2>2. DOMAIN table' \subseteq Urls /\ \A u \in DOMAIN table' : table'[u] \in Grades
    BY <1>3, <1>a, <2>1 DEF ImportInsert, ListTypeOK, Sources
  <2>3. pc' \in [Threads -> PCs]
    BY <1>0, <1>3 DEF ImportInsert, Goto, PCs
  <2>4. touched' \in BOOLEAN /\ overlap' \in BOOLEAN
    BY <1>3 DEF ImportInsert, Writes, ListTypeOK
  <2>5. ListTypeOK'
    BY <1>3, <2>2, <2>3, <2>4 DEF ImportInsert, ListTypeOK, PCs
  <2>6. TodoKnown'
    BY <1>0, <1>3, <2>1 DEF ImportInsert, TodoKnown, Goto
  <2> QED
    BY <2>5, <2>6
<1>4. CASE ImportPush(t)
  <2>1. todo # <<>>
    BY <1>4 DEF ImportPush, TodoKnown
  <2>2. sources' \in Seq(Sources)
    BY <1>4, <1>a, <2>1, AppendOne DEF ImportPush, Push, ListTypeOK
  <2>3. PICK moves \in BOOLEAN :
            job' = [u \in Threads |-> IF u = t THEN [job[t] EXCEPT !.todo = Tail(@)]
                                      ELSE [job[u] EXCEPT !.moved = @ \/ moves]]
    BY <1>4 DEF ImportPush, Push
  <2>4. [job[t] EXCEPT !.todo = Tail(@)] \in JobStates
    BY <1>0, <1>a, <2>1 DEF JobStates
  <2>5. \A u \in Threads : [job[u] EXCEPT !.moved = @ \/ moves] \in JobStates
    BY <1>0 DEF JobStates
  <2>6. job' \in [Threads -> JobStates] /\ pc' \in [Threads -> PCs]
    BY <1>0, <1>4, <2>3, <2>4, <2>5 DEF ImportPush, Goto, PCs
  <2>7. touched' \in BOOLEAN /\ overlap' \in BOOLEAN
    BY <1>4 DEF ImportPush, Writes, ListTypeOK
  <2>8. ListTypeOK'
    BY <1>4, <2>2, <2>6, <2>7 DEF ImportPush, ListTypeOK, JobStates, PCs
  <2>9. TodoKnown'
    BY <1>0, <1>4, <1>a, <2>1, <2>3 DEF ImportPush, TodoKnown, Goto, JobStates
  <2> QED
    BY <2>8, <2>9
<1>5. CASE ImportEnds(t)
  <2>1. pc' \in [Threads -> PCs]
    BY <1>0, <1>5 DEF ImportEnds, Goto, PCs
  <2> QED
    BY <1>0, <1>5, <2>1 DEF ImportEnds, ListTypeOK, TodoKnown, data, history, PCs, Goto
<1> QED
  BY <1>1, <1>2, <1>3, <1>4, <1>5

\* A thread that edits or searches nothing keeps what it still has to import.
LEMMA TodoKept ==
  ASSUME TodoKnown, NEW t \in Threads, job \in [Threads -> JobStates], pc \in [Threads -> PCs],
         pc' \in [Threads -> PCs],
         \A u \in Threads \ {t} : pc'[u] = pc[u],
         pc'[t] \notin {"insert", "push"},
         \A u \in Threads : job'[u].todo \in {job[u].todo, <<>>},
         \A u \in Threads \ {t} : job'[u].todo = job[u].todo
  PROVE  TodoKnown'
<1>1. Len(<<>>) = 0
  OBVIOUS
<1> QED
  BY <1>1 DEF TodoKnown

\* Removing, sweeping and clearing.
LEMMA RemovalTypes ==
  ASSUME Types, NEW t \in Threads,
         \/ RemoveSource(t) \/ RemoveErase(t) \/ Sweep(t) \/ SweepOne(t) \/ SweepEnds(t)
         \/ Clear(t) \/ ClearWipe(t)
  PROVE  Types'
<1> USE DEF Types
<1>0. /\ job \in [Threads -> JobStates] /\ pc \in [Threads -> PCs]
      /\ job[t] \in JobStates /\ job[t].at \in Int /\ cur \in Nat /\ chosen \in Nat /\ shifts \in Nat
      /\ sources \in Seq(Sources) /\ Len(sources) \in Nat
  BY DEF ListTypeOK, JobStates, PCs
<1>b. ASSUME Break PROVE Types'
  BY <1>b DEF Break, ListTypeOK, TodoKnown, data, history
<1>c. ASSUME NEW i \in Int PROVE [Idle EXCEPT !.at = i] \in JobStates
  BY IdleJob DEF JobStates
<1>1. CASE RemoveSource(t)
  <2>1. PICK i \in 0 .. Len(sources) - 1 :
            /\ job' = [job EXCEPT ![t] = [Idle EXCEPT !.at = i]]
            /\ table' = [u \in DOMAIN table \ {Url(i)} |-> table[u]]
    BY <1>1 DEF RemoveSource
  <2>2. job' \in [Threads -> JobStates]
    BY <1>0, <1>c, <2>1
  <2>3. pc' \in [Threads -> PCs] /\ pc' = [pc EXCEPT ![t] = "erase"]
    BY <1>0, <1>1 DEF RemoveSource, Goto, PCs
  <2>4. touched' \in BOOLEAN /\ overlap' \in BOOLEAN
    BY <1>1 DEF RemoveSource, Writes, ListTypeOK
  <2>5. quota' \in [Kinds -> Nat]
    BY <1>1, AskedQuota DEF RemoveSource, Kinds
  <2>6. ListTypeOK'
    BY <1>1, <2>1, <2>2, <2>3, <2>4, <2>5 DEF RemoveSource, ListTypeOK, JobStates, PCs
  <2>7. \A u \in Threads : job'[u].todo = IF u = t THEN <<>> ELSE job[u].todo
    BY <1>0, <2>1, IdleJob DEF JobStates
  <2> QED
    BY <1>0, <2>3, <2>6, <2>7, TodoKept
<1>2. CASE RemoveErase(t)
  <2>1. CASE Break
    BY <2>1, <1>b
  <2>2. CASE InRange(job[t].at)
    <3>1. sources' \in Seq(Sources)
      BY <1>0, <1>2, <2>2, EraseOne DEF RemoveErase, InRange
    <3>2. cur' \in Nat /\ chosen' \in Nat
      BY <1>0, <1>2, <2>2, <3>1, ClampIsNat DEF RemoveErase
    <3>3. pc' \in [Threads -> PCs] /\ pc' = [pc EXCEPT ![t] = "idle"]
      BY <1>0, <1>2, <2>2 DEF RemoveErase, Goto, PCs
    <3>4. touched' \in BOOLEAN /\ overlap' \in BOOLEAN
      BY <1>2, <2>2 DEF RemoveErase, Writes, ListTypeOK
    <3>5. ListTypeOK'
      BY <1>0, <1>2, <2>2, <3>1, <3>2, <3>3, <3>4 DEF RemoveErase, ListTypeOK, PCs
    <3> QED
      BY <1>0, <1>2, <2>2, <3>3, <3>5, TodoKept DEF RemoveErase
  <2> QED
    BY <1>2, <2>1, <2>2 DEF RemoveErase
<1>3. CASE Sweep(t)
  <2>1. job' = [job EXCEPT ![t] = [Idle EXCEPT !.at = Len(sources) - 1]]
    BY <1>3 DEF Sweep
  <2>2. job' \in [Threads -> JobStates]
    BY <1>0, <1>c, <2>1
  <2>3. pc' \in [Threads -> PCs] /\ pc' = [pc EXCEPT ![t] = "sweep"]
    BY <1>0, <1>3 DEF Sweep, Goto, PCs
  <2>4. quota' \in [Kinds -> Nat]
    BY <1>3, AskedQuota DEF Sweep, Kinds
  <2>5. ListTypeOK'
    BY <1>3, <2>2, <2>3, <2>4 DEF Sweep, ListTypeOK, JobStates, PCs, data, history
  <2>6. \A u \in Threads : job'[u].todo = IF u = t THEN <<>> ELSE job[u].todo
    BY <1>0, <2>1, IdleJob DEF JobStates
  <2> QED
    BY <1>0, <2>3, <2>5, <2>6, TodoKept
<1>4. CASE SweepOne(t)
  <2>1. CASE Break
    BY <2>1, <1>b
  <2>2. CASE InRange(job[t].at)
    <3>1. sources' \in Seq(Sources)
      BY <1>0, <1>4, <2>2, EraseOne DEF SweepOne, InRange
    <3>2. DOMAIN table' \subseteq Urls /\ \A u \in DOMAIN table' : table'[u] \in Grades
      BY <1>4, <2>2 DEF SweepOne, ListTypeOK
    <3>3. job' = [job EXCEPT ![t] = [job[t] EXCEPT !.at = job[t].at - 1]]
      BY <1>0, <1>4, <2>2 DEF SweepOne
    <3>4. [job[t] EXCEPT !.at = job[t].at - 1] \in JobStates
      <4>1. job[t].at - 1 \in Int
        BY <1>0
      <4>2. \A i \in Int : [job[t] EXCEPT !.at = i] \in JobStates
        BY <1>0 DEF JobStates
      <4> QED
        BY <4>1, <4>2
    <3>5. job' \in [Threads -> JobStates]
      BY <1>0, <3>3, <3>4
    <3>6. touched' \in BOOLEAN /\ overlap' \in BOOLEAN
      BY <1>4, <2>2 DEF SweepOne, Writes, ListTypeOK
    <3>a. shifts' \in Nat
      BY <1>0, <1>4, <2>2 DEF SweepOne
    <3>b. UNCHANGED <<cur, holder, pc, quota, broken, chosen, swept>>
      BY <1>4, <2>2 DEF SweepOne
    <3>7. ListTypeOK'
      BY <3>1, <3>2, <3>5, <3>6, <3>a, <3>b DEF ListTypeOK, JobStates
    <3>8. \A u \in Threads : job'[u].todo = job[u].todo
      BY <1>0, <3>3 DEF JobStates
    <3>9. pc' = pc /\ pc[t] = "sweep"
      BY <1>4, <2>2 DEF SweepOne
    <3> QED
      BY <1>0, <3>7, <3>8, <3>9, TodoKept
  <2> QED
    BY <1>4, <2>1, <2>2 DEF SweepOne
<1>5. CASE SweepEnds(t)
  <2>1. cur' \in Nat /\ chosen' \in Nat
    BY <1>0, <1>5, ClampIsNat DEF SweepEnds
  <2>2. pc' \in [Threads -> PCs] /\ pc' = [pc EXCEPT ![t] = "idle"]
    BY <1>0, <1>5 DEF SweepEnds, Goto, PCs
  <2>3. touched' \in BOOLEAN /\ overlap' \in BOOLEAN /\ swept' \in BOOLEAN
    BY <1>5 DEF SweepEnds, Writes, ListTypeOK
  <2>4. ListTypeOK'
    BY <1>0, <1>5, <2>1, <2>2, <2>3 DEF SweepEnds, ListTypeOK, PCs
  <2> QED
    BY <1>0, <1>5, <2>2, <2>4, TodoKept DEF SweepEnds
<1>6. CASE Clear(t)
  <2>1. pc' \in [Threads -> PCs] /\ pc' = [pc EXCEPT ![t] = "wipe"]
    BY <1>0, <1>6 DEF Clear, Goto, PCs
  <2>2. touched' \in BOOLEAN /\ overlap' \in BOOLEAN
    BY <1>6 DEF Clear, Writes, ListTypeOK
  <2>3. quota' \in [Kinds -> Nat]
    BY <1>6, AskedQuota DEF Clear, Kinds
  <2>4. DOMAIN table' \subseteq Urls /\ \A u \in DOMAIN table' : table'[u] \in Grades
    BY <1>6 DEF Clear, ListTypeOK
  <2>5. ListTypeOK'
    BY <1>0, <1>6, <2>1, <2>2, <2>3, <2>4 DEF Clear, ListTypeOK, PCs
  <2> QED
    BY <1>0, <1>6, <2>1, <2>5, TodoKept DEF Clear
<1>7. CASE ClearWipe(t)
  <2>1. pc' \in [Threads -> PCs] /\ pc' = [pc EXCEPT ![t] = "idle"]
    BY <1>0, <1>7 DEF ClearWipe, Goto, PCs
  <2>2. touched' \in BOOLEAN /\ overlap' \in BOOLEAN
    BY <1>7 DEF ClearWipe, Writes, ListTypeOK
  <2>3. ListTypeOK'
    BY <1>0, <1>7, <2>1, <2>2 DEF ClearWipe, ListTypeOK, PCs
  <2> QED
    BY <1>0, <1>7, <2>1, <2>3, TodoKept DEF ClearWipe
<1> QED
  BY <1>1, <1>2, <1>3, <1>4, <1>5, <1>6, <1>7

\* The fields a search or a locked request sets.
LEMMA FieldTypes ==
  ASSUME NEW j \in JobStates
  PROVE  /\ \A n \in Nat : [j EXCEPT !.prev = n] \in JobStates
         /\ \A u \in Urls \union {Temp} : [j EXCEPT !.want = u] \in JobStates
         /\ \A n \in Nat, u \in Urls \union {Temp} : [j EXCEPT !.prev = n, !.want = u] \in JobStates
         /\ \A us \in SUBSET (Urls \union {Temp}) : [j EXCEPT !.used = us] \in JobStates
         /\ \A n \in Int, us \in SUBSET (Urls \union {Temp}) :
                [j EXCEPT !.at = n, !.moved = FALSE, !.used = us] \in JobStates
         /\ \A b \in BOOLEAN : [j EXCEPT !.moved = b] \in JobStates
  BY DEF JobStates

\* A step that changes one thread's job, next to its control point.
LEMMA OneJob ==
  ASSUME Types, NEW t \in Threads, NEW j \in JobStates, job' = [job EXCEPT ![t] = j],
         j.todo \in {job[t].todo, <<>>},
         pc' \in [Threads -> PCs], \A u \in Threads \ {t} : pc'[u] = pc[u],
         pc'[t] \notin {"insert", "push"}
  PROVE  job' \in [Threads -> JobStates] /\ TodoKnown'
<1>1. job \in [Threads -> JobStates] /\ pc \in [Threads -> PCs] /\ TodoKnown
  BY DEF Types, ListTypeOK, JobStates, PCs
<1>2. job' \in [Threads -> JobStates]
  BY <1>1
<1>3. /\ \A u \in Threads : job'[u].todo \in {job[u].todo, <<>>}
      /\ \A u \in Threads \ {t} : job'[u].todo = job[u].todo
  BY <1>1
<1> QED
  BY <1>1, <1>2, <1>3, TodoKept

\* The search without the lock.
LEMMA SearchTypes ==
  ASSUME Types, NEW t \in Threads,
         Select(t) \/ SearchAsk(t) \/ SearchFetch(t) \/ SearchLabel(t)
  PROVE  Types'
<1>0. /\ job \in [Threads -> JobStates] /\ pc \in [Threads -> PCs] /\ ListTypeOK
      /\ job[t] \in JobStates /\ job[t].at \in Int /\ cur \in Nat /\ chosen \in Nat
      /\ sources \in Seq(Sources) /\ Len(sources) \in Nat
  BY DEF Types, ListTypeOK, JobStates, PCs
<1>b. ASSUME Break PROVE Types'
  BY <1>0, <1>b DEF Types, Break, ListTypeOK, TodoKnown, data, history
<1>c. ASSUME InRange(cur) PROVE Url(cur) \in Urls \union {Temp}
  BY <1>0, <1>c, UrlKnown
<1>1. CASE Select(t)
  <2>1. PICK i \in -1 .. Len(sources) - 1 :
            /\ cur' = IF i = -1 THEN cur ELSE i
            /\ chosen' = IF i = -1 THEN chosen ELSE i
            /\ job' = [job EXCEPT ![t] = [Idle EXCEPT !.want = IF InRange(cur') THEN Url(cur')
                                                               ELSE Temp]]
    BY <1>1 DEF Select
  <2>2. cur' \in Nat /\ chosen' \in Nat
    BY <1>0, <2>1
  <2> DEFINE want == IF InRange(cur') THEN Url(cur') ELSE Temp
  <2>3. want \in Urls \union {Temp}
    BY <1>0, <2>2, UrlKnown
  <2> HIDE DEF want
  <2>4. [Idle EXCEPT !.want = want] \in JobStates /\ [Idle EXCEPT !.want = want].todo = <<>>
    <3>1. [Idle EXCEPT !.want = want] \in JobStates
      BY <2>3, IdleJob, FieldTypes
    <3> QED
      BY <3>1, IdleJob DEF JobStates
  <2>5. pc' \in [Threads -> PCs] /\ pc' = [pc EXCEPT ![t] = "ask"]
    BY <1>0, <1>1 DEF Select, Goto, PCs
  <2>6. job' \in [Threads -> JobStates] /\ TodoKnown'
    BY <1>0, <2>1, <2>4, <2>5, OneJob DEF want
  <2>7. touched' \in BOOLEAN /\ overlap' \in BOOLEAN /\ quota' \in [Kinds -> Nat]
    BY <1>0, <1>1, AskedQuota DEF Select, Writes, ListTypeOK, Kinds
  <2>8. UNCHANGED <<sources, table, holder, broken, shifts, swept>>
    BY <1>1 DEF Select
  <2>9. ListTypeOK'
    BY <1>0, <2>2, <2>5, <2>6, <2>7, <2>8 DEF ListTypeOK, JobStates, PCs
  <2> QED
    BY <2>6, <2>9 DEF Types
<1>d. ASSUME NEW j \in JobStates, NEW at \in PCs \ {"insert", "push"},
             job' = [job EXCEPT ![t] = j], pc' = [pc EXCEPT ![t] = at],
             j.todo \in {job[t].todo, <<>>},
             UNCHANGED <<data, holder, quota, broken, history>>
      PROVE  Types'
  <2>1. pc' \in [Threads -> PCs] /\ pc'[t] = at /\ \A u \in Threads \ {t} : pc'[u] = pc[u]
    BY <1>0, <1>d
  <2>2. job' \in [Threads -> JobStates] /\ TodoKnown'
    BY <1>d, <2>1, OneJob
  <2> QED
    BY <1>0, <1>d, <2>1, <2>2 DEF Types, ListTypeOK, JobStates, PCs, data, history
<1>2. CASE SearchAsk(t)
  <2>1. CASE Break
    BY <2>1, <1>b
  <2>2. CASE ~Break /\ UNCHANGED job
    <3>1. job' = [job EXCEPT ![t] = job[t]]
      BY <1>0, <2>2
    <3>2. PICK at \in {"idle", "fetch"} : pc' = [pc EXCEPT ![t] = at]
      BY <1>2, <2>2 DEF SearchAsk, Goto
    <3> QED
      BY <1>0, <1>2, <1>d, <2>2, <3>1, <3>2 DEF SearchAsk, PCs
  <2>3. CASE ~Break /\ job' # job
    <3>1. InRange(cur)
      BY <1>2, <2>3 DEF SearchAsk
    <3> DEFINE j == [job[t] EXCEPT !.at = cur, !.moved = FALSE, !.used = {Url(cur)}]
    <3>a. cur \in Int /\ {Url(cur)} \in SUBSET (Urls \union {Temp})
      BY <1>0, <1>c, <3>1
    <3>b. j \in JobStates
      BY <1>0, <3>a, FieldTypes
    <3>2. j \in JobStates /\ j.todo = job[t].todo
      BY <1>0, <3>b DEF JobStates
    <3>3. /\ job' = [job EXCEPT ![t] = j] /\ pc' = [pc EXCEPT ![t] = "fetch"]
          /\ UNCHANGED <<data, holder, quota, broken, history>>
      BY <1>0, <1>2, <2>3 DEF SearchAsk, Goto
    <3> QED
      BY <1>d, <3>2, <3>3 DEF PCs
  <2> QED
    BY <2>1, <2>2, <2>3
<1>3. CASE SearchFetch(t)
  <2>1. CASE Break
    BY <2>1, <1>b
  <2>2. CASE Usable(t)
    <3> DEFINE j == [job[t] EXCEPT !.used = Used(t)]
    <3>1. Used(t) \in SUBSET (Urls \union {Temp})
      BY <1>0, <2>2, UrlKnown DEF Used, Usable, JobStates
    <3>2. j \in JobStates /\ j.todo = job[t].todo
      BY <1>0, <3>1, FieldTypes DEF JobStates
    <3>3. /\ job' = [job EXCEPT ![t] = j] /\ pc' = [pc EXCEPT ![t] = "label"]
          /\ UNCHANGED <<data, holder, quota, broken, history>>
      BY <1>0, <1>3, <2>2 DEF SearchFetch, Goto
    <3> QED
      BY <1>d, <3>2, <3>3 DEF PCs
  <2> QED
    BY <1>3, <2>1, <2>2 DEF SearchFetch
<1>4. CASE SearchLabel(t)
  <2>1. CASE Break
    BY <2>1, <1>b
  <2>2. CASE ~Break
    <3>1. /\ job' = [job EXCEPT ![t] = Idle] /\ pc' = [pc EXCEPT ![t] = "idle"]
          /\ UNCHANGED <<data, holder, quota, broken, history>>
      BY <1>4, <2>2 DEF SearchLabel, Goto
    <3> QED
      BY <1>d, <3>1, IdleJob DEF PCs
  <2> QED
    BY <2>1, <2>2
<1> QED
  BY <1>1, <1>2, <1>3, <1>4

\* The requests under the lock.
LEMMA LockedTypes ==
  ASSUME Types, NEW t \in Threads,
         \/ Lock(t) \/ Request(t) \/ Page(t) \/ Restore(t)
         \/ Plug(t) \/ Download(t) \/ Unplug(t)
  PROVE  Types'
<1>0. /\ job \in [Threads -> JobStates] /\ pc \in [Threads -> PCs] /\ ListTypeOK
      /\ job[t] \in JobStates /\ job[t].at \in Int /\ job[t].prev \in Nat /\ cur \in Nat
      /\ sources \in Seq(Sources) /\ Len(sources) \in Nat /\ shifts \in Nat
  BY DEF Types, ListTypeOK, JobStates, PCs
<1>b. ASSUME Break PROVE Types'
  BY <1>0, <1>b DEF Types, Break, ListTypeOK, TodoKnown, data, history
<1>c. ASSUME InRange(cur) PROVE Url(cur) \in Urls \union {Temp}
  BY <1>0, <1>c, UrlKnown
<1>d. ASSUME NEW j \in JobStates, NEW at \in PCs \ {"insert", "push"},
             job' = [job EXCEPT ![t] = j], pc' = [pc EXCEPT ![t] = at],
             j.todo \in {job[t].todo, <<>>},
             UNCHANGED <<data, holder, quota, broken, history>>
      PROVE  Types'
  <2>1. pc' \in [Threads -> PCs] /\ pc'[t] = at /\ \A u \in Threads \ {t} : pc'[u] = pc[u]
    BY <1>0, <1>d
  <2>2. job' \in [Threads -> JobStates] /\ TodoKnown'
    BY <1>d, <2>1, OneJob
  <2> QED
    BY <1>0, <1>d, <2>1, <2>2 DEF Types, ListTypeOK, JobStates, PCs, data, history
<1>1. CASE Lock(t)
  <2>1. PICK i \in -1 .. Len(sources) - 1 :
            /\ cur' = IF i = -1 THEN cur ELSE i
            /\ job' = [job EXCEPT ![t] = [Idle EXCEPT !.prev = cur,
                                          !.want = IF InRange(cur') THEN Url(cur') ELSE Temp]]
    BY <1>1 DEF Lock
  <2>2. cur' \in Nat
    BY <1>0, <2>1
  <2> DEFINE want == IF InRange(cur') THEN Url(cur') ELSE Temp
             j == [Idle EXCEPT !.prev = cur, !.want = want]
  <2>3. want \in Urls \union {Temp}
    BY <1>0, <2>2, UrlKnown
  <2> HIDE DEF want
  <2>4. j \in JobStates
    BY <1>0, <2>3, IdleJob, FieldTypes
  <2>5. j.todo = <<>>
    BY IdleJob DEF JobStates
  <2>6. pc' \in [Threads -> PCs] /\ pc' = [pc EXCEPT ![t] = "request"]
    BY <1>0, <1>1 DEF Lock, Goto, PCs
  <2>7. job' = [job EXCEPT ![t] = j]
    BY <2>1 DEF want
  <2> HIDE DEF j
  <2>8. job' \in [Threads -> JobStates] /\ TodoKnown'
    BY <1>0, <2>4, <2>5, <2>6, <2>7, OneJob
  <2>9. touched' \in BOOLEAN /\ overlap' \in BOOLEAN /\ quota' \in [Kinds -> Nat]
    BY <1>0, <1>1, AskedQuota DEF Lock, Writes, ListTypeOK, Kinds
  <2>10. holder' = t /\ UNCHANGED <<sources, table, broken, chosen, shifts, swept>>
    BY <1>1 DEF Lock
  <2>11. ListTypeOK'
    BY <1>0, <2>2, <2>6, <2>8, <2>9, <2>10 DEF ListTypeOK, JobStates, PCs
  <2> QED
    BY <2>8, <2>11 DEF Types
<1>2. CASE Request(t)
  <2>1. CASE Break
    BY <2>1, <1>b
  <2>2. CASE InRange(cur)
    <3> DEFINE j == [job[t] EXCEPT !.at = cur, !.moved = FALSE, !.used = {Url(cur)}]
    <3>1. cur \in Int /\ {Url(cur)} \in SUBSET (Urls \union {Temp})
      BY <1>0, <1>c, <2>2
    <3>2. j \in JobStates
      BY <1>0, <3>1, FieldTypes
    <3>3. j.todo = job[t].todo
      BY <1>0 DEF JobStates
    <3>4. /\ job' = [job EXCEPT ![t] = j] /\ pc' = [pc EXCEPT ![t] = "page"]
          /\ UNCHANGED <<data, holder, quota, broken, history>>
      BY <1>0, <1>2, <2>2 DEF Request, Goto
    <3> QED
      BY <1>d, <3>2, <3>3, <3>4 DEF PCs
  <2> QED
    BY <1>2, <2>1, <2>2 DEF Request
<1>3. CASE Page(t)
  <2>1. CASE Break
    BY <2>1, <1>b
  <2>2. CASE Usable(t)
    <3> DEFINE j == [job[t] EXCEPT !.used = Used(t)]
    <3>1. Used(t) \in SUBSET (Urls \union {Temp})
      BY <1>0, <2>2, UrlKnown DEF Used, Usable, JobStates
    <3>2. j \in JobStates /\ j.todo = job[t].todo
      BY <1>0, <3>1, FieldTypes DEF JobStates
    <3>3. /\ job' = [job EXCEPT ![t] = j] /\ pc' = [pc EXCEPT ![t] = "restore"]
          /\ UNCHANGED <<data, holder, quota, broken, history>>
      BY <1>0, <1>3, <2>2 DEF Page, Goto
    <3> QED
      BY <1>d, <3>2, <3>3 DEF PCs
  <2> QED
    BY <1>3, <2>1, <2>2 DEF Page
<1>4. CASE Restore(t)
  <2>1. pc' \in [Threads -> PCs] /\ pc' = [pc EXCEPT ![t] = "idle"]
    BY <1>0, <1>4 DEF Restore, Goto, PCs
  <2>2. job' = job /\ TodoKnown'
    BY <1>0, <1>4, <2>1, TodoKept DEF Restore, Types
  <2>3. touched' \in BOOLEAN /\ overlap' \in BOOLEAN
    BY <1>0, <1>4 DEF Restore, Writes, ListTypeOK
  <2>4. cur' \in Nat /\ holder' = Nobody
    BY <1>0, <1>4 DEF Restore
  <2>5. UNCHANGED <<sources, table, job, quota, broken, chosen, shifts, swept>>
    BY <1>4 DEF Restore
  <2>6. ListTypeOK'
    BY <1>0, <2>1, <2>3, <2>4, <2>5 DEF ListTypeOK, PCs
  <2> QED
    BY <2>2, <2>6 DEF Types
<1>5. CASE Plug(t)
  <2> DEFINE plugged == [url |-> Temp, name |-> NoName, searchable |-> FALSE, grade |-> "unknown"]
             mine == [Idle EXCEPT !.prev = cur]
  <2>1. plugged \in Sources
    BY ListConstants DEF Sources, Grades
  <2>2. sources' \in Seq(Sources)
    BY <1>0, <1>5, <2>1, AppendOne DEF Plug, Push
  <2>3. mine \in JobStates
    BY <1>0, IdleJob, FieldTypes
  <2>4. mine.todo = <<>>
    BY IdleJob DEF JobStates
  <2>5. PICK moves \in BOOLEAN :
            job' = [u \in Threads |-> IF u = t THEN mine
                                      ELSE [job[u] EXCEPT !.moved = @ \/ moves]]
    BY <1>5 DEF Plug, Push
  <2> HIDE DEF mine
  <2>6. \A u \in Threads : [job[u] EXCEPT !.moved = @ \/ moves] \in JobStates
    BY <1>0 DEF JobStates
  <2>7. job' \in [Threads -> JobStates]
    BY <2>3, <2>5, <2>6
  <2>8. \A u \in Threads : job'[u].todo = IF u = t THEN <<>> ELSE job[u].todo
    BY <1>0, <2>4, <2>5 DEF JobStates
  <2>9. pc' \in [Threads -> PCs] /\ pc' = [pc EXCEPT ![t] = "download"]
    BY <1>0, <1>5 DEF Plug, Goto, PCs
  <2>10. TodoKnown'
    BY <1>0, <2>8, <2>9, TodoKept DEF Types
  <2>11. touched' \in BOOLEAN /\ overlap' \in BOOLEAN /\ quota' \in [Kinds -> Nat]
    BY <1>0, <1>5, AskedQuota DEF Plug, Writes, ListTypeOK, Kinds
  <2>12. cur' \in Nat /\ holder' = t /\ UNCHANGED <<table, broken, chosen, shifts, swept>>
    BY <1>0, <1>5 DEF Plug
  <2>13. ListTypeOK'
    BY <1>0, <2>2, <2>7, <2>9, <2>11, <2>12 DEF ListTypeOK, JobStates, PCs
  <2> QED
    BY <2>10, <2>13 DEF Types
<1>6. CASE Download(t)
  <2>1. CASE Break
    BY <2>1, <1>b
  <2>2. CASE sources = <<>> \/ InRange(cur)
    <3> DEFINE used == IF sources = <<>> THEN {} ELSE {Url(cur)}
               j == [job[t] EXCEPT !.used = used]
    <3>1. used \in SUBSET (Urls \union {Temp})
      BY <1>c, <2>2
    <3>2. /\ job' = [job EXCEPT ![t] = j] /\ pc' = [pc EXCEPT ![t] = "unplug"]
          /\ UNCHANGED <<data, holder, quota, broken, history>>
      BY <1>0, <1>6, <2>2 DEF Download, Goto
    <3> HIDE DEF used
    <3>3. j \in JobStates
      BY <1>0, <3>1, FieldTypes
    <3>4. j.todo = job[t].todo
      BY <1>0 DEF JobStates
    <3> QED
      BY <1>d, <3>2, <3>3, <3>4 DEF PCs
  <2> QED
    BY <1>6, <2>1, <2>2 DEF Download
<1>7. CASE Unplug(t)
  <2>1. CASE Break
    BY <2>1, <1>b
  <2>2. CASE sources # <<>>
    <3>1. pc' \in [Threads -> PCs] /\ pc' = [pc EXCEPT ![t] = "idle"]
      BY <1>0, <1>7, <2>2 DEF Unplug, Goto, PCs
    <3>2. job' = job /\ TodoKnown'
      BY <1>0, <1>7, <2>2, <3>1, TodoKept DEF Unplug, Types
    <3>3. touched' \in BOOLEAN /\ overlap' \in BOOLEAN
      BY <1>0, <1>7, <2>2 DEF Unplug, Writes, ListTypeOK
    <3>4. sources' \in Seq(Sources)
      BY <1>0, <1>7, <2>2, DropLast DEF Unplug
    <3>5. /\ cur' \in Nat /\ holder' = Nobody /\ shifts' \in Nat
          /\ UNCHANGED <<table, job, quota, broken, chosen, swept>>
      BY <1>0, <1>7, <2>2 DEF Unplug
    <3>6. ListTypeOK'
      BY <1>0, <3>1, <3>3, <3>4, <3>5 DEF ListTypeOK, PCs
    <3> QED
      BY <3>2, <3>6 DEF Types
  <2> QED
    BY <1>7, <2>1, <2>2 DEF Unplug
<1> QED
  BY <1>1, <1>2, <1>3, <1>4, <1>5, <1>6, <1>7

\* Every step.
LEMMA StepTypes == Types /\ [ListNext]_listVars => Types'
<1> SUFFICES ASSUME Types, [ListNext]_listVars PROVE Types'
  OBVIOUS
<1>1. CASE ListNext
  <2>1. PICK t \in Threads : Editor(t) \/ Reader(t)
    BY <1>1 DEF ListNext
  <2> QED
    BY <2>1, ImportTypes, RemovalTypes, SearchTypes, LockedTypes DEF Editor, Reader
<1>2. CASE UNCHANGED listVars
  BY <1>2 DEF listVars, data, history, Types, ListTypeOK, TodoKnown
<1> QED
  BY <1>1, <1>2

-----------------------------------------------------------------------------
(* The lock. *)

AtCatalog == {"request", "page", "restore"}
AtArticle == {"download", "unplug"}

\* Who holds the lock is at work under it, and nobody else is.
LockInv ==
    /\ holder # Nobody => pc[holder] \in AtCatalog \union AtArticle
    /\ \A t \in Threads : pc[t] \in AtCatalog \union AtArticle => holder = t

\* The steps in which a thread that does not hold the lock goes on without it.
LEMMA UnlockedStep ==
  ASSUME Types, LockInv, NEW t \in Threads, NEW at \in PCs \ (AtCatalog \union AtArticle),
         pc[t] \notin AtCatalog \union AtArticle,
         pc' = [pc EXCEPT ![t] = at], holder' = holder
  PROVE  LockInv'
<1>1. pc \in [Threads -> PCs] /\ holder \in Threads \union {Nobody}
  BY DEF Types, ListTypeOK, PCs
<1>2. holder # t
  BY ListConstants DEF LockInv
<1> QED
  BY <1>1, <1>2 DEF LockInv

\* The same with the lock.
LEMMA HoldersStep ==
  ASSUME Types, LockInv, NEW t \in Threads, NEW at \in AtCatalog \union AtArticle,
         pc[t] \in AtCatalog \union AtArticle,
         pc' = [pc EXCEPT ![t] = at], holder' = holder
  PROVE  LockInv'
<1>1. pc \in [Threads -> PCs] /\ holder = t
  BY DEF Types, ListTypeOK, PCs, LockInv
<1> QED
  BY <1>1 DEF LockInv

\* Every step: who takes the lock is at work under it, and leaves it when done.
LEMMA StepLock == Types /\ LockInv /\ [ListNext]_listVars => LockInv'
<1> SUFFICES ASSUME Types, LockInv, [ListNext]_listVars PROVE LockInv'
  OBVIOUS
<1>0. pc \in [Threads -> PCs] /\ holder \in Threads \union {Nobody} /\ Nobody \notin Threads
  BY ListConstants DEF Types, ListTypeOK, PCs
<1>1. CASE UNCHANGED <<pc, holder>>
  BY <1>1 DEF LockInv
<1>2. ASSUME NEW t \in Threads, ~UNCHANGED <<pc, holder>>, Editor(t)
      PROVE  LockInv'
  <2>1. pc[t] \notin AtCatalog \union AtArticle /\ holder' = holder
    BY <1>2 DEF Editor, Import, ImportCheck, ImportInsert, ImportPush, ImportEnds, RemoveSource,
       RemoveErase, Sweep, SweepOne, SweepEnds, Clear, ClearWipe, AtCatalog, AtArticle, Break
  <2>2. \E at \in PCs \ (AtCatalog \union AtArticle) : pc' = [pc EXCEPT ![t] = at]
    BY <1>2 DEF Editor, Import, ImportCheck, ImportInsert, ImportPush, ImportEnds, RemoveSource,
       RemoveErase, Sweep, SweepOne, SweepEnds, Clear, ClearWipe, AtCatalog, AtArticle, Break,
       Goto, PCs
  <2> QED
    BY <2>1, <2>2, UnlockedStep
<1>3. ASSUME NEW t \in Threads, ~UNCHANGED <<pc, holder>>,
             Select(t) \/ SearchAsk(t) \/ SearchFetch(t) \/ SearchLabel(t)
      PROVE  LockInv'
  <2>1. pc[t] \notin AtCatalog \union AtArticle /\ holder' = holder
    BY <1>3 DEF Select, SearchAsk, SearchFetch, SearchLabel, AtCatalog, AtArticle, Break
  <2>2. \E at \in PCs \ (AtCatalog \union AtArticle) : pc' = [pc EXCEPT ![t] = at]
    BY <1>3 DEF Select, SearchAsk, SearchFetch, SearchLabel, AtCatalog, AtArticle, Break, Goto, PCs
  <2> QED
    BY <2>1, <2>2, UnlockedStep
<1>4. ASSUME NEW t \in Threads, ~UNCHANGED <<pc, holder>>, Request(t) \/ Page(t) \/ Download(t)
      PROVE  LockInv'
  <2>1. pc[t] \in AtCatalog \union AtArticle /\ holder' = holder
    BY <1>4 DEF Request, Page, Download, AtCatalog, AtArticle, Break
  <2>2. \E at \in AtCatalog \union AtArticle : pc' = [pc EXCEPT ![t] = at]
    BY <1>4 DEF Request, Page, Download, AtCatalog, AtArticle, Break, Goto
  <2> QED
    BY <2>1, <2>2, HoldersStep
<1>5. ASSUME NEW t \in Threads, Lock(t) \/ Plug(t)
      PROVE  LockInv'
  <2>1. holder = Nobody /\ holder' = t
    BY <1>5 DEF Lock, Plug
  <2>2. \E at \in AtCatalog \union AtArticle : pc' = [pc EXCEPT ![t] = at]
    BY <1>5 DEF Lock, Plug, Goto, AtCatalog, AtArticle
  <2> QED
    BY <1>0, <2>1, <2>2 DEF LockInv
<1>6. ASSUME NEW t \in Threads, ~UNCHANGED <<pc, holder>>, Restore(t) \/ Unplug(t)
      PROVE  LockInv'
  <2>1. pc[t] \in AtCatalog \union AtArticle /\ holder' = Nobody /\ pc' = [pc EXCEPT ![t] = "idle"]
    BY <1>6 DEF Restore, Unplug, AtCatalog, AtArticle, Break, Goto
  <2>2. "idle" \notin AtCatalog \union AtArticle
    BY DEF AtCatalog, AtArticle
  <2> QED
    BY <1>0, <2>1, <2>2 DEF LockInv
<1> QED
  BY <1>1, <1>2, <1>3, <1>4, <1>5, <1>6 DEF ListNext, Reader, listVars

-----------------------------------------------------------------------------
(* What is fetched. *)

\* What a request under the lock works with, unless the list or the index was written
\* meanwhile.
FetchInv ==
    ~touched => \A t \in Threads :
        /\ pc[t] = "request" => (InRange(cur) => job[t].want = Url(cur))
        /\ pc[t] = "page" => /\ InRange(cur) /\ job[t].at = cur
                             /\ job[t].want = Url(cur) /\ job[t].used = {Url(cur)}
        /\ pc[t] = "restore" => job[t].used \subseteq {job[t].want}
        /\ pc[t] \in AtArticle =>
             /\ sources # <<>> /\ cur = Len(sources) - 1
             /\ Url(cur) = Temp /\ job[t].want = Temp
        /\ pc[t] = "unplug" => job[t].used \subseteq {job[t].want}

\* A write without the lock, by a thread that does not hold it, while nobody does.
LEMMA WriteOutside ==
  ASSUME Types, LockInv, NEW t \in Threads, pc[t] \notin AtCatalog \union AtArticle,
         Writes(t), ~touched'
  PROVE  ~touched /\ holder = Nobody
<1>1. holder # t
  BY ListConstants DEF LockInv
<1> QED
  BY <1>1 DEF Writes

\* Nobody fetches while the lock is free.
LEMMA FreeMeansNoFetch ==
  ASSUME Types, LockInv, holder = Nobody
  PROVE  FetchInv
  BY ListConstants DEF LockInv, FetchInv, AtCatalog, AtArticle

\* A step that changes neither the list nor the index, nor the jobs of others.
LEMMA FetchKept ==
  ASSUME Types, LockInv, FetchInv, NEW t \in Threads, pc[t] \notin AtCatalog \union AtArticle,
         UNCHANGED <<sources, cur, touched>>,
         pc'[t] \notin AtCatalog \union AtArticle,
         \A u \in Threads \ {t} : pc'[u] = pc[u] /\ job'[u] = job[u]
  PROVE  FetchInv'
  BY DEF FetchInv, AtCatalog, AtArticle, InRange, Url

\* Under the lock, from the request to the last page.
LEMMA FetchCatalog ==
  ASSUME Types, LockInv, FetchInv, LockInv', NEW t \in Threads,
         Lock(t) \/ Request(t) \/ Page(t)
  PROVE  FetchInv'
<1>0. /\ job \in [Threads -> JobStates] /\ pc \in [Threads -> PCs] /\ job[t] \in JobStates
      /\ sources \in Seq(Sources) /\ Len(sources) \in Nat
  BY DEF Types, ListTypeOK, JobStates, PCs
<1>1. SUFFICES ASSUME ~touched', NEW u \in Threads
               PROVE  /\ pc'[u] = "request" => (InRange(cur)' => job'[u].want = Url(cur)')
                      /\ pc'[u] = "page" => /\ InRange(cur)'
                                            /\ job'[u].at = cur' /\ job'[u].want = Url(cur)'
                                            /\ job'[u].used = {Url(cur)'}
                      /\ pc'[u] = "restore" => job'[u].used \subseteq {job'[u].want}
                      /\ pc'[u] \in AtArticle =>
                           /\ sources' # <<>> /\ cur' = Len(sources') - 1
                           /\ Url(cur)' = Temp /\ job'[u].want = Temp
                      /\ pc'[u] = "unplug" => job'[u].used \subseteq {job'[u].want}
  BY DEF FetchInv
<1>b. ASSUME Break PROVE FetchInv'
  BY <1>b DEF Break, FetchInv, data, history, InRange, Url
<1>2. CASE Lock(t)
  <2>1. PICK i \in -1 .. Len(sources) - 1 :
            job' = [job EXCEPT ![t] = [Idle EXCEPT !.prev = cur,
                                       !.want = IF InRange(cur') THEN Url(cur') ELSE Temp]]
    BY <1>2 DEF Lock
  <2>2. sources' = sources /\ holder' = t /\ pc' = [pc EXCEPT ![t] = "request"]
    BY <1>2 DEF Lock, Goto
  <2>3. job'[t].want = IF InRange(cur') THEN Url(cur') ELSE Temp
    BY <1>0, <2>1 DEF Idle
  <2>4. InRange(cur)' = InRange(cur') /\ Url(cur)' = Url(cur')
    BY <2>2 DEF InRange, Url
  <2>5. CASE u = t
    BY <1>0, <2>2, <2>3, <2>4, <2>5 DEF AtArticle
  <2>6. CASE u # t
    BY <2>2, <2>6 DEF LockInv, AtCatalog, AtArticle
  <2> QED
    BY <2>5, <2>6
<1>3. CASE Request(t)
  <2>1. CASE Break
    BY <1>1, <1>b, <2>1 DEF FetchInv
  <2>2. CASE InRange(cur)
    <3>1. /\ job' = [job EXCEPT ![t] = [job[t] EXCEPT !.at = cur, !.moved = FALSE,
                                                      !.used = {Url(cur)}]]
          /\ pc' = [pc EXCEPT ![t] = "page"] /\ pc[t] = "request"
          /\ UNCHANGED <<sources, cur, touched, holder>>
      BY <1>0, <1>3, <2>2 DEF Request, Goto, data, history
    <3>2. job[t].want = Url(cur) /\ holder = t
      BY <1>1, <2>2, <3>1 DEF FetchInv, LockInv, AtCatalog
    <3>3. job'[t].at = cur /\ job'[t].used = {Url(cur)} /\ job'[t].want = Url(cur)
      BY <1>0, <3>1, <3>2 DEF JobStates
    <3>4. CASE u = t
      <4>1. InRange(cur)'
        BY <2>2, <3>1 DEF InRange
      <4> QED
        BY <1>0, <3>1, <3>3, <3>4, <4>1 DEF AtArticle, Url
    <3>5. CASE u # t
      BY <3>1, <3>2, <3>5 DEF LockInv, AtCatalog, AtArticle
    <3> QED
      BY <3>4, <3>5
  <2> QED
    BY <1>3, <2>1, <2>2 DEF Request
<1>4. CASE Page(t)
  <2>1. CASE Break
    BY <1>1, <1>b, <2>1 DEF FetchInv
  <2>2. CASE Usable(t)
    <3>1. /\ job' = [job EXCEPT ![t] = [job[t] EXCEPT !.used = Used(t)]]
          /\ pc' = [pc EXCEPT ![t] = "restore"] /\ pc[t] = "page"
          /\ UNCHANGED <<sources, cur, touched, holder>>
      BY <1>0, <1>4, <2>2 DEF Page, Goto, data, history
    <3>2. /\ job[t].at = cur /\ job[t].want = Url(cur) /\ job[t].used = {Url(cur)}
          /\ holder = t
      BY <1>1, <3>1 DEF FetchInv, LockInv, AtCatalog
    <3>3. Used(t) = {job[t].want}
      BY <3>2 DEF Used
    <3>4. job'[t].used = Used(t) /\ job'[t].want = job[t].want
      BY <1>0, <3>1 DEF JobStates
    <3>5. CASE u = t
      BY <1>0, <3>1, <3>3, <3>4, <3>5 DEF AtArticle
    <3>6. CASE u # t
      BY <3>1, <3>2, <3>6 DEF LockInv, AtCatalog, AtArticle
    <3> QED
      BY <3>5, <3>6
  <2> QED
    BY <1>4, <2>1, <2>2 DEF Page
<1> QED
  BY <1>2, <1>3, <1>4

\* The temporary source of an article is the last one and the selected one.
LEMMA FetchArticle ==
  ASSUME Types, LockInv, FetchInv, LockInv', NEW t \in Threads, Plug(t) \/ Download(t)
  PROVE  FetchInv'
<1>0. /\ job \in [Threads -> JobStates] /\ pc \in [Threads -> PCs] /\ job[t] \in JobStates
      /\ sources \in Seq(Sources) /\ Len(sources) \in Nat
  BY DEF Types, ListTypeOK, JobStates, PCs
<1>b. ASSUME Break PROVE FetchInv'
  BY <1>b DEF Break, FetchInv, data, history, InRange, Url
<1>1. CASE Plug(t)
  <2> DEFINE plugged == [url |-> Temp, name |-> NoName, searchable |-> FALSE, grade |-> "unknown"]
  <2>1. plugged \in Sources /\ plugged.url = Temp
    BY ListConstants DEF Sources, Grades
  <2>2. sources' = Append(sources, plugged) /\ cur' = Len(sources) /\ holder' = t
        /\ pc' = [pc EXCEPT ![t] = "download"]
    BY <1>1 DEF Plug, Push, Goto
  <2>3. job'[t].want = Temp
    <3>1. job'[t] = [Idle EXCEPT !.prev = cur]
      BY <1>1 DEF Plug, Push
    <3> QED
      BY <3>1, IdleJob DEF JobStates
  <2>4. /\ sources' # <<>> /\ Len(sources') = Len(sources) + 1
        /\ sources'[Len(sources) + 1] = plugged
    BY <1>0, <2>1, <2>2, AppendOne
  <2>5. cur' = Len(sources') - 1 /\ Url(cur)' = Temp
    BY <1>0, <2>1, <2>2, <2>4 DEF Url
  <2>6. pc'[t] = "download" /\ \A u \in Threads \ {t} : pc'[u] \notin AtCatalog \union AtArticle
    BY <1>0, <2>2 DEF LockInv
  <2> QED
    BY <2>3, <2>4, <2>5, <2>6 DEF FetchInv, AtCatalog, AtArticle
<1>2. CASE Download(t)
  <2>1. CASE Break
    BY <1>b, <2>1
  <2>2. CASE ~Break
    <3> SUFFICES ASSUME ~touched' PROVE FetchInv'
      BY DEF FetchInv
    <3>1. /\ job' = [job EXCEPT ![t] = [job[t] EXCEPT !.used = IF sources = <<>> THEN {}
                                                               ELSE {Url(cur)}]]
          /\ pc' = [pc EXCEPT ![t] = "unplug"] /\ pc[t] = "download"
          /\ UNCHANGED <<sources, cur, touched, holder>>
      BY <1>0, <1>2, <2>2 DEF Download, Goto, data, history
    <3>2. /\ sources # <<>> /\ cur = Len(sources) - 1 /\ Url(cur) = Temp /\ job[t].want = Temp
          /\ holder = t
      BY <3>1 DEF FetchInv, LockInv, AtArticle
    <3>3. job'[t].used = {Temp} /\ job'[t].want = Temp
      BY <1>0, <3>1, <3>2 DEF JobStates
    <3>4. Url(cur)' = Url(cur)
      BY <3>1 DEF Url
    <3>5. pc'[t] = "unplug" /\ \A u \in Threads \ {t} : pc'[u] \notin AtCatalog \union AtArticle
      BY <1>0, <3>1, <3>2 DEF LockInv
    <3> QED
      BY <3>1, <3>2, <3>3, <3>4, <3>5 DEF FetchInv, AtCatalog, AtArticle
  <2> QED
    BY <2>1, <2>2
<1> QED
  BY <1>1, <1>2

\* Every step: only the holder changes what the holder works with, or the history says so.
LEMMA StepFetch == Types /\ LockInv /\ FetchInv /\ [ListNext]_listVars => FetchInv'
<1> SUFFICES ASSUME Types, LockInv, FetchInv, [ListNext]_listVars PROVE FetchInv'
  OBVIOUS
<1>0. Types' /\ LockInv'
  BY StepTypes, StepLock
<1>t. /\ job \in [Threads -> JobStates] /\ pc \in [Threads -> PCs]
  BY DEF Types, ListTypeOK, JobStates, PCs
<1>b. ASSUME UNCHANGED <<pc, job, sources, cur, touched>> PROVE FetchInv'
  BY <1>b DEF FetchInv, InRange, Url
<1>c. ASSUME touched' PROVE FetchInv'
  BY <1>c DEF FetchInv
<1>f. ASSUME holder' = Nobody PROVE FetchInv'
  BY <1>0, <1>f, ListConstants DEF LockInv, FetchInv, AtCatalog, AtArticle
<1>1. CASE Break \/ UNCHANGED listVars
  BY <1>1, <1>b DEF Break, listVars, data, history
<1>2. ASSUME NEW t \in Threads, ~Break,
             \/ Import(t) \/ ImportCheck(t) \/ ImportEnds(t) \/ Sweep(t)
             \/ SearchAsk(t) \/ SearchFetch(t) \/ SearchLabel(t)
      PROVE  FetchInv'
  <2>1. pc[t] \notin AtCatalog \union AtArticle
    BY <1>2 DEF Import, ImportCheck, ImportEnds, Sweep, SearchAsk, SearchFetch, SearchLabel,
       AtCatalog, AtArticle
  <2>2. UNCHANGED <<sources, cur, touched>>
    BY <1>2 DEF Import, ImportCheck, ImportEnds, Sweep, SearchAsk, SearchFetch, SearchLabel,
       data, history
  <2>3. /\ \A u \in Threads \ {t} : pc'[u] = pc[u]
        /\ pc'[t] \notin AtCatalog \union AtArticle
    BY <1>t, <1>2 DEF Import, ImportCheck, ImportEnds, Sweep, SearchAsk, SearchFetch, SearchLabel,
       Goto, AtCatalog, AtArticle
  <2>4. \A u \in Threads \ {t} : job'[u] = job[u]
    BY <1>t, <1>2 DEF Import, ImportCheck, ImportEnds, Sweep, SearchAsk, SearchFetch, SearchLabel
  <2> QED
    BY <2>1, <2>2, <2>3, <2>4, FetchKept
<1>3. ASSUME NEW t \in Threads, ~Break,
             \/ ImportInsert(t) \/ ImportPush(t) \/ RemoveSource(t) \/ RemoveErase(t)
             \/ SweepEnds(t) \/ Clear(t) \/ ClearWipe(t) \/ Select(t)
      PROVE  FetchInv'
  <2>1. pc[t] \notin AtCatalog \union AtArticle /\ Writes(t) /\ holder' = holder
    BY <1>3 DEF ImportInsert, ImportPush, RemoveSource, RemoveErase, SweepEnds, Clear, ClearWipe,
       Select, AtCatalog, AtArticle
  <2> QED
    BY <1>c, <1>f, <2>1, WriteOutside
<1>4. ASSUME NEW t \in Threads, ~Break, SweepOne(t)
      PROVE  FetchInv'
  <2>1. pc[t] \notin AtCatalog \union AtArticle /\ holder' = holder /\ pc' = pc
    BY <1>4 DEF SweepOne, AtCatalog, AtArticle
  <2>2. CASE Writes(t)
    BY <1>c, <1>f, <2>1, <2>2, WriteOutside
  <2>3. CASE ~Writes(t)
    <3>1. UNCHANGED <<sources, cur, touched>>
      BY <1>4, <2>3 DEF SweepOne
    <3>2. \A u \in Threads \ {t} : job'[u] = job[u]
      BY <1>t, <1>4 DEF SweepOne
    <3> QED
      BY <2>1, <3>1, <3>2, FetchKept
  <2> QED
    BY <2>2, <2>3
<1>5. ASSUME NEW t \in Threads, ~Break, Restore(t) \/ Unplug(t)
      PROVE  FetchInv'
  BY <1>5, <1>f DEF Restore, Unplug
<1>6. ASSUME NEW t \in Threads,
             Lock(t) \/ Request(t) \/ Page(t) \/ Plug(t) \/ Download(t)
      PROVE  FetchInv'
  BY <1>0, <1>6, FetchCatalog, FetchArticle
<1> QED
  BY <1>1, <1>2, <1>3, <1>4, <1>5, <1>6 DEF ListNext, Editor, Reader

\* At the start.
LEMMA InitFetch == ListBegins => LockInv /\ FetchInv
<1> SUFFICES ASSUME NEW w \in [Kinds -> Nat], ListStart(w) PROVE LockInv /\ FetchInv
  BY DEF ListBegins
<1>1. holder = Nobody /\ \A t \in Threads : pc[t] = "idle"
  BY DEF ListStart
<1> QED
  BY <1>1 DEF LockInv, FetchInv, AtCatalog, AtArticle

-----------------------------------------------------------------------------
(* List, selection and table. *)

Plugged == holder # Nobody /\ pc[holder] \in AtArticle

\* The list without the temporary source, and the selection that will be given back.
Own == IF Plugged THEN Front(sources) ELSE sources
LeftWith == IF holder = Nobody THEN cur ELSE job[holder].prev

WithinList(i, l) == i = 0 \/ i < Len(l)

Settled == ~touched /\ ~overlap

\* Between the two halves of a change the table is ahead of the list.
Dirty(t) == pc[t] \in {"push", "erase", "wipe"}

TraceInv == Settled => LeftWith = chosen /\ Temp \notin UrlsOf(Own)

RangeInv ==
    Settled /\ ~swept =>
        /\ (\A t \in Threads : pc[t] # "sweep") \/ holder # Nobody => WithinList(LeftWith, Own)
        /\ \A t \in Threads : pc[t] \in AtCatalog => WithinList(cur, sources)

Halves(t) ==
    LET new == Head(job[t].todo).url
    IN  /\ pc[t] = "insert" => new \notin DOMAIN table
        /\ pc[t] = "push" => new \notin UrlsOf(sources) /\ DOMAIN table = UrlsOf(sources) \union {new}
        /\ pc[t] = "erase" => /\ job[t].at \in 0 .. Len(sources) - 1
                              /\ DOMAIN table = UrlsOf(sources) \ {Url(job[t].at)}
        /\ pc[t] = "wipe" => DOMAIN table = {}

HalfDone(t) ==
    /\ Dirty(t) => holder = Nobody /\ \A u \in Threads : Dirty(u) => u = t
    /\ Halves(t)

MatchInv ==
    Settled =>
        /\ UrlsDiffer(Own)
        /\ (\A t \in Threads : ~Dirty(t)) => UrlsOf(Own) = DOMAIN table
        /\ \A t \in Threads : HalfDone(t)

ShapeInv == TraceInv /\ RangeInv /\ MatchInv

\* Urls after an element was appended ...
LEMMA AppendUrls ==
  ASSUME NEW l \in Seq(Sources), NEW s \in Sources
  PROVE  /\ UrlsOf(Append(l, s)) = UrlsOf(l) \union {s.url}
         /\ UrlsDiffer(l) /\ s.url \notin UrlsOf(l) => UrlsDiffer(Append(l, s))
<1> DEFINE m == Append(l, s)
<1>1. /\ m \in Seq(Sources) /\ Len(m) = Len(l) + 1 /\ Len(l) \in Nat
      /\ \A i \in 1 .. Len(l) : m[i] = l[i]
      /\ m[Len(l) + 1] = s
  BY AppendOne
<1> HIDE DEF m
<1>2. UrlsOf(m) = {m[i].url : i \in 1 .. Len(m)} /\ UrlsOf(l) = {l[i].url : i \in 1 .. Len(l)}
  BY <1>1, UrlsOfList
<1>3. 1 .. Len(m) = (1 .. Len(l)) \union {Len(l) + 1}
  BY <1>1
<1>4. UrlsOf(m) = UrlsOf(l) \union {s.url}
  BY <1>1, <1>2, <1>3
<1>5. ASSUME UrlsDiffer(l), s.url \notin UrlsOf(l) PROVE UrlsDiffer(m)
  BY <1>1, <1>2, <1>3, <1>5 DEF UrlsDiffer
<1> QED
  BY <1>4, <1>5 DEF m

\* ... and after one was erased.
LEMMA EraseUrls ==
  ASSUME NEW l \in Seq(Sources), NEW i \in 0 .. Len(l) - 1
  PROVE  /\ UrlsOf(Erase(l, i)) \subseteq UrlsOf(l)
         /\ UrlsDiffer(l) => /\ UrlsDiffer(Erase(l, i))
                           /\ UrlsOf(Erase(l, i)) = UrlsOf(l) \ {l[i + 1].url}
<1> DEFINE m == Erase(l, i)
<1>1. /\ m \in Seq(Sources) /\ Len(m) = Len(l) - 1 /\ Len(l) \in Nat
      /\ \A k \in 1 .. Len(m) : m[k] = IF k <= i THEN l[k] ELSE l[k + 1]
  <2>1. /\ m \in Seq(Sources) /\ Len(m) = Len(l) - 1
        /\ \A k \in 1 .. Len(l) - 1 : m[k] = IF k <= i THEN l[k] ELSE l[k + 1]
    BY EraseOne
  <2> HIDE DEF m
  <2> QED
    BY <2>1
<1> HIDE DEF m
<1>2. UrlsOf(m) = {m[k].url : k \in 1 .. Len(m)} /\ UrlsOf(l) = {l[k].url : k \in 1 .. Len(l)}
  BY <1>1, UrlsOfList
<1>3. UrlsOf(m) \subseteq UrlsOf(l)
  <2>1. \A k \in 1 .. Len(m) : m[k].url \in UrlsOf(l)
    BY <1>1, <1>2
  <2> QED
    BY <1>2, <2>1
<1>4. ASSUME UrlsDiffer(l) PROVE UrlsDiffer(m) /\ UrlsOf(m) = UrlsOf(l) \ {l[i + 1].url}
  <2>1. UrlsDiffer(m)
    BY <1>1, <1>4 DEF UrlsDiffer
  <2>2. \A k \in 1 .. Len(m) : m[k].url # l[i + 1].url
    BY <1>1, <1>4 DEF UrlsDiffer
  <2>3. \A k \in 1 .. Len(l) : k < i + 1 => k \in 1 .. Len(m) /\ m[k] = l[k]
    BY <1>1
  <2>4. \A k \in 1 .. Len(l) : k > i + 1 => k - 1 \in 1 .. Len(m) /\ m[k - 1] = l[k]
    BY <1>1
  <2>5. \A k \in 1 .. Len(l) : k # i + 1 => l[k].url \in UrlsOf(m)
    BY <1>1, <1>2, <2>3, <2>4
  <2> QED
    BY <1>2, <1>3, <2>1, <2>2, <2>5
<1> QED
  BY <1>3, <1>4 DEF m

\* Without the lock, list and selection are the ones everybody sees.
LEMMA FreeMeansOwn ==
  ASSUME holder = Nobody
  PROVE  Own = sources /\ LeftWith = cur
  BY DEF Own, LeftWith, Plugged

\* A step that changes neither list, index nor table, and leaves nothing half done.
LEMMA QuietShape ==
  ASSUME Types, LockInv, ShapeInv, NEW t \in Threads,
         job' \in [Threads -> JobStates], pc' \in [Threads -> PCs],
         UNCHANGED <<sources, cur, table, holder, chosen, touched, overlap, swept>>,
         \A u \in Threads \ {t} : pc'[u] = pc[u] /\ job'[u] = job[u],
         holder = t => job'[t].prev = job[t].prev,
         pc[t] \in AtCatalog <=> pc'[t] \in AtCatalog,
         pc[t] \in AtArticle <=> pc'[t] \in AtArticle,
         pc[t] = "sweep" => pc'[t] = "sweep",
         ~Dirty(t), pc'[t] \notin {"push", "erase", "wipe"},
         pc'[t] = "insert" => Head(job'[t].todo).url \notin DOMAIN table
  PROVE  ShapeInv'
<1>1. holder \in Threads \union {Nobody} /\ Nobody \notin Threads
  BY ListConstants DEF Types, ListTypeOK
<1>2. Plugged' <=> Plugged
  BY <1>1 DEF Plugged, AtArticle
<1>3. Own' = Own
  BY <1>2 DEF Own
<1>4. LeftWith' = LeftWith
  BY <1>1 DEF LeftWith
<1>5. \A u \in Threads : Dirty(u)' <=> Dirty(u)
  BY DEF Dirty
<1>6. TraceInv'
  BY <1>3, <1>4 DEF ShapeInv, TraceInv, Settled
<1>7. RangeInv'
  BY <1>3, <1>4 DEF ShapeInv, RangeInv, Settled, AtCatalog
<1>8. ASSUME Settled, NEW u \in Threads, HalfDone(u) PROVE HalfDone(u)'
  <2>1. CASE u = t
    BY <1>5, <2>1 DEF HalfDone, Halves, Dirty
  <2>2. CASE u # t
    <3>1. pc'[u] = pc[u] /\ job'[u] = job[u]
      BY <2>2
    <3> QED
      BY <1>5, <1>8, <3>1 DEF HalfDone, Halves, Url
  <2> QED
    BY <2>1, <2>2
<1>9. MatchInv'
  BY <1>3, <1>5, <1>8 DEF ShapeInv, MatchInv, Settled
<1> QED
  BY <1>6, <1>7, <1>9 DEF ShapeInv

\* A step that takes the lock or gives it back, and changes neither the list without the
\* temporary source nor the selection that will be given back.
LEMMA LockShape ==
  ASSUME Types, LockInv, LockInv', ShapeInv, NEW t \in Threads, Writes(t),
         Own' = Own, LeftWith' = LeftWith, UNCHANGED <<table, chosen, swept>>,
         ~Editing(t), ~Editing(t)', \A u \in Threads \ {t} : pc'[u] = pc[u],
         \A u \in Threads \ {t} : pc[u] \notin AtCatalog,
         WithinList(LeftWith, Own) => (pc'[t] \in AtCatalog => WithinList(cur', sources'))
  PROVE  ShapeInv'
<1> SUFFICES ASSUME Settled' PROVE ShapeInv'
  BY DEF ShapeInv, TraceInv, RangeInv, MatchInv
<1>1. Settled /\ \A u \in Threads : ~Editing(u)
  BY DEF Settled, Writes
<1>2. \A u \in Threads : ~Editing(u)'
  BY <1>1 DEF Editing
<1>3. \A u \in Threads : /\ ~Dirty(u) /\ pc[u] \notin {"insert", "sweep"}
                         /\ ~Dirty(u)' /\ pc'[u] \notin {"insert", "sweep"}
  BY <1>1, <1>2 DEF Editing, Dirty
<1>4. TraceInv'
  BY <1>1 DEF ShapeInv, TraceInv
<1>5. ~swept => WithinList(LeftWith, Own)
  BY <1>1, <1>3 DEF ShapeInv, RangeInv
<1>6. RangeInv'
  BY <1>5 DEF RangeInv, WithinList
<1>7. MatchInv'
  <2>1. UrlsDiffer(Own)' /\ UrlsOf(Own)' = DOMAIN table'
    BY <1>1, <1>3 DEF ShapeInv, MatchInv, UrlsDiffer, UrlsOf
  <2>2. \A u \in Threads : HalfDone(u)'
    BY <1>3 DEF HalfDone, Halves, Dirty
  <2> QED
    BY <2>1, <2>2 DEF MatchInv
<1> QED
  BY <1>4, <1>6, <1>7 DEF ShapeInv

\* Taking the lock, and giving it back.
LEMMA LockedShape ==
  ASSUME Types, LockInv, LockInv', FetchInv, ShapeInv, NEW t \in Threads, ~Break,
         Lock(t) \/ Restore(t) \/ Plug(t) \/ Unplug(t)
  PROVE  ShapeInv'
<1>0. /\ job \in [Threads -> JobStates] /\ pc \in [Threads -> PCs] /\ cur \in Nat
      /\ sources \in Seq(Sources) /\ Len(sources) \in Nat /\ Nobody \notin Threads
  BY ListConstants DEF Types, ListTypeOK, JobStates, PCs
<1>1. CASE Lock(t)
  <2>1. PICK i \in -1 .. Len(sources) - 1 :
            /\ cur' = IF i = -1 THEN cur ELSE i
            /\ job' = [job EXCEPT ![t] = [Idle EXCEPT !.prev = cur,
                                          !.want = IF InRange(cur') THEN Url(cur') ELSE Temp]]
    BY <1>1 DEF Lock
  <2>2. /\ holder = Nobody /\ holder' = t /\ pc[t] = "idle" /\ pc' = [pc EXCEPT ![t] = "request"]
        /\ Writes(t) /\ UNCHANGED <<sources, table, chosen, swept>>
    BY <1>1 DEF Lock, Goto
  <2>3. Own = sources /\ LeftWith = cur
    BY <2>2, FreeMeansOwn
  <2>4. job'[t].prev = cur
    BY <1>0, <2>1 DEF Idle
  <2>5. Own' = sources /\ LeftWith' = cur
    BY <1>0, <2>2, <2>4 DEF Own, LeftWith, Plugged, AtArticle
  <2>6. \A u \in Threads \ {t} : pc[u] \notin AtCatalog
    BY <1>0, <2>2 DEF LockInv
  <2>7. WithinList(cur, sources) => WithinList(cur', sources')
    BY <1>0, <2>1, <2>2 DEF WithinList
  <2>8. ~Editing(t) /\ ~Editing(t)'
    BY <1>0, <2>2 DEF Editing
  <2> QED
    BY <1>0, <2>2, <2>3, <2>5, <2>6, <2>7, <2>8, LockShape
<1>2. CASE Restore(t)
  <2>1. /\ pc[t] = "restore" /\ cur' = job[t].prev /\ holder' = Nobody
        /\ pc' = [pc EXCEPT ![t] = "idle"]
        /\ Writes(t) /\ UNCHANGED <<sources, table, chosen, swept>>
    BY <1>2 DEF Restore, Goto
  <2>2. holder = t /\ \A u \in Threads \ {t} : pc[u] \notin AtCatalog
    BY <2>1 DEF LockInv, AtCatalog
  <2>3. Own = sources /\ LeftWith = job[t].prev
    BY <1>0, <2>1, <2>2 DEF Own, LeftWith, Plugged, AtArticle
  <2>4. Own' = sources /\ LeftWith' = job[t].prev
    BY <2>1, FreeMeansOwn DEF Own, LeftWith, Plugged
  <2>5. ~Editing(t) /\ ~Editing(t)' /\ pc'[t] \notin AtCatalog
    BY <1>0, <2>1 DEF Editing, AtCatalog
  <2> QED
    BY <1>0, <2>1, <2>2, <2>3, <2>4, <2>5, LockShape
<1>3. CASE Plug(t)
  <2> DEFINE plugged == [url |-> Temp, name |-> NoName, searchable |-> FALSE, grade |-> "unknown"]
  <2>1. /\ holder = Nobody /\ holder' = t /\ pc[t] = "idle" /\ pc' = [pc EXCEPT ![t] = "download"]
        /\ Writes(t) /\ UNCHANGED <<table, chosen, swept>> /\ sources' = Append(sources, plugged)
    BY <1>3 DEF Plug, Goto, Push
  <2>2. job'[t].prev = cur
    <3>1. job'[t] = [Idle EXCEPT !.prev = cur]
      BY <1>3 DEF Plug, Push
    <3> QED
      BY <3>1 DEF Idle
  <2>3. plugged \in Sources
    BY ListConstants DEF Sources, Grades
  <2>4. Front(sources') = sources
    BY <1>0, <2>1, <2>3, DropAppended
  <2>5. Own = sources /\ LeftWith = cur
    BY <2>1, FreeMeansOwn
  <2>6. Plugged'
    BY <1>0, <2>1 DEF Plugged, AtArticle
  <2>7. Own' = sources /\ LeftWith' = cur
    BY <1>0, <2>1, <2>2, <2>4, <2>6 DEF Own, LeftWith
  <2>8. \A u \in Threads \ {t} : pc[u] \notin AtCatalog
    BY <1>0, <2>1 DEF LockInv
  <2>9. ~Editing(t) /\ ~Editing(t)' /\ pc'[t] \notin AtCatalog
    BY <1>0, <2>1 DEF Editing, AtCatalog
  <2> QED
    BY <1>0, <2>1, <2>5, <2>7, <2>8, <2>9, LockShape
<1>4. CASE Unplug(t)
  <2>1. /\ pc[t] = "unplug" /\ cur' = job[t].prev /\ holder' = Nobody
        /\ pc' = [pc EXCEPT ![t] = "idle"] /\ sources' = Front(sources)
        /\ Writes(t) /\ UNCHANGED <<table, chosen, swept>>
    BY <1>4 DEF Unplug, Goto
  <2>2. holder = t /\ \A u \in Threads \ {t} : pc[u] \notin AtCatalog
    BY <1>0, <2>1 DEF LockInv, AtArticle
  <2>3. Own = Front(sources) /\ LeftWith = job[t].prev
    BY <1>0, <2>1, <2>2 DEF Own, LeftWith, Plugged, AtArticle
  <2>4. Own' = Front(sources) /\ LeftWith' = job[t].prev
    BY <2>1 DEF Own, LeftWith, Plugged
  <2>5. ~Editing(t) /\ ~Editing(t)' /\ pc'[t] \notin AtCatalog
    BY <1>0, <2>1 DEF Editing, AtCatalog
  <2> QED
    BY <1>0, <2>1, <2>2, <2>3, <2>4, <2>5, LockShape
<1> QED
  BY <1>1, <1>2, <1>3, <1>4

\* What holds for a thread that changes list, selection or table, as long as nobody
\* interferes.
SoundFor(t) ==
    /\ cur = chosen /\ Temp \notin UrlsOf(sources) /\ UrlsDiffer(sources)
    /\ ~Dirty(t) => UrlsOf(sources) = DOMAIN table
    /\ Halves(t)
    /\ ~swept /\ pc[t] # "sweep" => WithinList(cur, sources)

\* A step of a change, while nobody else is in the middle of one.
LEMMA EditShape ==
  ASSUME Types, Types', LockInv, LockInv', ShapeInv, NEW t \in Threads,
         pc[t] \notin AtCatalog \union AtArticle,
         Writes(t), holder' = holder, \A u \in Threads \ {t} : pc'[u] = pc[u],
         SoundFor(t) => SoundFor(t)'
  PROVE  ShapeInv'
<1> SUFFICES ASSUME Settled' PROVE ShapeInv'
  BY DEF ShapeInv, TraceInv, RangeInv, MatchInv
<1>1. Settled /\ holder = Nobody /\ holder' = Nobody /\ \A u \in Threads \ {t} : ~Editing(u)
  BY WriteOutside DEF Settled, Writes
<1>2. Own = sources /\ LeftWith = cur
  BY <1>1, FreeMeansOwn
<1>3. Own' = sources' /\ LeftWith' = cur'
  BY <1>1 DEF Own, LeftWith, Plugged
<1>4. \A u \in Threads \ {t} : /\ ~Dirty(u) /\ pc[u] \notin {"insert", "sweep"}
                               /\ ~Dirty(u)' /\ pc'[u] \notin {"insert", "sweep"}
  BY <1>1 DEF Editing, Dirty
<1>5. SoundFor(t)
  <2>1. LeftWith = chosen /\ Temp \notin UrlsOf(Own)
    BY <1>1 DEF ShapeInv, TraceInv
  <2>2. ~swept /\ pc[t] # "sweep" => WithinList(cur, sources)
    BY <1>1, <1>2, <1>4 DEF ShapeInv, RangeInv
  <2>3. /\ UrlsDiffer(Own) /\ HalfDone(t)
        /\ (\A u \in Threads : ~Dirty(u)) => UrlsOf(Own) = DOMAIN table
    BY <1>1 DEF ShapeInv, MatchInv
  <2>4. ~Dirty(t) => UrlsOf(sources) = DOMAIN table
    BY <1>2, <1>4, <2>3
  <2> QED
    BY <1>2, <2>1, <2>2, <2>3, <2>4 DEF SoundFor, HalfDone
<1>6. SoundFor(t)'
  BY <1>5
<1>7. TraceInv'
  <2>1. cur' = chosen' /\ Temp \notin UrlsOf(sources')
    BY <1>6 DEF SoundFor, UrlsOf
  <2> QED
    BY <1>3, <2>1 DEF TraceInv, UrlsOf
<1>8. RangeInv'
  <2>1. \A u \in Threads : pc'[u] \notin AtCatalog
    BY <1>1, ListConstants DEF LockInv
  <2>2. ~swept' /\ pc'[t] # "sweep" => WithinList(cur', sources')
    BY <1>6 DEF SoundFor, WithinList
  <2> QED
    BY <1>1, <1>3, <2>1, <2>2 DEF RangeInv, WithinList
<1>9. MatchInv'
  <2>1. UrlsDiffer(sources') /\ Halves(t)' /\ (~Dirty(t)' => UrlsOf(sources') = DOMAIN table')
    BY <1>6 DEF SoundFor, UrlsDiffer, UrlsOf
  <2>2. UrlsDiffer(Own)' /\ UrlsOf(Own)' = UrlsOf(sources')
    BY <1>3, <2>1 DEF UrlsDiffer, UrlsOf
  <2>3. HalfDone(t)'
    BY <1>1, <1>4, <2>1 DEF HalfDone
  <2>4. \A u \in Threads \ {t} : HalfDone(u)'
    BY <1>4 DEF HalfDone, Halves, Dirty
  <2> QED
    BY <2>1, <2>2, <2>3, <2>4 DEF MatchInv
<1> QED
  BY <1>7, <1>8, <1>9 DEF ShapeInv

\* The types the steps of a change use.
LEMMA BasicTypes ==
  ASSUME Types
  PROVE  /\ job \in [Threads -> JobStates] /\ pc \in [Threads -> PCs] /\ cur \in Nat
         /\ sources \in Seq(Sources) /\ Len(sources) \in Nat
  BY DEF Types, ListTypeOK, JobStates, PCs

\* Imports and removals, half by half.
LEMMA ImportShape ==
  ASSUME Types, Types', LockInv, LockInv', ShapeInv, NEW t \in Threads,
         ImportInsert(t) \/ ImportPush(t)
  PROVE  ShapeInv'
<1>0. /\ job \in [Threads -> JobStates] /\ pc \in [Threads -> PCs] /\ cur \in Nat
      /\ sources \in Seq(Sources) /\ Len(sources) \in Nat /\ job[t].todo \in Seq(Sources)
  BY BasicTypes DEF JobStates
<1>1. /\ pc[t] \notin AtCatalog \union AtArticle /\ Writes(t) /\ holder' = holder
      /\ \A u \in Threads \ {t} : pc'[u] = pc[u]
  BY <1>0 DEF ImportInsert, ImportPush, Goto, AtCatalog, AtArticle
<1>2. job[t].todo # <<>>
  BY DEF ImportInsert, ImportPush, Types, TodoKnown
<1> DEFINE s == Head(job[t].todo)
<1>3. s \in Sources /\ s.url \in Urls
  <2>1. s = job[t].todo[1] /\ 1 \in 1 .. Len(job[t].todo) /\ s \in Sources
    BY <1>0, <1>2, EmptySeq, HeadTailProperties
  <2> QED
    BY <2>1 DEF Types, TodoKnown
<1>4. CASE ImportInsert(t)
  <2>1. /\ pc[t] = "insert" /\ pc'[t] = "push" /\ DOMAIN table' = DOMAIN table \union {s.url}
        /\ UNCHANGED <<sources, cur, job, chosen, swept>>
    BY <1>0, <1>4 DEF ImportInsert, Goto
  <2>2. SoundFor(t) => SoundFor(t)'
    BY <2>1 DEF SoundFor, Halves, Dirty, UrlsOf, UrlsDiffer, WithinList
  <2> QED
    BY <1>1, <2>2, EditShape
<1>5. CASE ImportPush(t)
  <2>1. /\ pc[t] = "push" /\ pc'[t] = "check" /\ sources' = Append(sources, s)
        /\ UNCHANGED <<cur, table, chosen, swept>>
    BY <1>0, <1>5 DEF ImportPush, Push, Goto
  <2>2. ASSUME SoundFor(t) PROVE SoundFor(t)'
    <3>1. s.url \notin UrlsOf(sources) /\ DOMAIN table = UrlsOf(sources) \union {s.url}
      BY <2>1, <2>2 DEF SoundFor, Halves
    <3>2. UrlsOf(sources') = UrlsOf(sources) \union {s.url} /\ UrlsDiffer(sources')
      BY <1>0, <1>3, <2>1, <2>2, <3>1, AppendUrls DEF SoundFor
    <3>3. Temp \notin UrlsOf(sources')
      BY <1>3, <2>2, <3>2, ListConstants DEF SoundFor
    <3>4. Len(sources') = Len(sources) + 1
      BY <1>0, <1>3, <2>1, AppendOne
    <3>5. WithinList(cur, sources) => WithinList(cur', sources')
      BY <1>0, <2>1, <3>4 DEF WithinList
    <3>6. ~swept' /\ pc'[t] # "sweep" => WithinList(cur', sources')
      BY <2>1, <2>2, <3>5 DEF SoundFor
    <3>7. Halves(t)'
      BY <2>1 DEF Halves
    <3>8. cur' = chosen'
      BY <2>1, <2>2 DEF SoundFor
    <3>9. UrlsOf(sources)' = DOMAIN table' /\ UrlsDiffer(sources)' /\ Temp \notin UrlsOf(sources)'
      BY <2>1, <3>1, <3>2, <3>3 DEF UrlsOf, UrlsDiffer
    <3> QED
      BY <3>6, <3>7, <3>8, <3>9 DEF SoundFor, WithinList
  <2> QED
    BY <1>1, <2>2, EditShape
<1> QED
  BY <1>4, <1>5

\* Removing a source.
LEMMA RemoveShape ==
  ASSUME Types, Types', LockInv, LockInv', ShapeInv, NEW t \in Threads, ~Break,
         RemoveSource(t) \/ RemoveErase(t)
  PROVE  ShapeInv'
<1>0. /\ job \in [Threads -> JobStates] /\ pc \in [Threads -> PCs] /\ cur \in Nat
      /\ sources \in Seq(Sources) /\ Len(sources) \in Nat
  BY BasicTypes
<1>1. /\ pc[t] \notin AtCatalog \union AtArticle /\ Writes(t) /\ holder' = holder
      /\ \A u \in Threads \ {t} : pc'[u] = pc[u]
  BY <1>0 DEF RemoveSource, RemoveErase, Goto, AtCatalog, AtArticle
<1>2. CASE RemoveSource(t)
  <2>1. PICK i \in 0 .. Len(sources) - 1 :
            /\ job' = [job EXCEPT ![t] = [Idle EXCEPT !.at = i]]
            /\ table' = [u \in DOMAIN table \ {Url(i)} |-> table[u]]
    BY <1>2 DEF RemoveSource
  <2>2. /\ pc[t] = "idle" /\ pc'[t] = "erase" /\ UNCHANGED <<sources, cur, chosen, swept>>
    BY <1>0, <1>2 DEF RemoveSource, Goto
  <2>3. job'[t].at = i /\ DOMAIN table' = DOMAIN table \ {Url(i)}
    BY <1>0, <2>1 DEF Idle
  <2>4. Url(i)' = Url(i) /\ UrlsOf(sources)' = UrlsOf(sources)
    BY <2>2 DEF Url, UrlsOf
  <2>5. ASSUME SoundFor(t) PROVE SoundFor(t)'
    <3>1. UrlsOf(sources) = DOMAIN table
      BY <2>2, <2>5 DEF SoundFor, Dirty
    <3>2. Halves(t)'
      <4>1. job'[t].at \in 0 .. Len(sources') - 1
        BY <2>2, <2>3
      <4>2. DOMAIN table' = UrlsOf(sources') \ {sources'[job'[t].at + 1].url}
        BY <2>2, <2>3, <3>1 DEF Url
      <4> QED
        BY <2>2, <4>1, <4>2 DEF Halves, Url
    <3> QED
      BY <2>2, <2>4, <2>5, <3>1, <3>2 DEF SoundFor, Dirty, UrlsDiffer, WithinList
  <2> QED
    BY <1>1, <2>5, EditShape
<1>3. CASE RemoveErase(t)
  <2> DEFINE i == job[t].at
  <2>1. /\ InRange(i) /\ sources' = Erase(sources, i)
        /\ cur' = Clamp(cur, sources') /\ chosen' = Clamp(chosen, sources')
        /\ pc[t] = "erase" /\ pc'[t] = "idle" /\ UNCHANGED <<table, swept>>
    BY <1>0, <1>3 DEF RemoveErase, Goto
  <2>2. ASSUME SoundFor(t) PROVE SoundFor(t)'
    <3>1. i \in 0 .. Len(sources) - 1 /\ DOMAIN table = UrlsOf(sources) \ {sources[i + 1].url}
      BY <2>1, <2>2 DEF SoundFor, Halves, Url
    <3>2. UrlsDiffer(sources') /\ UrlsOf(sources') = DOMAIN table
      BY <1>0, <2>1, <2>2, <3>1, EraseUrls DEF SoundFor
    <3>3. Temp \notin UrlsOf(sources')
      BY <2>2, <3>1, <3>2 DEF SoundFor
    <3>4. sources' \in Seq(Sources) /\ Len(sources') = Len(sources) - 1
      BY <1>0, <2>1, <3>1, EraseOne
    <3>5. cur' = chosen'
      BY <2>1, <2>2 DEF SoundFor
    <3>6. ~swept => WithinList(cur', sources')
      <4>1. ~swept => cur = 0 \/ cur < Len(sources)
        BY <2>1, <2>2 DEF SoundFor, WithinList
      <4>2. sources' # <<>> <=> Len(sources') # 0
        BY <3>4, EmptySeq
      <4> QED
        BY <1>0, <2>1, <3>1, <3>4, <4>1, <4>2 DEF WithinList, Clamp
    <3>7. Halves(t)'
      BY <2>1 DEF Halves
    <3>8. UrlsOf(sources)' = DOMAIN table' /\ UrlsDiffer(sources)' /\ Temp \notin UrlsOf(sources)'
      BY <2>1, <3>2, <3>3 DEF UrlsOf, UrlsDiffer
    <3> QED
      BY <2>1, <3>5, <3>6, <3>7, <3>8 DEF SoundFor, WithinList
  <2> QED
    BY <1>1, <2>2, EditShape
<1> QED
  BY <1>2, <1>3

\* Removing the bad sources.
LEMMA SweepShape ==
  ASSUME Types, Types', LockInv, LockInv', ShapeInv, NEW t \in Threads, ~Break,
         (SweepOne(t) /\ Writes(t)) \/ SweepEnds(t)
  PROVE  ShapeInv'
<1>0. /\ job \in [Threads -> JobStates] /\ pc \in [Threads -> PCs] /\ cur \in Nat
      /\ sources \in Seq(Sources) /\ Len(sources) \in Nat
  BY BasicTypes
<1>1. /\ pc[t] \notin AtCatalog \union AtArticle /\ Writes(t) /\ holder' = holder
      /\ \A u \in Threads \ {t} : pc'[u] = pc[u]
  BY <1>0 DEF SweepOne, SweepEnds, Goto, AtCatalog, AtArticle
<1>2. CASE SweepOne(t)
  <2> DEFINE i == job[t].at
  <2>1. /\ InRange(i) /\ pc[t] = "sweep" /\ pc'[t] = "sweep"
        /\ UNCHANGED <<cur, chosen, swept>>
        /\ \/ sources' = Erase(sources, i) /\ DOMAIN table' = DOMAIN table \ {Url(i)}
           \/ UNCHANGED <<sources, table>>
    BY <1>0, <1>2 DEF SweepOne
  <2>2. ASSUME SoundFor(t) PROVE SoundFor(t)'
    <3>1. i \in 0 .. Len(sources) - 1
      <4>1. i \in Int
        BY <1>0 DEF JobStates
      <4> QED
        BY <1>0, <2>1, <4>1 DEF InRange
    <3>2. UrlsOf(sources) = DOMAIN table
      BY <2>1, <2>2 DEF SoundFor, Dirty
    <3>3. /\ UrlsDiffer(sources') /\ UrlsOf(sources') = DOMAIN table'
          /\ UrlsOf(sources') \subseteq UrlsOf(sources)
      <4> HIDE DEF i
      <4>1. /\ UrlsDiffer(Erase(sources, i))
            /\ UrlsOf(Erase(sources, i)) = UrlsOf(sources) \ {Url(i)}
        BY <1>0, <2>2, <3>1, EraseUrls DEF SoundFor, Url
      <4>2. UrlsDiffer(sources)
        BY <2>2 DEF SoundFor
      <4>3. CASE sources' = Erase(sources, i) /\ DOMAIN table' = DOMAIN table \ {Url(i)}
        BY <3>2, <4>1, <4>3
      <4>4. CASE UNCHANGED <<sources, table>>
        BY <3>2, <4>2, <4>4
      <4> QED
        BY <2>1, <4>3, <4>4
    <3>4. UrlsOf(sources)' = DOMAIN table' /\ UrlsDiffer(sources)' /\ Temp \notin UrlsOf(sources)'
      BY <2>2, <3>3 DEF UrlsOf, UrlsDiffer, SoundFor
    <3>5. Halves(t)'
      BY <2>1 DEF Halves
    <3> QED
      BY <2>1, <2>2, <3>4, <3>5 DEF SoundFor
  <2> QED
    BY <1>1, <2>2, EditShape
<1>3. CASE SweepEnds(t)
  <2>1. /\ cur' = Clamp(cur, sources) /\ chosen' = Clamp(chosen, sources)
        /\ swept' = (swept \/ (sources = <<>> /\ cur > 0))
        /\ pc[t] = "sweep" /\ pc'[t] = "idle" /\ UNCHANGED <<sources, table>>
    BY <1>0, <1>3 DEF SweepEnds, Goto
  <2>2. ASSUME SoundFor(t) PROVE SoundFor(t)'
    <3>1. UrlsOf(sources) = DOMAIN table
      BY <2>1, <2>2 DEF SoundFor, Dirty
    <3>2. ~swept' => WithinList(cur', sources)
      <4>1. CASE sources = <<>>
        <5>a. ~swept' => ~(cur > 0)
          BY <2>1, <4>1, Zenon
        <5>1. ~swept' => cur = 0
          BY <1>0, <5>a
        <5> QED
          BY <2>1, <4>1, <5>1 DEF WithinList, Clamp
      <4>2. CASE sources # <<>>
        <5>1. Len(sources) # 0
          BY <1>0, <4>2, EmptySeq
        <5> QED
          BY <1>0, <2>1, <4>2, <5>1 DEF WithinList, Clamp
      <4> QED
        BY <4>1, <4>2
    <3>3. ~swept' => WithinList(cur, sources)'
      BY <2>1, <3>2 DEF WithinList
    <3>4. UrlsOf(sources)' = DOMAIN table' /\ UrlsDiffer(sources)' /\ Temp \notin UrlsOf(sources)'
      BY <2>1, <2>2, <3>1 DEF UrlsOf, UrlsDiffer, SoundFor
    <3>5. Halves(t)'
      BY <2>1 DEF Halves
    <3>6. cur' = chosen'
      BY <2>1, <2>2 DEF SoundFor
    <3> QED
      BY <3>3, <3>4, <3>5, <3>6 DEF SoundFor
  <2> QED
    BY <1>1, <2>2, EditShape
<1> QED
  BY <1>2, <1>3

\* Removing all sources.
LEMMA ClearShape ==
  ASSUME Types, Types', LockInv, LockInv', ShapeInv, NEW t \in Threads,
         Clear(t) \/ ClearWipe(t) \/ Select(t)
  PROVE  ShapeInv'
<1>0. /\ job \in [Threads -> JobStates] /\ pc \in [Threads -> PCs] /\ cur \in Nat
      /\ sources \in Seq(Sources) /\ Len(sources) \in Nat
  BY BasicTypes
<1>1. /\ pc[t] \notin AtCatalog \union AtArticle /\ Writes(t) /\ holder' = holder
      /\ \A u \in Threads \ {t} : pc'[u] = pc[u]
  BY <1>0 DEF Clear, ClearWipe, Select, Goto, AtCatalog, AtArticle
<1>2. CASE Clear(t)
  <2>1. /\ DOMAIN table' = DOMAIN table \ UrlsOf(sources)
        /\ pc[t] = "idle" /\ pc'[t] = "wipe" /\ UNCHANGED <<sources, cur, chosen, swept>>
    BY <1>0, <1>2 DEF Clear, Goto
  <2>2. ASSUME SoundFor(t) PROVE SoundFor(t)'
    <3>1. DOMAIN table' = {}
      BY <2>1, <2>2 DEF SoundFor, Dirty
    <3>2. Halves(t)'
      BY <2>1, <3>1 DEF Halves
    <3> QED
      BY <2>1, <2>2, <3>2 DEF SoundFor, Dirty, UrlsOf, UrlsDiffer, WithinList
  <2> QED
    BY <1>1, <2>2, EditShape
<1>3. CASE ClearWipe(t)
  <2>1. /\ sources' = <<>> /\ cur' = 0 /\ chosen' = 0
        /\ pc[t] = "wipe" /\ pc'[t] = "idle" /\ UNCHANGED <<table, swept>>
    BY <1>0, <1>3 DEF ClearWipe, Goto
  <2>2. Len(<<>>) = 0 /\ UrlsOf(<<>>) = {}
    BY UrlsOfList, EmptySeq
  <2>3. ASSUME SoundFor(t) PROVE SoundFor(t)'
    <3>1. DOMAIN table' = {}
      BY <2>1, <2>3 DEF SoundFor, Halves
    <3>2. UrlsOf(sources)' = {} /\ UrlsDiffer(sources)' /\ WithinList(cur, sources)'
      BY <2>1, <2>2 DEF UrlsOf, UrlsDiffer, WithinList
    <3>3. Halves(t)'
      BY <2>1 DEF Halves
    <3> QED
      BY <2>1, <3>1, <3>2, <3>3 DEF SoundFor
  <2> QED
    BY <1>1, <2>3, EditShape
<1>4. CASE Select(t)
  <2>1. PICK i \in -1 .. Len(sources) - 1 :
            /\ cur' = IF i = -1 THEN cur ELSE i
            /\ chosen' = IF i = -1 THEN chosen ELSE i
    BY <1>4 DEF Select
  <2>2. /\ pc[t] = "idle" /\ pc'[t] = "ask" /\ UNCHANGED <<sources, table, swept>>
    BY <1>0, <1>4 DEF Select, Goto
  <2>3. WithinList(cur, sources) => WithinList(cur', sources')
    BY <1>0, <2>1, <2>2 DEF WithinList
  <2>4. ASSUME SoundFor(t) PROVE SoundFor(t)'
    <3>1. UrlsOf(sources)' = DOMAIN table' /\ UrlsDiffer(sources)' /\ Temp \notin UrlsOf(sources)'
      BY <2>2, <2>4 DEF UrlsOf, UrlsDiffer, SoundFor, Dirty
    <3>2. Halves(t)'
      BY <2>2 DEF Halves
    <3>3. cur' = chosen' /\ (~swept' => WithinList(cur, sources)')
      BY <2>1, <2>2, <2>3, <2>4 DEF SoundFor, WithinList
    <3> QED
      BY <3>1, <3>2, <3>3 DEF SoundFor
  <2> QED
    BY <1>1, <2>4, EditShape
<1> QED
  BY <1>2, <1>3, <1>4

\* The steps that change nothing but one thread's place and plans.
LEMMA NothingChanged ==
  ASSUME Types, Types', LockInv, FetchInv, ShapeInv, NEW t \in Threads, ~Break,
         \/ Import(t) \/ ImportCheck(t) \/ ImportEnds(t) \/ Sweep(t)
         \/ SearchAsk(t) \/ SearchFetch(t) \/ SearchLabel(t)
         \/ Request(t) \/ Page(t) \/ Download(t)
  PROVE  ShapeInv'
<1>0. /\ job \in [Threads -> JobStates] /\ pc \in [Threads -> PCs] /\ Nobody \notin Threads
      /\ job' \in [Threads -> JobStates] /\ pc' \in [Threads -> PCs]
  BY ListConstants DEF Types, ListTypeOK, JobStates, PCs
<1>1. UNCHANGED <<sources, cur, table, holder, chosen, touched, overlap, swept>>
  BY DEF Import, ImportCheck, ImportEnds, Sweep, SearchAsk, SearchFetch, SearchLabel,
     Request, Page, Download, data, history
<1>2. \A u \in Threads \ {t} : job'[u] = job[u]
  BY <1>0 DEF Import, ImportCheck, ImportEnds, Sweep, SearchAsk, SearchFetch, SearchLabel,
     Request, Page, Download
<1>3. \A u \in Threads \ {t} : pc'[u] = pc[u]
  BY <1>0 DEF Import, ImportCheck, ImportEnds, Sweep, SearchAsk, SearchFetch, SearchLabel,
     Request, Page, Download, Goto
<1>4. /\ pc[t] \in AtCatalog <=> pc'[t] \in AtCatalog
      /\ pc[t] \in AtArticle <=> pc'[t] \in AtArticle
      /\ pc[t] = "sweep" => pc'[t] = "sweep"
      /\ ~Dirty(t) /\ pc'[t] \notin {"push", "erase", "wipe"}
  BY <1>0 DEF Import, ImportCheck, ImportEnds, Sweep, SearchAsk, SearchFetch, SearchLabel,
     Request, Page, Download, Goto, AtCatalog, AtArticle, Dirty
<1>5. holder = t => job'[t].prev = job[t].prev
  <2> SUFFICES ASSUME holder = t PROVE job'[t].prev = job[t].prev
    OBVIOUS
  <2>1. pc[t] \in AtCatalog \union AtArticle
    BY <1>0 DEF LockInv
  <2>2. Request(t) \/ Page(t) \/ Download(t)
    BY <2>1 DEF Import, ImportCheck, ImportEnds, Sweep, SearchAsk, SearchFetch, SearchLabel,
       AtCatalog, AtArticle
  <2>3. \/ job' = [job EXCEPT ![t].at = cur, ![t].moved = FALSE, ![t].used = {Url(cur)}]
        \/ \E us : job' = [job EXCEPT ![t].used = us]
    BY <2>2 DEF Request, Page, Download
  <2> QED
    BY <1>0, <2>3 DEF JobStates
<1>6. pc'[t] = "insert" => Head(job'[t].todo).url \notin DOMAIN table
  BY <1>0 DEF Import, ImportCheck, ImportEnds, Sweep, SearchAsk, SearchFetch, SearchLabel,
     Request, Page, Download, Goto
<1> QED
  BY <1>0, <1>1, <1>2, <1>3, <1>4, <1>5, <1>6, QuietShape

\* Every step.
LEMMA StepShape ==
  Types /\ LockInv /\ FetchInv /\ ShapeInv /\ [ListNext]_listVars => ShapeInv'
<1> SUFFICES ASSUME Types, LockInv, FetchInv, ShapeInv, [ListNext]_listVars PROVE ShapeInv'
  OBVIOUS
<1>0. Types' /\ LockInv'
  BY StepTypes, StepLock
<1>1. CASE Break \/ UNCHANGED listVars
  <2>1. UNCHANGED <<sources, cur, table, holder, pc, job, chosen, touched, overlap, swept>>
    BY <1>1 DEF Break, listVars, data, history
  <2>2. TraceInv'
    BY <2>1 DEF ShapeInv, TraceInv, Settled, Own, LeftWith, Plugged, UrlsOf
  <2>a. Own' = Own /\ LeftWith' = LeftWith
    BY <2>1 DEF Own, LeftWith, Plugged
  <2>3. RangeInv'
    BY <2>1, <2>a DEF ShapeInv, RangeInv, Settled
  <2>b. \A t \in Threads : (Dirty(t)' <=> Dirty(t)) /\ (HalfDone(t) => HalfDone(t)')
    BY <2>1 DEF HalfDone, Halves, Dirty, Url, UrlsOf
  <2>4. MatchInv'
    BY <2>1, <2>a, <2>b DEF ShapeInv, MatchInv, Settled
  <2> QED
    BY <2>2, <2>3, <2>4 DEF ShapeInv
<1>2. ASSUME NEW t \in Threads, ~Break, SweepOne(t), ~Writes(t)
      PROVE  ShapeInv'
  <2>1. /\ UNCHANGED <<sources, cur, table, holder, pc, chosen, touched, overlap, swept>>
        /\ pc[t] = "sweep" /\ job' = [job EXCEPT ![t].at = @ - 1]
    BY <1>2 DEF SweepOne
  <2>2. /\ job \in [Threads -> JobStates] /\ job' \in [Threads -> JobStates] /\ pc \in [Threads -> PCs]
    BY <1>0 DEF Types, ListTypeOK, JobStates, PCs
  <2>3. job'[t].prev = job[t].prev /\ \A u \in Threads \ {t} : job'[u] = job[u]
    BY <2>1, <2>2 DEF JobStates
  <2>4. ~Dirty(t) /\ pc'[t] \notin {"push", "erase", "wipe", "insert"}
    BY <2>1 DEF Dirty
  <2> QED
    BY <2>1, <2>2, <2>3, <2>4, QuietShape
<1>3. CASE \E t \in Threads : (Editor(t) \/ Reader(t)) /\ ~Break
  BY <1>0, <1>2, <1>3, ImportShape, RemoveShape, SweepShape, ClearShape, LockedShape,
     NothingChanged DEF Editor, Reader
<1> QED
  BY <1>1, <1>3 DEF ListNext

\* At the start.
LEMMA InitShape == ListBegins => ShapeInv
<1> SUFFICES ASSUME NEW w \in [Kinds -> Nat], ListStart(w) PROVE ShapeInv
  BY DEF ListBegins
<1>1. /\ holder = Nobody /\ sources = Stored /\ cur = 0 /\ chosen = 0
      /\ \A t \in Threads : pc[t] = "idle"
      /\ DOMAIN table = UrlsOf(Stored)
  BY DEF ListStart
<1>2. Own = sources /\ LeftWith = cur
  BY <1>1, FreeMeansOwn
<1>3. TraceInv
  BY <1>1, <1>2, KnownUrls, ListConstants DEF TraceInv
<1>4. RangeInv
  BY <1>1, <1>2 DEF RangeInv, WithinList, AtCatalog
<1>5. MatchInv
  <2>1. UrlsDiffer(Own) /\ UrlsOf(Own) = DOMAIN table
    BY <1>1, <1>2, KnownUrls
  <2>2. \A t \in Threads : HalfDone(t)
    BY <1>1 DEF HalfDone, Halves, Dirty
  <2> QED
    BY <2>1, <2>2 DEF MatchInv
<1> QED
  BY <1>3, <1>4, <1>5 DEF ShapeInv

ListInv == Types /\ LockInv /\ FetchInv /\ ShapeInv

-----------------------------------------------------------------------------
(* Sets of numbers, in turn. *)

\* A set of numbers has one of each rank.
LEMMA Ranks ==
  ASSUME NEW S, S \subseteq Nat, IsFiniteSet(S)
  PROVE  /\ \A i \in S : Cardinality({j \in S : j < i}) \in 0 .. Cardinality(S) - 1
         /\ \A i, j \in S : Cardinality({k \in S : k < i}) = Cardinality({k \in S : k < j}) => i = j
         /\ \A n \in 0 .. Cardinality(S) - 1 : \E i \in S : Cardinality({j \in S : j < i}) = n
<1> DEFINE Below(i) == {j \in S : j < i}
           N == Cardinality(S)
           rank == [i \in S |-> Cardinality(Below(i))]
<1>1. N \in Nat
  BY FS_CardinalityType
<1>2. \A i \in S : IsFiniteSet(Below(i)) /\ Cardinality(Below(i)) \in Nat
  BY FS_Subset, FS_CardinalityType
<1>3. \A i \in S : rank[i] \in 0 .. N - 1
  <2> TAKE i \in S
  <2>1. IsFiniteSet(S \ {i}) /\ Cardinality(S \ {i}) = N - 1
    BY FS_RemoveElement
  <2>2. Below(i) \in SUBSET (S \ {i})
    OBVIOUS
  <2>3. Cardinality(Below(i)) <= N - 1
    BY <2>1, <2>2, FS_Subset
  <2> QED
    BY <1>1, <1>2, <2>3
<1>4. \A i, j \in S : i < j => rank[i] < rank[j]
  <2> TAKE i, j \in S
  <2> HAVE i < j
  <2>1. Below(i) \union {i} \in SUBSET Below(j)
    <3>1. \A k \in S : k \in Nat
      OBVIOUS
    <3>2. \A k \in Below(i) : k \in S /\ k < j
      BY <3>1
    <3> QED
      BY <3>2
  <2>2. i \notin Below(i)
    OBVIOUS
  <2>3. IsFiniteSet(Below(i)) /\ IsFiniteSet(Below(j))
    BY <1>2
  <2> HIDE DEF Below
  <2>4. Cardinality(Below(i) \union {i}) = Cardinality(Below(i)) + 1
    BY <2>2, <2>3, FS_AddElement
  <2>5. Cardinality(Below(i) \union {i}) <= Cardinality(Below(j))
    BY <2>1, <2>3, FS_Subset
  <2>6. Cardinality(Below(i)) \in Nat /\ Cardinality(Below(j)) \in Nat
    BY <1>2
  <2> QED
    BY <2>4, <2>5, <2>6
<1>5. \A i, j \in S : rank[i] = rank[j] => i = j
  <2> TAKE i, j \in S
  <2>1. i \in Nat /\ j \in Nat /\ rank[i] \in Nat /\ rank[j] \in Nat
    BY <1>2
  <2> HIDE DEF rank
  <2>2. (i < j => rank[i] < rank[j]) /\ (j < i => rank[j] < rank[i])
    BY <1>4
  <2> QED
    BY <2>1, <2>2
<1>6. IsFiniteSet(0 .. N - 1) /\ Cardinality(0 .. N - 1) = N
  <2>1. 0 \in Int /\ N - 1 \in Int
    BY <1>1
  <2>2. IsFiniteSet(0 .. N - 1) /\ Cardinality(0 .. N - 1) = IF 0 > N - 1 THEN 0 ELSE N - 1 - 0 + 1
    BY <2>1, FS_Interval
  <2> QED
    BY <1>1, <2>2
<1>7. rank \in Injection(S, 0 .. N - 1)
  <2>1. rank \in [S -> 0 .. N - 1]
    BY <1>3
  <2> HIDE DEF rank
  <2> QED
    BY <1>5, <2>1 DEF Injection, IsInjective
<1>8. rank \in Surjection(S, 0 .. N - 1)
  <2> HIDE DEF rank
  <2> QED
    BY <1>6, <1>7, FS_Injection
<1>9. \A n \in 0 .. N - 1 : \E i \in S : rank[i] = n
  <2> HIDE DEF rank
  <2> QED
    BY <1>8 DEF Surjection
<1> QED
  BY <1>3, <1>5, <1>9

\* A function on the first numbers is a sequence.
LEMMA NumberedSeq ==
  ASSUME NEW S, NEW n \in Nat, NEW q \in [1 .. n -> S]
  PROVE  q \in Seq(S) /\ Len(q) = n /\ DOMAIN q = 1 .. n
  OBVIOUS

\* The indexes that a loop keeps are those of the set, each once.
LEMMA InTurnIs ==
  ASSUME NEW S, S \subseteq Nat, IsFiniteSet(S)
  PROVE  /\ Cardinality(S) \in Nat /\ InTurn(S) \in Seq(S) /\ Len(InTurn(S)) = Cardinality(S)
         /\ DOMAIN InTurn(S) = 1 .. Cardinality(S)
         /\ \A k, m \in DOMAIN InTurn(S) : InTurn(S)[k] = InTurn(S)[m] => k = m
         /\ \A i \in S : \E k \in DOMAIN InTurn(S) : InTurn(S)[k] = i
<1> DEFINE N == Cardinality(S)
           rank(i) == Cardinality({j \in S : j < i})
           q == InTurn(S)
<1>1. N \in Nat
  BY FS_CardinalityType
<1>2. /\ \A i \in S : rank(i) \in 0 .. N - 1
      /\ \A i, j \in S : rank(i) = rank(j) => i = j
      /\ \A n \in 0 .. N - 1 : \E i \in S : rank(i) = n
  BY Ranks
<1>3. q = [k \in 1 .. N |-> CHOOSE i \in S : rank(i) = k - 1]
  BY DEF InTurn
<1> HIDE DEF N, rank, q
<1>4. \A k \in 1 .. N : q[k] \in S /\ rank(q[k]) = k - 1
  <2> TAKE k \in 1 .. N
  <2>1. k - 1 \in 0 .. N - 1
    BY <1>1
  <2>2. \E i \in S : rank(i) = k - 1
    BY <1>2, <2>1
  <2> QED
    BY <1>3, <2>2
<1>5. q \in [1 .. N -> S]
  BY <1>3, <1>4
<1>6. q \in Seq(S) /\ Len(q) = N /\ DOMAIN q = 1 .. N
  BY <1>1, <1>5
<1>7. \A k, m \in 1 .. N : q[k] = q[m] => k = m
  <2> TAKE k, m \in 1 .. N
  <2> HAVE q[k] = q[m]
  <2>1. k - 1 = m - 1
    BY <1>4
  <2> QED
    BY <1>1, <2>1
<1>8. \A i \in S : \E k \in 1 .. N : q[k] = i
  <2> TAKE i \in S
  <2> DEFINE k == rank(i) + 1
  <2>1. k \in 1 .. N /\ k - 1 = rank(i)
    BY <1>1, <1>2
  <2> HIDE DEF k
  <2>2. q[k] \in S /\ rank(q[k]) = rank(i)
    BY <1>4, <2>1
  <2>3. q[k] = i
    BY <1>2, <2>2
  <2> QED
    BY <2>1, <2>3
<1> QED
  BY <1>1, <1>6, <1>7, <1>8 DEF N, q

-----------------------------------------------------------------------------
(* List and table, next to a validation. *)

\* The url of a temporary source is that of no other, and it is not searchable.
TempInv == \A i \in 1 .. Len(sources) : sources[i].url = Temp => ~sources[i].searchable

Unique(l) == \A i, j \in 1 .. Len(l) : l[i].url = l[j].url /\ l[i].url # Temp => i = j
Rowed(i) == sources[i].url \in DOMAIN table \union {Temp}

\* As long as no two changes overlap, a source has a row unless it is about to be erased.
Rows(t) ==
    /\ pc[t] = "insert" => Head(job[t].todo).url \notin DOMAIN table
    /\ pc[t] = "push" => /\ Head(job[t].todo).url \notin UrlsOf(sources)
                         /\ Head(job[t].todo).url \in DOMAIN table
    /\ pc[t] = "erase" => \A i \in 1 .. Len(sources) : i # job[t].at + 1 => Rowed(i)
    /\ Dirty(t) => \A u \in Threads : Dirty(u) => u = t
RowInv ==
    ~overlap =>
        /\ Unique(sources) /\ \A t \in Threads : Rows(t)
        /\ (\A t \in Threads : pc[t] \notin {"erase", "wipe"}) => \A i \in 1 .. Len(sources) : Rowed(i)

-----------------------------------------------------------------------------
(* A validation. *)

Spot(i) == tasks[i].index + 1
GradeAt(i) == sources[Spot(i)].grade
Over == {"force", "forcerow", "ended"}

StageInv ==
    /\ ValidationTypeOK /\ vshifts <= shifts
    /\ \A i, j \in DOMAIN tasks : tasks[i].index = tasks[j].index => i = j
    /\ \A i \in DOMAIN tasks : phase[i] \notin {"pending", "grading"} => verdict[i] \in Outcomes
    /\ vpc = "idle" => tasks = <<>> /\ reports = <<>> /\ valid = 0 /\ invalid = 0
    /\ vpc \in Over => \A i \in DOMAIN tasks : phase[i] \in {"pending", "done"}
    /\ vpc = "forcerow" => forcing <= Len(tasks)
    /\ vpc \in {"idle", "running"} => forcing = 1
    /\ vpc = "ended" => \A i \in DOMAIN tasks : phase[i] = "done" \/ i < forcing

\* The tasks that are counted and not yet reported.
Untold == {i \in DOMAIN tasks : phase[i] \in {"graded", "listed", "stored"}}
UntoldBad == {i \in Untold : verdict[i] = "invalid"}
BadReports == {k \in DOMAIN reports : reports[k].grade = "invalid"}
CountInv ==
    /\ invalid = Cardinality(BadReports) + Cardinality(UntoldBad)
    /\ valid + invalid = Len(reports) + Cardinality(Untold)

\* As long as no source leaves the list, a task is on its source, whose grade is the one found.
TaskPlaced(i) ==
    /\ Spot(i) <= Len(sources) /\ sources[Spot(i)].url = tasks[i].url /\ tasks[i].url # Temp
    /\ phase[i] \in {"listed", "stored", "done"} => GradeAt(i) = verdict[i]
    /\ vpc \in Over /\ i < forcing => GradeAt(i) # "unknown"
ReportPlaced(k) ==
    LET i == reports[k].task
    IN  /\ GradeAt(i) = reports[k].grade
        /\ phase[i] = "done" \/ (phase[i] = "pending" /\ i < forcing)
ReportedOnce == \A k, l \in DOMAIN reports : reports[k].task = reports[l].task => k = l
Forced == vpc = "forcerow" => phase[forcing] = "pending" /\ GradeAt(forcing) = "invalid"
SpotInv ==
    shifts = vshifts =>
        /\ \A i \in DOMAIN tasks : TaskPlaced(i)
        /\ \A k \in DOMAIN reports : ReportPlaced(k)
        /\ ReportedOnce /\ Forced

\* So is the grade in its row, as long as no two changes overlap.
RowOf(i, g) == tasks[i].url \in DOMAIN table => table[tasks[i].url] = g
GradedInv ==
    shifts = vshifts /\ ~overlap =>
        /\ \A i \in DOMAIN tasks : phase[i] \in {"stored", "done"} => RowOf(i, verdict[i])
        /\ \A k \in DOMAIN reports : RowOf(reports[k].task, reports[k].grade)

ValidationInv == StageInv /\ CountInv /\ SpotInv /\ GradedInv

-----------------------------------------------------------------------------
(* A streamed search. *)

HitsOf(list, asked) == {i \in DOMAIN list : Searched(list[i], asked)}
Twice == \E k, l \in DOMAIN names : k # l /\ names[k] = names[l]
StreamInv ==
    /\ StreamTypeOK /\ IsFiniteSet(waiting) /\ IsFiniteSet(active) /\ waiting \intersect active = {}
    /\ spc \in {"idle", "collect"} => steady /\ ~late /\ events = <<>> /\ answered = 0
    /\ spc # "running" => waiting = {} /\ active = {}
    /\ spc # "idle" => expected = CountExpected(snap, names)
    /\ Len(events) = answered
    /\ steady => \A x \in waiting \union active : x.index < Len(snap) /\ x.url = snap[x.index + 1].url
    /\ steady => \A k \in DOMAIN events : events[k].url = events[k].of
    /\ steady /\ spc \in {"running", "wait"} =>
         answered + Cardinality(waiting) + Cardinality(active) = Cardinality(HitsOf(snap, names))
    /\ late => ~steady \/ Twice

-----------------------------------------------------------------------------
(* List and table, whoever holds the lock. *)

\* Each of a list's elements is one of another list's, other than the one at a position.
Without(l, i, m) == \A k \in 1 .. Len(m) : \E j \in 1 .. Len(l) : j # i + 1 /\ m[k] = l[j]

\* What is left of a list when an element is erased, or the last one dropped.
LEMMA LeftOver ==
  ASSUME NEW l \in Seq(Sources), NEW m, NEW i \in 0 .. Len(l) - 1,
         m = Erase(l, i) \/ (i = Len(l) - 1 /\ m = Front(l))
  PROVE  /\ m \in Seq(Sources) /\ Len(m) = Len(l) - 1 /\ Len(l) \in Nat
         /\ \A k \in 1 .. Len(m) : m[k] = IF k <= i THEN l[k] ELSE l[k + 1]
         /\ Without(l, i, m)
         /\ Unique(l) => Unique(m)
<1>1. Len(l) \in Nat /\ l # <<>>
  BY EmptySeq
<1>2. /\ m \in Seq(Sources) /\ Len(m) = Len(l) - 1
      /\ \A k \in 1 .. Len(l) - 1 : m[k] = IF k <= i THEN l[k] ELSE l[k + 1]
  <2>1. CASE m = Erase(l, i)
    BY <2>1, EraseOne
  <2>2. CASE i = Len(l) - 1 /\ m = Front(l)
    <3>1. /\ m \in Seq(Sources) /\ Len(m) = Len(l) - 1
          /\ \A k \in 1 .. Len(l) - 1 : m[k] = l[k]
      BY <1>1, <2>2, DropLast
    <3> QED
      BY <1>1, <2>2, <3>1
  <2> QED
    BY <2>1, <2>2
<1>3. \A k \in 1 .. Len(m) : \E j \in 1 .. Len(l) : j # i + 1 /\ m[k] = l[j]
  <2> TAKE k \in 1 .. Len(m)
  <2>1. CASE k <= i
    BY <1>1, <1>2, <2>1
  <2>2. CASE ~(k <= i)
    <3>1. k + 1 \in 1 .. Len(l) /\ k + 1 # i + 1 /\ m[k] = l[k + 1]
      BY <1>1, <1>2, <2>2
    <3> QED
      BY <3>1
  <2> QED
    BY <2>1, <2>2
<1>4. ASSUME Unique(l) PROVE Unique(m)
  <2> SUFFICES ASSUME NEW j \in 1 .. Len(m), NEW k \in 1 .. Len(m), m[j].url = m[k].url,
                      m[j].url # Temp
               PROVE  j = k
    BY DEF Unique
  <2> DEFINE up(n) == IF n <= i THEN n ELSE n + 1
  <2>1. /\ up(j) \in 1 .. Len(l) /\ m[j] = l[up(j)]
        /\ up(k) \in 1 .. Len(l) /\ m[k] = l[up(k)]
    BY <1>1, <1>2
  <2>2. up(j) = up(k)
    <3> HIDE DEF up
    <3> QED
      BY <1>4, <2>1 DEF Unique
  <2> QED
    BY <1>1, <1>2, <2>2
<1> QED
  BY <1>1, <1>2, <1>3, <1>4 DEF Without

\* What a thread sees of list and table when nobody else is changing them.
Alone(t) ==
    /\ Unique(sources)
    /\ pc[t] = "insert" => Head(job[t].todo).url \notin DOMAIN table
    /\ pc[t] = "push" => /\ Head(job[t].todo).url \notin UrlsOf(sources)
                         /\ Head(job[t].todo).url \in DOMAIN table
    /\ pc[t] = "erase" => \A i \in 1 .. Len(sources) : i # job[t].at + 1 => Rowed(i)
    /\ pc[t] \notin {"erase", "wipe"} => \A i \in 1 .. Len(sources) : Rowed(i)

\* A step that writes, next to nobody's.
LEMMA RowsAlone ==
  ASSUME RowInv, NEW t \in Threads, Writes(t), \A u \in Threads \ {t} : pc'[u] = pc[u],
         ~overlap' /\ Alone(t) => Alone(t)'
  PROVE  RowInv'
<1> SUFFICES ASSUME ~overlap' PROVE RowInv'
  BY DEF RowInv
<1>1. ~overlap /\ \A u \in Threads \ {t} : ~Editing(u)
  BY DEF Writes
<1>2. Alone(t)
  BY <1>1 DEF RowInv, Alone, Rows, Editing
<1>3. Alone(t)' /\ \A u \in Threads \ {t} : ~Editing(u)' /\ ~Dirty(u)'
  BY <1>1, <1>2 DEF Editing, Dirty
<1>4. \A u \in Threads : Rows(u)'
  <2>1. Rows(t)'
    BY <1>3 DEF Rows, Alone
  <2>2. \A u \in Threads \ {t} : Rows(u)'
    BY <1>3 DEF Rows, Editing, Dirty
  <2> QED
    BY <2>1, <2>2
<1> QED
  BY <1>3, <1>4 DEF RowInv, Alone, Editing

\* A step that writes nothing.
LEMMA RowsStill ==
  ASSUME RowInv, NEW t \in Threads, UNCHANGED <<sources, table, overlap>>,
         \A u \in Threads \ {t} : pc'[u] = pc[u] /\ job'[u] = job[u],
         ~Dirty(t), pc'[t] \notin {"push", "erase", "wipe"},
         pc'[t] = "insert" => Head(job'[t].todo).url \notin DOMAIN table
  PROVE  RowInv'
<1>1. \A u \in Threads : Dirty(u)' => Dirty(u) /\ u # t
  BY DEF Dirty
<1>2. \A u \in Threads : ~overlap /\ Rows(u) => Rows(u)'
  <2> TAKE u \in Threads
  <2>1. CASE u = t
    BY <1>1, <2>1 DEF Rows
  <2>2. CASE u # t
    <3>1. Rows(u) => /\ pc'[u] = "insert" => Head(job'[u].todo).url \notin DOMAIN table'
                     /\ pc'[u] = "push" => /\ Head(job'[u].todo).url \notin UrlsOf(sources)'
                                           /\ Head(job'[u].todo).url \in DOMAIN table'
                     /\ pc'[u] = "erase" => \A i \in 1 .. Len(sources') :
                                               i # job'[u].at + 1 => Rowed(i)'
      BY <2>2 DEF Rows, Rowed, UrlsOf
    <3>2. Rows(u) => (Dirty(u)' => \A v \in Threads : Dirty(v)' => v = u)
      BY <1>1 DEF Rows
    <3> QED
      BY <3>1, <3>2 DEF Rows
  <2> QED
    BY <2>1, <2>2
<1>3. ~overlap => Unique(sources)'
  BY DEF RowInv, Unique
<1>4. ~overlap /\ (\A u \in Threads : pc'[u] \notin {"erase", "wipe"})
        => \A i \in 1 .. Len(sources') : Rowed(i)'
  <2>1. (\A u \in Threads : pc'[u] \notin {"erase", "wipe"})
          => \A u \in Threads : pc[u] \notin {"erase", "wipe"}
    BY DEF Dirty
  <2> QED
    BY <2>1 DEF RowInv, Rowed
<1> QED
  BY <1>2, <1>3, <1>4 DEF RowInv

\* The steps of a thread that write nothing.
LEMMA RowsUnwritten ==
  ASSUME Types, RowInv, NEW t \in Threads, ~Break,
         \/ Import(t) \/ ImportCheck(t) \/ ImportEnds(t) \/ Sweep(t) \/ (SweepOne(t) /\ ~Writes(t))
         \/ SearchAsk(t) \/ SearchFetch(t) \/ SearchLabel(t)
         \/ Request(t) \/ Page(t) \/ Download(t)
  PROVE  RowInv' /\ UNCHANGED <<sources, table, shifts, overlap>>
<1>0. job \in [Threads -> JobStates] /\ pc \in [Threads -> PCs]
  BY DEF Types, ListTypeOK, JobStates, PCs
<1>1. UNCHANGED <<sources, table, shifts, overlap>>
  BY DEF Import, ImportCheck, ImportEnds, Sweep, SweepOne, SearchAsk, SearchFetch, SearchLabel,
     Request, Page, Download, data, history
<1>2. \A u \in Threads \ {t} : job'[u] = job[u]
  BY <1>0 DEF Import, ImportCheck, ImportEnds, Sweep, SweepOne, SearchAsk, SearchFetch, SearchLabel,
     Request, Page, Download
<1>3. \A u \in Threads \ {t} : pc'[u] = pc[u]
  BY <1>0 DEF Import, ImportCheck, ImportEnds, Sweep, SweepOne, SearchAsk, SearchFetch, SearchLabel,
     Request, Page, Download, Goto
<1>4. ~Dirty(t) /\ pc'[t] \notin {"push", "erase", "wipe"}
  BY <1>0 DEF Import, ImportCheck, ImportEnds, Sweep, SweepOne, SearchAsk, SearchFetch, SearchLabel,
     Request, Page, Download, Goto, Dirty
<1>5. pc'[t] = "insert" => Head(job'[t].todo).url \notin DOMAIN table
  BY <1>0 DEF Import, ImportCheck, ImportEnds, Sweep, SweepOne, SearchAsk, SearchFetch, SearchLabel,
     Request, Page, Download, Goto
<1> QED
  BY <1>1, <1>2, <1>3, <1>4, <1>5, RowsStill

\* The steps that write, but leave the list alone.
LEMMA RowsOfTable ==
  ASSUME Types, RowInv, NEW t \in Threads, ~Break,
         \/ ImportInsert(t) \/ RemoveSource(t) \/ SweepEnds(t) \/ Clear(t)
         \/ Select(t) \/ Lock(t) \/ Restore(t)
  PROVE  RowInv' /\ Writes(t) /\ UNCHANGED <<sources, shifts>>
<1>0. /\ job \in [Threads -> JobStates] /\ pc \in [Threads -> PCs] /\ sources \in Seq(Sources)
      /\ Len(sources) \in Nat
  BY DEF Types, ListTypeOK, JobStates, PCs
<1>1. Writes(t) /\ UNCHANGED <<sources, shifts>>
  BY DEF ImportInsert, RemoveSource, SweepEnds, Clear, Select, Lock, Restore
<1>2. \A u \in Threads \ {t} : pc'[u] = pc[u]
  BY <1>0 DEF ImportInsert, RemoveSource, SweepEnds, Clear, Select, Lock, Restore, Goto
<1>3. ASSUME Alone(t) PROVE Alone(t)'
  <2>1. CASE ImportInsert(t)
    <3> DEFINE new == Head(job[t].todo).url
    <3>1. /\ pc[t] = "insert" /\ pc'[t] = "push" /\ job' = job
          /\ DOMAIN table' = DOMAIN table \union {new}
      BY <1>0, <2>1 DEF ImportInsert, Goto
    <3>2. new # Temp
      <4>1. job[t].todo \in Seq(Sources) /\ job[t].todo # <<>>
        BY <1>0, <3>1 DEF JobStates, Types, TodoKnown
      <4>2. 1 \in 1 .. Len(job[t].todo) /\ Head(job[t].todo) = job[t].todo[1]
        BY <4>1, EmptySeq
      <4> QED
        BY <4>2, ListConstants DEF Types, TodoKnown
    <3>3. \A i \in 1 .. Len(sources) : Rowed(i)
      BY <1>3, <3>1 DEF Alone
    <3>4. UrlsOf(sources) = {sources[i].url : i \in 1 .. Len(sources)}
      BY <1>0, UrlsOfList
    <3>5. new \notin UrlsOf(sources)
      BY <1>3, <3>1, <3>2, <3>3, <3>4 DEF Alone, Rowed
    <3> HIDE DEF new
    <3>6. \A i \in 1 .. Len(sources) : Rowed(i)'
      BY <1>1, <3>1, <3>3 DEF Rowed
    <3>7. Unique(sources)' /\ UrlsOf(sources') = UrlsOf(sources) /\ Head(job'[t].todo).url = new
      BY <1>1, <1>3, <3>1 DEF Alone, Unique, new
    <3>8. sources' = sources
      BY <1>1
    <3> QED
      BY <3>1, <3>5, <3>6, <3>7, <3>8 DEF Alone
  <2>2. CASE RemoveSource(t)
    <3>1. PICK i \in 0 .. Len(sources) - 1 :
            /\ table' = [u \in DOMAIN table \ {Url(i)} |-> table[u]]
            /\ job' = [job EXCEPT ![t] = [Idle EXCEPT !.at = i]]
      BY <2>2 DEF RemoveSource
    <3>2. pc[t] = "idle" /\ pc'[t] = "erase" /\ job'[t].at = i
      BY <1>0, <2>2, <3>1 DEF RemoveSource, Goto, Idle
    <3>3. DOMAIN table' = DOMAIN table \ {Url(i)}
      BY <3>1
    <3>4. ASSUME NEW k \in 1 .. Len(sources), k # i + 1 PROVE Rowed(k)'
      <4>1. Rowed(k)
        BY <1>3, <3>2 DEF Alone
      <4>2. i + 1 \in 1 .. Len(sources)
        BY <1>0
      <4>3. sources[k].url = sources[i + 1].url => sources[k].url = Temp
        BY <1>3, <3>4, <4>2 DEF Alone, Unique
      <4> QED
        BY <1>1, <3>3, <4>1, <4>3 DEF Rowed, Url
    <3>5. Unique(sources)'
      BY <1>1, <1>3 DEF Alone, Unique
    <3> QED
      BY <1>1, <3>2, <3>4, <3>5 DEF Alone
  <2>3. CASE Clear(t)
    <3>1. pc'[t] = "wipe"
      BY <1>0, <2>3 DEF Clear, Goto
    <3>2. Unique(sources)'
      BY <1>1, <1>3 DEF Alone, Unique
    <3> QED
      BY <3>1, <3>2 DEF Alone
  <2>4. CASE SweepEnds(t) \/ Select(t) \/ Lock(t) \/ Restore(t)
    <3>1. /\ UNCHANGED <<sources, table>> /\ pc[t] \in {"sweep", "idle", "restore"}
          /\ pc'[t] \in {"idle", "ask", "request"}
      BY <1>0, <2>4 DEF SweepEnds, Select, Lock, Restore, Goto
    <3> QED
      BY <1>3, <3>1 DEF Alone, Unique, Rowed
  <2> QED
    BY <2>1, <2>2, <2>3, <2>4
<1> QED
  BY <1>1, <1>2, <1>3, RowsAlone

\* The steps that change the list.
LEMMA RowsOfList ==
  ASSUME Types, RowInv, NEW t \in Threads, ~Break,
         \/ ImportPush(t) \/ RemoveErase(t) \/ (SweepOne(t) /\ Writes(t)) \/ ClearWipe(t)
         \/ Plug(t) \/ Unplug(t)
  PROVE  RowInv'
<1>0. /\ job \in [Threads -> JobStates] /\ pc \in [Threads -> PCs] /\ sources \in Seq(Sources)
      /\ Len(sources) \in Nat
  BY DEF Types, ListTypeOK, JobStates, PCs
<1>1. Writes(t)
  BY DEF ImportPush, RemoveErase, ClearWipe, Plug, Unplug
<1>2. \A u \in Threads \ {t} : pc'[u] = pc[u]
  BY <1>0 DEF ImportPush, RemoveErase, SweepOne, ClearWipe, Plug, Unplug, Goto
<1>3. ASSUME NEW s \in Sources, sources' = Append(sources, s), table' = table,
             s.url = Temp \/ (s.url \notin UrlsOf(sources) /\ s.url \in DOMAIN table),
             pc[t] \notin {"erase", "wipe"}, pc'[t] \in {"check", "download"}, Alone(t)
      PROVE  Alone(t)'
  <2>1. /\ Len(sources') = Len(sources) + 1 /\ sources'[Len(sources) + 1] = s
        /\ \A i \in 1 .. Len(sources) : sources'[i] = sources[i]
    BY <1>0, <1>3, AppendOne
  <2>2. \A i \in 1 .. Len(sources') : i \in 1 .. Len(sources) \/ i = Len(sources) + 1
    BY <1>0, <2>1
  <2>3. \A i \in 1 .. Len(sources) : sources[i].url \in UrlsOf(sources)
    BY <1>0, UrlsOfList
  <2>4. Unique(sources)'
    <3> SUFFICES ASSUME NEW i \in 1 .. Len(sources'), NEW j \in 1 .. Len(sources'),
                        sources'[i].url = sources'[j].url, sources'[i].url # Temp
                 PROVE  i = j
      BY DEF Unique
    <3>1. i \in 1 .. Len(sources) /\ j \in 1 .. Len(sources) => i = j
      BY <1>3, <2>1 DEF Alone, Unique
    <3> QED
      BY <1>3, <2>1, <2>2, <2>3, <3>1
  <2>5. \A i \in 1 .. Len(sources') : Rowed(i)'
    <3> SUFFICES ASSUME NEW i \in 1 .. Len(sources') PROVE Rowed(i)'
      OBVIOUS
    <3>1. i \in 1 .. Len(sources) => Rowed(i)'
      BY <1>3, <2>1 DEF Alone, Rowed
    <3>2. i = Len(sources) + 1 => Rowed(i)'
      BY <1>3, <2>1 DEF Rowed
    <3> QED
      BY <2>2, <3>1, <3>2
  <2> QED
    BY <1>3, <2>4, <2>5 DEF Alone
<1>4. ASSUME NEW i \in 0 .. Len(sources) - 1,
             sources' = Erase(sources, i) \/ (i = Len(sources) - 1 /\ sources' = Front(sources)),
             \A k \in 1 .. Len(sources) : k # i + 1 => Rowed(k),
             DOMAIN table' = DOMAIN table \/ DOMAIN table' = DOMAIN table \ {Url(i)},
             pc'[t] \in {"idle", "sweep"}, Alone(t)
      PROVE  Alone(t)'
  <2>1. Without(sources, i, sources') /\ (Unique(sources) => Unique(sources'))
    BY <1>0, <1>4, LeftOver
  <2>2. Unique(sources)'
    BY <1>4, <2>1 DEF Alone, Unique
  <2>3. \A k \in 1 .. Len(sources') : Rowed(k)'
    <3> TAKE k \in 1 .. Len(sources')
    <3>1. PICK j \in 1 .. Len(sources) : j # i + 1 /\ sources'[k] = sources[j]
      BY <2>1 DEF Without
    <3>2. Rowed(j) /\ i + 1 \in 1 .. Len(sources)
      BY <1>0, <1>4, <3>1
    <3>3. sources[j].url = sources[i + 1].url => sources[j].url = Temp
      BY <1>4, <3>1, <3>2 DEF Alone, Unique
    <3> QED
      BY <1>4, <3>1, <3>2, <3>3 DEF Rowed, Url
  <2> QED
    BY <1>4, <2>2, <2>3 DEF Alone
<1>5. ASSUME Alone(t) PROVE Alone(t)'
  <2>1. CASE ImportPush(t)
    <3> DEFINE s == Head(job[t].todo)
    <3>1. /\ pc[t] = "push" /\ pc'[t] = "check" /\ sources' = Append(sources, s) /\ table' = table
      BY <1>0, <2>1 DEF ImportPush, Push, Goto
    <3>2. s \in Sources
      <4>1. job[t].todo \in Seq(Sources) /\ job[t].todo # <<>>
        BY <1>0, <3>1 DEF JobStates, Types, TodoKnown
      <4> QED
        BY <4>1, HeadTailProperties
    <3>3. s.url \notin UrlsOf(sources) /\ s.url \in DOMAIN table
      BY <1>5, <3>1 DEF Alone
    <3> HIDE DEF s
    <3> QED
      BY <1>3, <1>5, <3>1, <3>2, <3>3
  <2>2. CASE Plug(t)
    <3> DEFINE s == [url |-> Temp, name |-> NoName, searchable |-> FALSE, grade |-> "unknown"]
    <3>1. s \in Sources /\ s.url = Temp
      BY ListConstants DEF Sources, Grades
    <3>2. /\ pc[t] = "idle" /\ pc'[t] = "download" /\ sources' = Append(sources, s) /\ table' = table
      BY <1>0, <2>2 DEF Plug, Push, Goto
    <3> HIDE DEF s
    <3> QED
      BY <1>3, <1>5, <3>1, <3>2
  <2>3. CASE RemoveErase(t)
    <3>1. /\ pc[t] = "erase" /\ pc'[t] = "idle" /\ InRange(job[t].at)
          /\ sources' = Erase(sources, job[t].at) /\ table' = table
      BY <1>0, <2>3 DEF RemoveErase, Goto
    <3>2. job[t].at \in 0 .. Len(sources) - 1
      BY <1>0, <3>1 DEF InRange, JobStates
    <3>3. \A k \in 1 .. Len(sources) : k # job[t].at + 1 => Rowed(k)
      BY <1>5, <3>1 DEF Alone
    <3> QED
      BY <1>4, <1>5, <3>1, <3>2, <3>3
  <2>4. CASE Unplug(t)
    <3>1. /\ pc[t] = "unplug" /\ pc'[t] = "idle" /\ sources # <<>>
          /\ sources' = Front(sources) /\ table' = table
      BY <1>0, <2>4 DEF Unplug, Goto
    <3>2. Len(sources) - 1 \in 0 .. Len(sources) - 1
      BY <1>0, <3>1, EmptySeq
    <3>3. \A k \in 1 .. Len(sources) : Rowed(k)
      BY <1>5, <3>1 DEF Alone
    <3> QED
      BY <1>4, <1>5, <3>1, <3>2, <3>3
  <2>5. CASE SweepOne(t)
    <3>1. /\ pc[t] = "sweep" /\ pc'[t] = "sweep" /\ InRange(job[t].at)
          /\ \/ /\ sources' = Erase(sources, job[t].at)
                /\ table' = [u \in DOMAIN table \ {Url(job[t].at)} |-> table[u]]
             \/ UNCHANGED <<sources, table>>
      BY <1>0, <2>5 DEF SweepOne
    <3>2. job[t].at \in 0 .. Len(sources) - 1
      BY <1>0, <3>1 DEF InRange, JobStates
    <3>3. \A k \in 1 .. Len(sources) : Rowed(k)
      BY <1>5, <3>1 DEF Alone
    <3>4. CASE UNCHANGED <<sources, table>>
      BY <1>5, <3>1, <3>4 DEF Alone, Unique, Rowed
    <3>5. CASE /\ sources' = Erase(sources, job[t].at)
               /\ table' = [u \in DOMAIN table \ {Url(job[t].at)} |-> table[u]]
      <4>1. DOMAIN table' = DOMAIN table \ {Url(job[t].at)}
        BY <3>5
      <4> QED
        BY <1>4, <1>5, <3>1, <3>2, <3>3, <3>5, <4>1
    <3> QED
      BY <3>1, <3>4, <3>5
  <2>6. CASE ClearWipe(t)
    <3>1. pc'[t] = "idle" /\ sources' = <<>>
      BY <1>0, <2>6 DEF ClearWipe, Goto
    <3>2. 1 .. Len(sources') = {}
      BY <3>1
    <3> QED
      BY <3>1, <3>2 DEF Alone, Unique
  <2> QED
    BY <2>1, <2>2, <2>3, <2>4, <2>5, <2>6
<1> QED
  BY <1>1, <1>2, <1>5, RowsAlone

\* Every step.
LEMMA StepRows == Types /\ RowInv /\ [ListNext]_listVars => RowInv'
<1> SUFFICES ASSUME Types, RowInv, [ListNext]_listVars PROVE RowInv'
  OBVIOUS
<1>1. CASE Break \/ UNCHANGED listVars
  <2>1. UNCHANGED <<sources, table, pc, job, overlap>>
    BY <1>1 DEF Break, listVars, data, history
  <2>2. \A t \in Threads : (Dirty(t)' <=> Dirty(t)) /\ (Rows(t) => Rows(t)')
    BY <2>1 DEF Rows, Dirty, Rowed, UrlsOf
  <2>3. (Unique(sources) => Unique(sources)') /\ \A i \in 1 .. Len(sources) : Rowed(i) => Rowed(i)'
    BY <2>1 DEF Rowed, Unique
  <2> QED
    BY <2>1, <2>2, <2>3 DEF RowInv
<1>2. CASE \E t \in Threads : (Editor(t) \/ Reader(t)) /\ ~Break
  <2>1. PICK t \in Threads : (Editor(t) \/ Reader(t)) /\ ~Break
    BY <1>2
  <2>2. CASE SweepOne(t)
    BY <2>1, <2>2, RowsUnwritten, RowsOfList
  <2>3. CASE ~SweepOne(t)
    BY <2>1, <2>3, RowsUnwritten, RowsOfTable, RowsOfList DEF Editor, Reader
  <2> QED
    BY <2>2, <2>3
<1> QED
  BY <1>1, <1>2 DEF ListNext

\* At the start.
LEMMA InitRows == ListBegins => TempInv /\ RowInv
<1> SUFFICES ASSUME NEW w \in [Kinds -> Nat], ListStart(w) PROVE TempInv /\ RowInv
  BY DEF ListBegins
<1>1. /\ sources = Stored /\ DOMAIN table = UrlsOf(Stored) /\ \A t \in Threads : pc[t] = "idle"
  BY DEF ListStart
<1>2. \A i \in 1 .. Len(Stored) : Stored[i].url \in UrlsOf(Stored) /\ Stored[i].url # Temp
  BY KnownUrls, UrlsOfList, ListConstants
<1>3. Unique(sources)
  BY <1>1, KnownUrls DEF Unique, UrlsDiffer
<1>4. \A i \in 1 .. Len(sources) : Rowed(i)
  BY <1>1, <1>2 DEF Rowed
<1>5. \A t \in Threads : Rows(t)
  BY <1>1 DEF Rows, Dirty
<1> QED
  BY <1>1, <1>2, <1>3, <1>4, <1>5 DEF TempInv, RowInv

-----------------------------------------------------------------------------
(* What a step on the list does, as a validation sees it. *)

Grows ==
    /\ \E s \in Sources : sources' = Append(sources, s) /\ (s.url = Temp => ~s.searchable)
    /\ shifts' = shifts
Shrinks ==
    /\ \A k \in 1 .. Len(sources') : \E j \in 1 .. Len(sources) : sources'[k] = sources[j]
    /\ shifts' = shifts + 1

\* A list changes by an element at its end, or loses one.
LEMMA ListMoves ==
  ASSUME Types, NEW t \in Threads, ~Break, Editor(t) \/ Reader(t)
  PROVE  UNCHANGED <<sources, shifts>> \/ Grows \/ Shrinks
<1>0. /\ job \in [Threads -> JobStates] /\ pc \in [Threads -> PCs] /\ sources \in Seq(Sources)
      /\ Len(sources) \in Nat
  BY DEF Types, ListTypeOK, JobStates, PCs
<1>1. CASE ImportPush(t)
  <2> DEFINE s == Head(job[t].todo)
  <2>1. pc[t] = "push" /\ sources' = Append(sources, s) /\ shifts' = shifts
    BY <1>1 DEF ImportPush, Push
  <2>2. job[t].todo \in Seq(Sources) /\ job[t].todo # <<>>
    BY <1>0, <2>1 DEF JobStates, Types, TodoKnown
  <2>3. 1 \in 1 .. Len(job[t].todo) /\ s = job[t].todo[1] /\ s \in Sources
    BY <2>2, EmptySeq, HeadTailProperties
  <2>4. s.url # Temp
    BY <2>3, ListConstants DEF Types, TodoKnown
  <2> QED
    BY <2>1, <2>3, <2>4 DEF Grows
<1>2. CASE Plug(t)
  <2> DEFINE s == [url |-> Temp, name |-> NoName, searchable |-> FALSE, grade |-> "unknown"]
  <2>1. s \in Sources /\ ~s.searchable
    BY ListConstants DEF Sources, Grades
  <2>2. sources' = Append(sources, s) /\ shifts' = shifts
    BY <1>2 DEF Plug, Push
  <2> HIDE DEF s
  <2> QED
    BY <2>1, <2>2 DEF Grows
<1>3. ASSUME NEW i \in 0 .. Len(sources) - 1, shifts' = shifts + 1,
             sources' = Erase(sources, i) \/ (i = Len(sources) - 1 /\ sources' = Front(sources))
      PROVE  Shrinks
  <2>1. Without(sources, i, sources')
    BY <1>0, <1>3, LeftOver
  <2> QED
    BY <1>3, <2>1 DEF Without, Shrinks
<1>4. CASE RemoveErase(t)
  <2>1. InRange(job[t].at) /\ sources' = Erase(sources, job[t].at) /\ shifts' = shifts + 1
    BY <1>4 DEF RemoveErase
  <2>2. job[t].at \in 0 .. Len(sources) - 1
    BY <1>0, <2>1 DEF InRange, JobStates
  <2> QED
    BY <1>3, <2>1, <2>2
<1>5. CASE SweepOne(t)
  <2>1. /\ InRange(job[t].at)
        /\ \/ sources' = Erase(sources, job[t].at) /\ shifts' = shifts + 1
           \/ UNCHANGED <<sources, shifts>>
    BY <1>5 DEF SweepOne
  <2>2. job[t].at \in 0 .. Len(sources) - 1
    BY <1>0, <2>1 DEF InRange, JobStates
  <2> QED
    BY <1>3, <2>1, <2>2
<1>6. CASE Unplug(t)
  <2>1. sources # <<>> /\ sources' = Front(sources) /\ shifts' = shifts + 1
    BY <1>6 DEF Unplug
  <2>2. Len(sources) - 1 \in 0 .. Len(sources) - 1
    BY <1>0, <2>1, EmptySeq
  <2> QED
    BY <1>3, <2>1, <2>2
<1>7. CASE ClearWipe(t)
  <2>1. sources' = <<>> /\ shifts' = shifts + 1
    BY <1>7 DEF ClearWipe
  <2>2. 1 .. Len(sources') = {}
    BY <2>1
  <2> QED
    BY <2>1, <2>2 DEF Shrinks
<1>8. CASE \/ Import(t) \/ ImportCheck(t) \/ ImportInsert(t) \/ ImportEnds(t) \/ RemoveSource(t)
           \/ Sweep(t) \/ SweepEnds(t) \/ Clear(t) \/ Select(t) \/ SearchAsk(t) \/ SearchFetch(t)
           \/ SearchLabel(t) \/ Lock(t) \/ Request(t) \/ Page(t) \/ Restore(t) \/ Download(t)
  BY <1>8 DEF Import, ImportCheck, ImportInsert, ImportEnds, RemoveSource, Sweep, SweepEnds, Clear,
     Select, SearchAsk, SearchFetch, SearchLabel, Lock, Request, Page, Restore, Download, data, history
<1> QED
  BY <1>1, <1>2, <1>4, <1>5, <1>6, <1>7, <1>8 DEF Editor, Reader

\* As long as nothing leaves the list, its elements keep their places.
PlacesKept ==
    shifts' = shifts =>
        Len(sources) <= Len(sources') /\ \A k \in 1 .. Len(sources) : sources'[k] = sources[k]

\* As long as changes do not overlap, no source of the list gets another row than it had.
RowsKept ==
    ~overlap' => \A u \in UrlsOf(sources) \ {Temp} :
                    u \in DOMAIN table' => u \in DOMAIN table /\ table'[u] = table[u]

\* Rows are only added by an import, for a source that the list does not have.
LEMMA TableMoves ==
  ASSUME Types, RowInv, NEW t \in Threads, ~Break, Editor(t) \/ Reader(t)
  PROVE  RowsKept /\ (overlap => overlap')
<1>0. /\ job \in [Threads -> JobStates] /\ pc \in [Threads -> PCs] /\ sources \in Seq(Sources)
      /\ Len(sources) \in Nat
  BY DEF Types, ListTypeOK, JobStates, PCs
<1>1. CASE ImportInsert(t)
  <2>0. overlap => overlap'
    BY <1>1 DEF ImportInsert, Writes
  <2>1. SUFFICES ASSUME ~overlap', NEW u \in UrlsOf(sources), u # Temp
                 PROVE  u \in DOMAIN table /\ table'[u] = table[u]
    BY <2>0 DEF RowsKept
  <2>2. pc[t] = "insert" /\ ~overlap /\ \A v \in Threads \ {t} : ~Editing(v)
    BY <1>1, <2>1 DEF ImportInsert, Writes
  <2>3. \A i \in 1 .. Len(sources) : Rowed(i)
    BY <2>2 DEF RowInv, Editing
  <2>4. PICK i \in 1 .. Len(sources) : sources[i].url = u
    BY <1>0, UrlsOfList
  <2>5. u \in DOMAIN table
    BY <2>1, <2>3, <2>4 DEF Rowed
  <2> QED
    BY <1>1, <2>5 DEF ImportInsert
<1>2. ASSUME \E gone \in SUBSET DOMAIN table : table' = [u \in DOMAIN table \ gone |-> table[u]]
      PROVE  RowsKept
  BY <1>2 DEF RowsKept
<1>3. ASSUME table' = table PROVE RowsKept
  BY <1>3 DEF RowsKept
<1>4. CASE RemoveSource(t)
  <2>1. PICK i \in 0 .. Len(sources) - 1 : table' = [u \in DOMAIN table \ {Url(i)} |-> table[u]]
    BY <1>4 DEF RemoveSource
  <2>2. RowsKept
    BY <2>1 DEF RowsKept
  <2> QED
    BY <1>4, <2>2 DEF RemoveSource, Writes
<1>5. CASE Clear(t)
  <2>1. table' = [u \in DOMAIN table \ UrlsOf(sources) |-> table[u]]
    BY <1>5 DEF Clear
  <2>2. RowsKept
    BY <2>1 DEF RowsKept
  <2> QED
    BY <1>5, <2>2 DEF Clear, Writes
<1>6. CASE SweepOne(t)
  <2>1. \/ table' = [u \in DOMAIN table \ {Url(job[t].at)} |-> table[u]] /\ Writes(t)
        \/ table' = table /\ overlap' = overlap
    BY <1>6 DEF SweepOne
  <2>2. RowsKept
    BY <2>1 DEF RowsKept
  <2>3. overlap => overlap'
    BY <2>1, Zenon DEF Writes
  <2> QED
    BY <2>2, <2>3
<1>7. CASE \/ ImportPush(t) \/ RemoveErase(t) \/ SweepEnds(t) \/ ClearWipe(t) \/ Select(t)
           \/ Lock(t) \/ Restore(t) \/ Plug(t) \/ Unplug(t)
  <2>1. table' = table /\ Writes(t)
    BY <1>7 DEF ImportPush, RemoveErase, SweepEnds, ClearWipe, Select, Lock, Restore, Plug, Unplug
  <2> QED
    BY <1>3, <2>1 DEF Writes
<1>8. CASE \/ Import(t) \/ ImportCheck(t) \/ ImportEnds(t) \/ Sweep(t) \/ SearchAsk(t)
           \/ SearchFetch(t) \/ SearchLabel(t) \/ Request(t) \/ Page(t) \/ Download(t)
  <2>1. table' = table /\ overlap' = overlap
    BY <1>8 DEF Import, ImportCheck, ImportEnds, Sweep, SearchAsk, SearchFetch, SearchLabel,
       Request, Page, Download, data, history
  <2> QED
    BY <1>3, <2>1
<1> QED
  BY <1>1, <1>4, <1>5, <1>6, <1>7, <1>8 DEF Editor, Reader

\* Every step.
LEMMA ListFrame ==
  ASSUME Types, RowInv, TempInv, [ListNext]_listVars
  PROVE  /\ TempInv' /\ PlacesKept /\ RowsKept
         /\ shifts <= shifts' /\ (overlap => overlap')
<1>0. sources \in Seq(Sources) /\ Len(sources) \in Nat /\ shifts \in Nat
  BY DEF Types, ListTypeOK
<1>1. ASSUME UNCHANGED <<sources, shifts>> PROVE TempInv' /\ PlacesKept /\ shifts <= shifts'
  BY <1>0, <1>1 DEF TempInv, PlacesKept
<1>2. ASSUME Grows PROVE TempInv' /\ PlacesKept /\ shifts <= shifts'
  <2>1. PICK s \in Sources : sources' = Append(sources, s) /\ (s.url = Temp => ~s.searchable)
    BY <1>2 DEF Grows
  <2>2. /\ Len(sources') = Len(sources) + 1 /\ sources'[Len(sources) + 1] = s
        /\ \A i \in 1 .. Len(sources) : sources'[i] = sources[i]
    BY <1>0, <2>1, AppendOne
  <2>3. PlacesKept /\ shifts <= shifts'
    BY <1>0, <1>2, <2>2 DEF PlacesKept, Grows
  <2>4. TempInv'
    <3> SUFFICES ASSUME NEW i \in 1 .. Len(sources'), sources'[i].url = Temp
                 PROVE  ~sources'[i].searchable
      BY DEF TempInv
    <3>1. i \in 1 .. Len(sources) \/ i = Len(sources) + 1
      BY <1>0, <2>2
    <3> QED
      BY <2>1, <2>2, <3>1 DEF TempInv
  <2> QED
    BY <2>3, <2>4
<1>3. ASSUME Shrinks PROVE TempInv' /\ PlacesKept /\ shifts <= shifts'
  <2>1. shifts' = shifts + 1 /\ shifts' # shifts /\ shifts <= shifts'
    BY <1>0, <1>3 DEF Shrinks
  <2>2. TempInv'
    <3> SUFFICES ASSUME NEW i \in 1 .. Len(sources'), sources'[i].url = Temp
                 PROVE  ~sources'[i].searchable
      BY DEF TempInv
    <3>1. PICK j \in 1 .. Len(sources) : sources'[i] = sources[j]
      BY <1>3 DEF Shrinks
    <3> QED
      BY <3>1 DEF TempInv
  <2> QED
    BY <2>1, <2>2 DEF PlacesKept
<1>4. CASE Break \/ UNCHANGED listVars
  <2>1. UNCHANGED <<sources, table, shifts, overlap>>
    BY <1>4 DEF Break, listVars, data, history
  <2> QED
    BY <1>1, <2>1 DEF RowsKept
<1>5. CASE \E t \in Threads : (Editor(t) \/ Reader(t)) /\ ~Break
  <2>1. PICK t \in Threads : (Editor(t) \/ Reader(t)) /\ ~Break
    BY <1>5
  <2> QED
    BY <1>1, <1>2, <1>3, <2>1, ListMoves, TableMoves
<1> QED
  BY <1>4, <1>5 DEF ListNext

-----------------------------------------------------------------------------
(* Steps that change grades and nothing else of the list. *)

SameShape(l, m) ==
    /\ Len(m) = Len(l)
    /\ \A i \in 1 .. Len(l) : m[i].url = l[i].url /\ m[i].searchable = l[i].searchable

GradesOnly ==
    /\ UNCHANGED listRest /\ quota' \in [Kinds -> Nat]
    /\ sources' \in Seq(Sources) /\ SameShape(sources, sources')
    /\ DOMAIN table' = DOMAIN table /\ \A u \in DOMAIN table : table'[u] \in Grades

\* What two lists of one shape have in common.
LEMMA ShapeUrls ==
  ASSUME NEW l \in Seq(Sources), NEW m \in Seq(Sources), SameShape(l, m)
  PROVE  /\ UrlsOf(m) = UrlsOf(l) /\ (m = <<>> <=> l = <<>>)
         /\ UrlsDiffer(l) => UrlsDiffer(m)
         /\ Unique(l) => Unique(m)
         /\ l # <<>> => /\ UrlsOf(Front(m)) = UrlsOf(Front(l)) /\ Len(Front(m)) = Len(Front(l))
                        /\ UrlsDiffer(Front(l)) => UrlsDiffer(Front(m))
<1>1. /\ Len(l) \in Nat /\ Len(m) = Len(l) /\ \A i \in 1 .. Len(l) : m[i].url = l[i].url
  BY DEF SameShape
<1>2. (m = <<>> <=> l = <<>>)
  BY <1>1, EmptySeq
<1>3. UrlsOf(m) = {m[i].url : i \in 1 .. Len(m)} /\ UrlsOf(l) = {l[i].url : i \in 1 .. Len(l)}
  BY UrlsOfList
<1>4. UrlsOf(m) = UrlsOf(l)
  BY <1>1, <1>3
<1>5. (UrlsDiffer(l) => UrlsDiffer(m)) /\ (Unique(l) => Unique(m))
  BY <1>1 DEF UrlsDiffer, Unique
<1>6. ASSUME l # <<>>
      PROVE  /\ UrlsOf(Front(m)) = UrlsOf(Front(l)) /\ Len(Front(m)) = Len(Front(l))
             /\ UrlsDiffer(Front(l)) => UrlsDiffer(Front(m))
  <2> DEFINE a == Front(l)
             b == Front(m)
  <2>1. a \in Seq(Sources) /\ Len(a) = Len(l) - 1 /\ \A i \in 1 .. Len(l) - 1 : a[i] = l[i]
    BY <1>6, DropLast
  <2>2. b \in Seq(Sources) /\ Len(b) = Len(l) - 1 /\ \A i \in 1 .. Len(l) - 1 : b[i] = m[i]
    BY <1>1, <1>2, <1>6, DropLast
  <2> HIDE DEF a, b
  <2>3. Len(a) = Len(b) /\ \A i \in 1 .. Len(a) : b[i].url = a[i].url
    <3>1. Len(a) = Len(b) /\ \A i \in 1 .. Len(a) : i \in 1 .. Len(l) /\ i \in 1 .. Len(l) - 1
      BY <1>1, <2>1, <2>2
    <3>2. \A i \in 1 .. Len(a) : b[i] = m[i] /\ a[i] = l[i]
      BY <2>1, <2>2, <3>1
    <3> QED
      BY <1>1, <3>1, <3>2
  <2>4. UrlsOf(b) = {b[i].url : i \in 1 .. Len(b)} /\ UrlsOf(a) = {a[i].url : i \in 1 .. Len(a)}
    BY <2>1, <2>2, UrlsOfList
  <2>5. UrlsOf(b) = UrlsOf(a) /\ (UrlsDiffer(a) => UrlsDiffer(b))
    BY <2>3, <2>4 DEF UrlsDiffer
  <2> QED
    BY <2>3, <2>5 DEF a, b
<1> QED
  BY <1>2, <1>4, <1>5, <1>6

\* Nothing that is said of list, lock and selection depends on a grade.
LEMMA GradesFrame ==
  ASSUME ListInv, RowInv, TempInv, GradesOnly
  PROVE  ListInv' /\ RowInv' /\ TempInv'
<1>0. /\ UNCHANGED <<cur, holder, pc, job, broken, chosen, shifts, touched, overlap, swept>>
      /\ sources \in Seq(Sources) /\ sources' \in Seq(Sources) /\ SameShape(sources, sources')
      /\ DOMAIN table' = DOMAIN table
      /\ Types /\ LockInv /\ FetchInv /\ ShapeInv
      /\ holder \in Threads \union {Nobody} /\ Nobody \notin Threads
      /\ Len(sources) \in Nat /\ cur \in Nat /\ job \in [Threads -> JobStates] /\ pc \in [Threads -> PCs]
  BY ListConstants DEF ListInv, GradesOnly, listRest, history, Types, ListTypeOK, JobStates, PCs
<1>1. PICK m : m = sources'
  OBVIOUS
<1>2. /\ m \in Seq(Sources) /\ Len(m) = Len(sources)
      /\ \A i \in 1 .. Len(sources) : m[i].url = sources[i].url /\ m[i].searchable = sources[i].searchable
  BY <1>0, <1>1 DEF SameShape
<1>3. /\ UrlsOf(m) = UrlsOf(sources) /\ (m = <<>> <=> sources = <<>>)
      /\ UrlsDiffer(sources) => UrlsDiffer(m)
      /\ Unique(sources) => Unique(m)
      /\ sources # <<>> => /\ UrlsOf(Front(m)) = UrlsOf(Front(sources))
                           /\ Len(Front(m)) = Len(Front(sources))
                           /\ UrlsDiffer(Front(sources)) => UrlsDiffer(Front(m))
  <2>1. SameShape(sources, m)
    BY <1>0, <1>1
  <2> QED
    BY <1>0, <1>2, <2>1, ShapeUrls
<1>4. Types'
  <2>1. ListTypeOK'
    BY <1>0 DEF Types, ListTypeOK, GradesOnly
  <2>2. TodoKnown'
    BY <1>0 DEF Types, TodoKnown
  <2> QED
    BY <2>1, <2>2 DEF Types
<1>5. LockInv'
  BY <1>0 DEF LockInv
<1>6. /\ InRange(cur)' = InRange(cur)
      /\ \A i \in Int : InRange(i) => Url(i)' = Url(i)
  <2>1. InRange(cur)' = InRange(cur)
    BY <1>0, <1>1, <1>2 DEF InRange
  <2>2. ASSUME NEW i \in Int, InRange(i) PROVE Url(i)' = Url(i)
    <3>1. i + 1 \in 1 .. Len(sources)
      BY <1>0, <2>2 DEF InRange
    <3> QED
      BY <1>1, <1>2, <3>1 DEF Url
  <2> QED
    BY <2>1, <2>2
<1>7. FetchInv'
  <2> SUFFICES ASSUME ~touched', NEW t \in Threads
               PROVE  /\ pc'[t] = "request" => (InRange(cur)' => job'[t].want = Url(cur)')
                      /\ pc'[t] = "page" => /\ InRange(cur)' /\ job'[t].at = cur'
                                            /\ job'[t].want = Url(cur)' /\ job'[t].used = {Url(cur)'}
                      /\ pc'[t] = "restore" => job'[t].used \subseteq {job'[t].want}
                      /\ pc'[t] \in AtArticle =>
                           /\ sources' # <<>> /\ cur' = Len(sources') - 1
                           /\ Url(cur)' = Temp /\ job'[t].want = Temp
                      /\ pc'[t] = "unplug" => job'[t].used \subseteq {job'[t].want}
    BY DEF FetchInv
  <2>1. /\ pc[t] = "request" => (InRange(cur) => job[t].want = Url(cur))
        /\ pc[t] = "page" => /\ InRange(cur) /\ job[t].at = cur
                             /\ job[t].want = Url(cur) /\ job[t].used = {Url(cur)}
        /\ pc[t] = "restore" => job[t].used \subseteq {job[t].want}
        /\ pc[t] \in AtArticle =>
             /\ sources # <<>> /\ cur = Len(sources) - 1
             /\ Url(cur) = Temp /\ job[t].want = Temp
        /\ pc[t] = "unplug" => job[t].used \subseteq {job[t].want}
    BY <1>0 DEF FetchInv
  <2>2. cur = Len(sources) - 1 => InRange(cur)
    BY <1>0 DEF InRange
  <2>3. InRange(cur) => Url(cur)' = Url(cur)
    <3>1. cur' = cur /\ cur \in Int
      BY <1>0
    <3> QED
      BY <1>6, <3>1 DEF Url
  <2>4. /\ sources # <<>> => sources' # <<>>
        /\ cur = Len(sources) - 1 => cur' = Len(sources') - 1
    BY <1>0, <1>1, <1>2, <1>3
  <2> QED
    BY <1>0, <1>6, <2>1, <2>2, <2>3, <2>4
<1>8. Plugged' <=> Plugged
  BY <1>0 DEF Plugged
<1>9. Plugged => sources # <<>> \/ touched
  BY <1>0 DEF Plugged, FetchInv
<1>10. /\ LeftWith' = LeftWith
       /\ ~touched => /\ UrlsOf(Own)' = UrlsOf(Own) /\ Len(Own)' = Len(Own)
                      /\ UrlsDiffer(Own) => UrlsDiffer(Own)'
  <2>1. LeftWith' = LeftWith
    BY <1>0 DEF LeftWith
  <2>2. CASE Plugged
    <3>1. Own = Front(sources) /\ Own' = Front(m)
      BY <1>1, <1>8, <2>2 DEF Own
    <3>2. UrlsOf(Own)' = UrlsOf(Front(m)) /\ (UrlsDiffer(Own)' <=> UrlsDiffer(Front(m)))
      BY <3>1 DEF UrlsOf, UrlsDiffer
    <3> QED
      BY <1>3, <1>9, <2>1, <2>2, <3>1, <3>2
  <2>3. CASE ~Plugged
    <3>1. Own = sources /\ Own' = m
      BY <1>1, <1>8, <2>3 DEF Own
    <3>2. UrlsOf(Own)' = UrlsOf(m) /\ (UrlsDiffer(Own)' <=> UrlsDiffer(m))
      BY <3>1 DEF UrlsOf, UrlsDiffer
    <3> QED
      BY <1>2, <1>3, <2>1, <3>1, <3>2
  <2> QED
    BY <2>2, <2>3
<1>11. UrlsOf(sources)' = UrlsOf(sources)
  BY <1>1, <1>3 DEF UrlsOf
<1>12. ShapeInv'
  <2> SUFFICES ASSUME Settled' PROVE ShapeInv'
    BY DEF ShapeInv, TraceInv, RangeInv, MatchInv
  <2>0. Settled /\ ~touched
    BY <1>0 DEF Settled
  <2>1. TraceInv'
    BY <1>0, <1>10, <2>0 DEF ShapeInv, TraceInv
  <2>2. RangeInv'
    <3>1. WithinList(LeftWith, Own) => WithinList(LeftWith, Own)'
      BY <1>10, <2>0 DEF WithinList
    <3>2. WithinList(cur, sources) => WithinList(cur, sources)'
      BY <1>0, <1>1, <1>2 DEF WithinList
    <3> QED
      BY <1>0, <2>0, <3>1, <3>2 DEF ShapeInv, RangeInv
  <2>3. \A t \in Threads : HalfDone(t) => HalfDone(t)'
    <3> SUFFICES ASSUME NEW t \in Threads, HalfDone(t) PROVE HalfDone(t)'
      OBVIOUS
    <3>1. Dirty(t)' => holder' = Nobody /\ \A u \in Threads : Dirty(u)' => u = t
      BY <1>0 DEF HalfDone, Dirty
    <3>2. job[t].at \in 0 .. Len(sources) - 1 => Url(job[t].at)' = Url(job[t].at)
      <4>1. job[t].at \in 0 .. Len(sources) - 1 => InRange(job[t].at) /\ job[t].at \in Int
        BY <1>0 DEF InRange
      <4>2. job'[t].at = job[t].at
        BY <1>0
      <4> QED
        BY <1>6, <4>1, <4>2 DEF Url
    <3>3. Len(sources') = Len(sources)
      BY <1>1, <1>2
    <3>4. Halves(t)'
      BY <1>0, <1>11, <3>2, <3>3 DEF HalfDone, Halves
    <3> QED
      BY <3>1, <3>4 DEF HalfDone
  <2>4. MatchInv'
    <3>1. \A t \in Threads : Dirty(t)' <=> Dirty(t)
      BY <1>0 DEF Dirty
    <3> QED
      BY <1>0, <1>10, <2>0, <2>3, <3>1 DEF ShapeInv, MatchInv
  <2> QED
    BY <2>1, <2>2, <2>4 DEF ShapeInv
<1>13. TempInv'
  BY <1>1, <1>2 DEF TempInv
<1>14. RowInv'
  <2>1. \A i \in 1 .. Len(sources) : Rowed(i)' <=> Rowed(i)
    BY <1>0, <1>1, <1>2 DEF Rowed
  <2>2. Unique(sources) => Unique(sources)'
    BY <1>1, <1>3 DEF Unique
  <2>3. Len(sources') = Len(sources)
    BY <1>1, <1>2
  <2>4. \A t \in Threads : Rows(t) => Rows(t)'
    <3> TAKE t \in Threads
    <3>1. Dirty(t)' => Dirty(t)
      BY <1>0 DEF Dirty
    <3>2. \A u \in Threads : Dirty(u)' => Dirty(u)
      BY <1>0 DEF Dirty
    <3> QED
      BY <1>0, <1>11, <2>1, <2>3, <3>1, <3>2 DEF Rows
  <2> QED
    BY <1>0, <2>1, <2>2, <2>3, <2>4 DEF RowInv
<1> QED
  BY <1>4, <1>5, <1>7, <1>12, <1>13, <1>14 DEF ListInv

\* What the types say of a task.
LEMMA TaskTypes ==
  ASSUME ValidationTypeOK
  PROVE  /\ DOMAIN tasks = 1 .. Len(tasks) /\ Len(tasks) \in Nat
         /\ \A i \in DOMAIN tasks : /\ tasks[i].index \in Nat /\ tasks[i].url \in Urls \union {Temp}
                                   /\ Spot(i) \in Nat \ {0}
                                   /\ phase[i] \in Phases /\ verdict[i] \in Grades
<1>1. tasks \in Seq([index : Nat, url : Urls \union {Temp}])
  BY DEF ValidationTypeOK
<1>2. DOMAIN tasks = 1 .. Len(tasks) /\ Len(tasks) \in Nat
  BY <1>1, LenProperties
<1>3. \A i \in DOMAIN tasks : tasks[i] \in [index : Nat, url : Urls \union {Temp}]
  BY <1>1, <1>2, ElementOfSeq
<1>4. \A i \in DOMAIN tasks : tasks[i].index \in Nat /\ tasks[i].url \in Urls \union {Temp}
  BY <1>3
<1>5. \A i \in DOMAIN tasks : phase[i] \in Phases /\ verdict[i] \in Grades
  BY DEF ValidationTypeOK
<1> QED
  BY <1>2, <1>4, <1>5 DEF Spot

\* A list in which one grade was changed.
LEMMA Regraded ==
  ASSUME NEW l \in Seq(Sources), NEW j \in 1 .. Len(l), NEW g \in Grades,
         NEW m, m = [l EXCEPT ![j].grade = g]
  PROVE  /\ m \in Seq(Sources) /\ SameShape(l, m) /\ m[j].grade = g
         /\ \A k \in 1 .. Len(l) : k # j => m[k] = l[k]
<1>1. /\ Len(l) \in Nat /\ DOMAIN l = 1 .. Len(l) /\ l \in [1 .. Len(l) -> Sources]
      /\ \A k \in 1 .. Len(l) : l[k] \in Sources
  BY LenProperties, ElementOfSeq
<1>2. [l[j] EXCEPT !.grade = g] \in Sources
  BY <1>1 DEF Sources
<1>3. m = [l EXCEPT ![j] = [l[j] EXCEPT !.grade = g]]
  OBVIOUS
<1>4. m \in [1 .. Len(l) -> Sources]
  BY <1>1, <1>2, <1>3
<1>5. m \in Seq(Sources) /\ Len(m) = Len(l)
  BY <1>1, <1>4
<1>6. m[j] = [l[j] EXCEPT !.grade = g] /\ \A k \in 1 .. Len(l) : k # j => m[k] = l[k]
  BY <1>1, <1>3
<1>7. m[j].grade = g /\ m[j].url = l[j].url /\ m[j].searchable = l[j].searchable
  BY <1>1, <1>6 DEF Sources
<1> QED
  BY <1>5, <1>6, <1>7 DEF SameShape

\* A list is of its own shape.
LEMMA NothingRegraded ==
  ASSUME ListInv, UNCHANGED <<sources, table>>, UNCHANGED listRest, quota' \in [Kinds -> Nat]
  PROVE  GradesOnly
  BY DEF ListInv, Types, ListTypeOK, GradesOnly, SameShape

\* A table in which one grade was changed.
LEMMA RowRegraded ==
  ASSUME ListInv, NEW url, NEW g \in Grades, table' = RowGraded(url, g), sources' = sources,
         UNCHANGED listRest, quota' = quota
  PROVE  GradesOnly
<1>1. /\ sources' \in Seq(Sources) /\ SameShape(sources, sources') /\ quota' \in [Kinds -> Nat]
  BY DEF ListInv, Types, ListTypeOK, SameShape
<1>2. DOMAIN table' = DOMAIN table /\ \A u \in DOMAIN table : table'[u] = IF u = url THEN g ELSE table[u]
  BY DEF RowGraded
<1>3. \A u \in DOMAIN table : table'[u] \in Grades
  BY <1>2 DEF ListInv, Types, ListTypeOK
<1> QED
  BY <1>1, <1>2, <1>3 DEF GradesOnly

\* The steps of a validation.
LEMMA ValidationGrades ==
  ASSUME ListInv, ValidationTypeOK, ValidationNext
  PROVE  GradesOnly
<1>0. /\ sources \in Seq(Sources) /\ Len(sources) \in Nat /\ quota \in [Kinds -> Nat] /\ ListTypeOK
  BY DEF ListInv, Types, ListTypeOK
<1>1. ASSUME NEW j \in 1 .. Len(sources), NEW g \in Grades,
             sources' = [sources EXCEPT ![j].grade = g], table' = table,
             UNCHANGED listRest, quota' = quota
      PROVE  GradesOnly
  <2>1. sources' \in Seq(Sources) /\ SameShape(sources, sources')
    BY <1>0, <1>1, Regraded
  <2>2. \A u \in DOMAIN table : table[u] \in Grades
    BY <1>0 DEF ListTypeOK
  <2> QED
    BY <1>0, <1>1, <2>1, <2>2 DEF GradesOnly
<1>2. CASE ValidateStart
  <2>1. quota' \in [Kinds -> Nat]
    BY <1>0, <1>2, AskedQuota DEF ValidateStart, Kinds
  <2> QED
    BY <1>2, <2>1, NothingRegraded DEF ValidateStart, data
<1>3. CASE Cut \/ Join \/ ValidateEnds
  BY <1>0, <1>3, NothingRegraded DEF Cut, Join, ValidateEnds, data
<1>4. CASE ForceList
  <2> DEFINE i == tasks[forcing].index
  <2>1. /\ forcing <= Len(tasks) /\ UNCHANGED listRest /\ UNCHANGED <<table, quota>>
        /\ \/ InRange(i) /\ sources' = [sources EXCEPT ![i + 1].grade = "invalid"]
           \/ sources' = sources
    BY <1>4 DEF ForceList
  <2>2. i \in Nat
    <3>1. forcing \in 1 .. Len(tasks) + 1
      BY DEF ValidationTypeOK
    <3>2. forcing \in DOMAIN tasks
      BY <2>1, <3>1, TaskTypes
    <3> QED
      BY <3>2, TaskTypes
  <2>3. CASE sources' = sources
    BY <1>0, <2>1, <2>3, NothingRegraded
  <2>4. CASE InRange(i) /\ sources' = [sources EXCEPT ![i + 1].grade = "invalid"]
    <3> HIDE DEF i
    <3>1. i + 1 \in 1 .. Len(sources)
      BY <1>0, <2>2, <2>4 DEF InRange
    <3>2. "invalid" \in Grades
      BY DEF Grades
    <3> QED
      BY <1>1, <2>1, <2>4, <3>1, <3>2
  <2> QED
    BY <2>1, <2>3, <2>4
<1>5. CASE ForceRow
  <2>1. "invalid" \in Grades
    BY DEF Grades
  <2> QED
    BY <1>5, <2>1, RowRegraded DEF ForceRow
<1>6. CASE \E i \in DOMAIN tasks : Work(i)
  <2>1. PICK i \in DOMAIN tasks : Work(i)
    BY <1>6
  <2>2. verdict[i] \in Grades /\ tasks[i].index \in Nat
    BY TaskTypes
  <2>3. CASE Claim(i) \/ Grade(i) \/ Report(i)
    BY <1>0, <2>3, NothingRegraded DEF Claim, Grade, Report, data
  <2>4. CASE CommitList(i)
    <3>1. /\ UNCHANGED listRest /\ UNCHANGED <<table, quota>>
          /\ \/ InRange(tasks[i].index) /\ sources' = [sources EXCEPT ![tasks[i].index + 1].grade = verdict[i]]
             \/ sources' = sources
      BY <2>4 DEF CommitList
    <3>2. CASE sources' = sources
      BY <1>0, <3>1, <3>2, NothingRegraded
    <3>3. CASE InRange(tasks[i].index) /\ sources' = [sources EXCEPT ![tasks[i].index + 1].grade = verdict[i]]
      <4>1. tasks[i].index + 1 \in 1 .. Len(sources)
        BY <1>0, <2>2, <3>3 DEF InRange
      <4> QED
        BY <1>1, <2>2, <3>1, <3>3, <4>1
    <3> QED
      BY <3>1, <3>2, <3>3
  <2>5. CASE CommitRow(i)
    BY <2>2, <2>5, RowRegraded DEF CommitRow
  <2> QED
    BY <2>1, <2>3, <2>4, <2>5 DEF Work
<1> QED
  BY <1>2, <1>3, <1>4, <1>5, <1>6 DEF ValidationNext

\* The steps of a stream.
LEMMA StreamGrades ==
  ASSUME ListInv, StreamNext
  PROVE  GradesOnly /\ UNCHANGED <<sources, table>>
<1>0. quota \in [Kinds -> Nat] /\ ListTypeOK
  BY DEF ListInv, Types, ListTypeOK
<1>1. CASE StreamStart
  <2>1. quota' \in [Kinds -> Nat]
    BY <1>0, <1>1, AskedQuota DEF StreamStart, Kinds
  <2>2. UNCHANGED <<sources, table>> /\ UNCHANGED listRest
    BY <1>1 DEF StreamStart, data, listRest
  <2> QED
    BY <2>1, <2>2, NothingRegraded
<1>2. CASE UNCHANGED listVars
  <2>1. UNCHANGED <<sources, table>> /\ UNCHANGED listRest /\ quota' = quota
    BY <1>2 DEF listVars, data, listRest
  <2> QED
    BY <1>0, <2>1, NothingRegraded
<1> QED
  BY <1>1, <1>2 DEF StreamNext, Collect, StreamClaim, StreamAnswer, StreamDone, StreamEnds, StreamTimesOut

-----------------------------------------------------------------------------
(* A validation, step by step. *)

\* What the types say of a report.
LEMMA ReportTypes ==
  ASSUME ValidationTypeOK
  PROVE  /\ DOMAIN reports = 1 .. Len(reports) /\ Len(reports) \in Nat
         /\ \A k \in DOMAIN reports : reports[k].task \in DOMAIN tasks /\ reports[k].grade \in Grades
<1>1. reports \in Seq([task : DOMAIN tasks, grade : Grades])
  BY DEF ValidationTypeOK
<1>2. DOMAIN reports = 1 .. Len(reports) /\ Len(reports) \in Nat
  BY <1>1, LenProperties
<1>3. \A k \in DOMAIN reports : reports[k] \in [task : DOMAIN tasks, grade : Grades]
  BY <1>1, <1>2, ElementOfSeq
<1>4. \A k \in DOMAIN reports : reports[k].task \in DOMAIN tasks /\ reports[k].grade \in Grades
  BY <1>3
<1> QED
  BY <1>2, <1>4

\* What both invariants say of types.
LEMMA StageTypes ==
  ASSUME ListInv, ValidationInv
  PROVE  /\ shifts \in Nat /\ vshifts \in Nat /\ vshifts <= shifts
         /\ ValidationTypeOK /\ sources \in Seq(Sources) /\ Len(sources) \in Nat
<1>1. shifts \in Nat /\ sources \in Seq(Sources) /\ Len(sources) \in Nat
  BY DEF ListInv, Types, ListTypeOK
<1>2. ValidationTypeOK /\ vshifts <= shifts
  BY DEF ValidationInv, StageInv
<1>3. vshifts \in Nat
  BY <1>2 DEF ValidationTypeOK
<1> QED
  BY <1>1, <1>2, <1>3

\* What a validation has found out stays true while others change the list.
LEMMA ValidationFrame ==
  ASSUME ListInv, ListInv', ValidationInv, UNCHANGED validationVars,
         PlacesKept, RowsKept, shifts <= shifts', overlap => overlap'
  PROVE  ValidationInv'
<1>0. /\ shifts \in Nat /\ shifts' \in Nat /\ vshifts \in Nat /\ vshifts <= shifts
      /\ UNCHANGED <<vpc, tasks, phase, verdict, forcing, valid, invalid, reports, cut, vshifts>>
      /\ ValidationTypeOK /\ sources \in Seq(Sources) /\ Len(sources) \in Nat
  <2>1. shifts' \in Nat
    BY DEF ListInv, Types, ListTypeOK
  <2> QED
    BY <2>1, StageTypes DEF validationVars
<1>1. StageInv'
  <2>1. vshifts' <= shifts'
    BY <1>0
  <2>2. ValidationTypeOK'
    BY <1>0 DEF ValidationTypeOK
  <2> QED
    BY <1>0, <2>1, <2>2 DEF ValidationInv, StageInv
<1>2. CountInv'
  <2>1. BadReports' = BadReports /\ Untold' = Untold
    BY <1>0 DEF BadReports, Untold
  <2>2. UntoldBad' = UntoldBad
    BY <1>0, <2>1 DEF UntoldBad
  <2> QED
    BY <1>0, <2>1, <2>2 DEF ValidationInv, CountInv
<1>3. shifts' = vshifts' => shifts' = shifts /\ shifts = vshifts
  BY <1>0
<1>4. SpotInv'
  <2> SUFFICES ASSUME shifts' = vshifts' PROVE SpotInv'
    BY DEF SpotInv
  <2>1. /\ \A i \in DOMAIN tasks : TaskPlaced(i)
        /\ \A k \in DOMAIN reports : ReportPlaced(k)
        /\ ReportedOnce /\ Forced
    BY <1>3 DEF ValidationInv, SpotInv
  <2>2. /\ Len(sources) <= Len(sources') /\ Len(sources') \in Nat
        /\ \A k \in 1 .. Len(sources) : sources'[k] = sources[k]
    BY <1>3 DEF PlacesKept, ListInv, Types, ListTypeOK
  <2>3. \A i \in DOMAIN tasks : /\ Spot(i)' = Spot(i) /\ Spot(i) <= Len(sources')
                                /\ sources'[Spot(i)] = sources[Spot(i)]
    <3> TAKE i \in DOMAIN tasks
    <3>1. Spot(i)' = Spot(i)
      BY <1>0 DEF Spot
    <3>2. Spot(i) \in Nat \ {0} /\ Spot(i) <= Len(sources)
      BY <1>0, <2>1, TaskTypes DEF TaskPlaced
    <3> QED
      BY <1>0, <2>2, <3>1, <3>2
  <2>4. \A i \in DOMAIN tasks : GradeAt(i)' = GradeAt(i)
    BY <2>3 DEF GradeAt
  <2>5. \A i \in DOMAIN tasks : TaskPlaced(i)'
    BY <1>0, <2>1, <2>3, <2>4 DEF TaskPlaced
  <2>6. \A k \in DOMAIN reports : ReportPlaced(k)'
    <3> TAKE k \in DOMAIN reports
    <3>1. reports[k].task \in DOMAIN tasks /\ reports'[k] = reports[k]
      BY <1>0, ReportTypes
    <3>2. GradeAt(reports[k].task)' = GradeAt(reports[k].task)
      BY <2>4, <3>1
    <3> QED
      BY <1>0, <2>1, <3>1, <3>2 DEF ReportPlaced
  <2>7. ReportedOnce'
    BY <1>0, <2>1 DEF ReportedOnce
  <2>8. Forced'
    <3>1. vpc = "forcerow" => forcing \in DOMAIN tasks
      BY <1>0, TaskTypes DEF ValidationInv, StageInv, ValidationTypeOK
    <3>2. vpc = "forcerow" => GradeAt(forcing)' = GradeAt(forcing)
      BY <1>0, <2>4, <3>1 DEF GradeAt, Spot
    <3> QED
      BY <1>0, <2>1, <3>2 DEF Forced
  <2> QED
    BY <1>0, <2>5, <2>6, <2>7, <2>8 DEF SpotInv
<1>5. GradedInv'
  <2> SUFFICES ASSUME shifts' = vshifts', ~overlap' PROVE GradedInv'
    BY DEF GradedInv
  <2>1. /\ \A i \in DOMAIN tasks : phase[i] \in {"stored", "done"} => RowOf(i, verdict[i])
        /\ \A k \in DOMAIN reports : RowOf(reports[k].task, reports[k].grade)
        /\ \A i \in DOMAIN tasks : TaskPlaced(i)
    BY <1>3 DEF ValidationInv, GradedInv, SpotInv
  <2>2. \A i \in DOMAIN tasks : tasks[i].url \in UrlsOf(sources) \ {Temp}
    <3> TAKE i \in DOMAIN tasks
    <3>1. /\ Spot(i) \in Nat \ {0} /\ Spot(i) <= Len(sources)
          /\ sources[Spot(i)].url = tasks[i].url /\ tasks[i].url # Temp
      BY <1>0, <2>1, TaskTypes DEF TaskPlaced
    <3>2. UrlsOf(sources) = {sources[j].url : j \in 1 .. Len(sources)}
      BY <1>0, UrlsOfList
    <3>3. Spot(i) \in 1 .. Len(sources)
      BY <1>0, <3>1
    <3> QED
      BY <3>1, <3>2, <3>3
  <2>3. \A i \in DOMAIN tasks : \A g \in Grades : RowOf(i, g) => RowOf(i, g)'
    BY <1>0, <2>2 DEF RowsKept, RowOf
  <2>4. \A i \in DOMAIN tasks : phase[i] \in {"stored", "done"} => RowOf(i, verdict[i])'
    BY <1>0, <2>1, <2>3, TaskTypes DEF RowOf
  <2>5. \A k \in DOMAIN reports : RowOf(reports[k].task, reports[k].grade)'
    <3> TAKE k \in DOMAIN reports
    <3>1. reports[k].task \in DOMAIN tasks /\ reports[k].grade \in Grades
      BY <1>0, ReportTypes
    <3> QED
      BY <1>0, <2>1, <2>3, <3>1 DEF RowOf
  <2> QED
    BY <1>0, <2>4, <2>5 DEF GradedInv, RowOf
<1> QED
  BY <1>1, <1>2, <1>4, <1>5 DEF ValidationInv

\* The beginning.
LEMMA StartKeeps ==
  ASSUME ListInv, TempInv, ValidationInv, ValidateStart
  PROVE  ValidationInv'
<1> DEFINE kept == {i \in DOMAIN sources : sources[i].searchable}
           order == InTurn(kept)
<1>0. /\ vpc = "idle" /\ reports' = reports /\ valid' = valid /\ invalid' = invalid
      /\ forcing' = forcing /\ cut' = cut /\ sources' = sources /\ shifts' = shifts
      /\ vshifts' = shifts
      /\ vpc' = (IF kept = {} THEN "ended" ELSE "running")
      /\ phase' = [i \in DOMAIN tasks' |-> "pending"]
      /\ verdict' = [i \in DOMAIN tasks' |-> "unknown"]
      /\ tasks' = [k \in DOMAIN order |-> [index |-> order[k] - 1, url |-> sources[order[k]].url]]
  BY DEF ValidateStart, listRest, data, history
<1>1. /\ reports = <<>> /\ valid = 0 /\ invalid = 0 /\ forcing = 1 /\ cut \in BOOLEAN
      /\ shifts \in Nat /\ sources \in Seq(Sources) /\ Len(sources) \in Nat
  BY <1>0, StageTypes DEF ValidationInv, StageInv, ValidationTypeOK
<1>2. DOMAIN sources = 1 .. Len(sources) /\ \A i \in 1 .. Len(sources) : sources[i] \in Sources
  BY <1>1, LenProperties, ElementOfSeq
<1>3. kept \subseteq Nat /\ IsFiniteSet(kept)
  <2>1. IsFiniteSet(1 .. Len(sources)) /\ kept \in SUBSET (1 .. Len(sources))
    BY <1>1, <1>2, FS_Interval
  <2> QED
    BY <2>1, FS_Subset
<1>4. /\ Cardinality(kept) \in Nat /\ order \in Seq(kept) /\ Len(order) = Cardinality(kept)
      /\ DOMAIN order = 1 .. Cardinality(kept)
      /\ \A k, m \in DOMAIN order : order[k] = order[m] => k = m
  BY <1>3, InTurnIs
<1>5. \A k \in DOMAIN order : order[k] \in kept
  <2> HIDE DEF order, kept
  <2> QED
    BY <1>4, ElementOfSeq
<1>6. \A k \in DOMAIN order : /\ order[k] \in 1 .. Len(sources) /\ sources[order[k]].searchable
                              /\ sources[order[k]].url \in Urls \union {Temp}
                              /\ sources[order[k]].url # Temp
  <2> TAKE k \in DOMAIN order
  <2>1. order[k] \in 1 .. Len(sources) /\ sources[order[k]].searchable
    BY <1>2, <1>5
  <2> HIDE DEF order, kept
  <2>2. sources[order[k]] \in Sources
    BY <1>2, <2>1
  <2> QED
    BY <2>1, <2>2 DEF TempInv, Sources
<1>7. kept = {} => DOMAIN order = {}
  <2> HIDE DEF order
  <2>1. kept = {} => Cardinality(kept) = 0
    BY FS_EmptySet
  <2> HIDE DEF kept
  <2>2. Cardinality(kept) = 0 => 1 .. Cardinality(kept) = {}
    OBVIOUS
  <2> QED
    BY <1>4, <2>1, <2>2
<1> HIDE DEF order, kept
<1>8. /\ DOMAIN tasks' = DOMAIN order
      /\ \A k \in DOMAIN order : tasks'[k].index = order[k] - 1 /\ tasks'[k].url = sources[order[k]].url
  BY <1>0
<1>9. tasks' \in Seq([index : Nat, url : Urls \union {Temp}]) /\ Len(tasks') = Cardinality(kept)
  <2>1. PICK n \in Nat : n = Cardinality(kept)
    BY <1>4
  <2>2. PICK q : q = tasks'
    OBVIOUS
  <2>3. q \in [1 .. n -> [index : Nat, url : Urls \union {Temp}]]
    BY <1>0, <1>4, <1>6, <2>1, <2>2
  <2>4. q \in Seq([index : Nat, url : Urls \union {Temp}]) /\ Len(q) = n
    BY <2>3, NumberedSeq
  <2> QED
    BY <2>1, <2>2, <2>4
<1>10. reports' \in Seq([task : DOMAIN tasks', grade : Grades]) /\ DOMAIN reports' = {}
  BY <1>0, <1>1
<1>11. ValidationTypeOK'
  <2>1. phase' \in [DOMAIN tasks' -> Phases] /\ verdict' \in [DOMAIN tasks' -> Grades]
    BY <1>0 DEF Phases, Grades
  <2>2. forcing' \in 1 .. Len(tasks') + 1
    BY <1>0, <1>1, <1>4, <1>9
  <2>3. vpc' \in {"idle", "running", "force", "forcerow", "ended"}
    BY <1>0
  <2>4. valid' \in Nat /\ invalid' \in Nat /\ vshifts' \in Nat /\ cut' \in BOOLEAN
    BY <1>0, <1>1
  <2> QED
    BY <1>9, <1>10, <2>1, <2>2, <2>3, <2>4 DEF ValidationTypeOK
<1>12. \A i, j \in DOMAIN tasks' : tasks'[i].index = tasks'[j].index => i = j
  <2> TAKE i, j \in DOMAIN tasks'
  <2> HAVE tasks'[i].index = tasks'[j].index
  <2>1. order[i] - 1 = order[j] - 1 /\ order[i] \in Nat /\ order[j] \in Nat
    BY <1>6, <1>8
  <2>2. order[i] = order[j]
    BY <2>1
  <2> QED
    BY <1>4, <1>8, <2>2
<1>13. \A i \in DOMAIN tasks' : phase'[i] = "pending"
  BY <1>0
<1>14. vpc' = "running" \/ (vpc' = "ended" /\ DOMAIN tasks' = {})
  BY <1>0, <1>7, <1>8
<1>15. StageInv'
  <2>1. vshifts' <= shifts'
    BY <1>0, <1>1
  <2> QED
    BY <1>0, <1>1, <1>11, <1>12, <1>13, <1>14, <2>1 DEF StageInv, Over
<1>16. CountInv'
  <2>1. BadReports' = {} /\ Untold' = {}
    BY <1>10, <1>13 DEF BadReports, Untold
  <2>2. UntoldBad' = {}
    BY <2>1 DEF UntoldBad
  <2>3. Cardinality({}) = 0 /\ Len(reports') = 0
    BY <1>0, <1>1, FS_EmptySet
  <2> QED
    BY <1>0, <1>1, <2>1, <2>2, <2>3 DEF CountInv
<1>17. SpotInv'
  <2>1. \A i \in DOMAIN tasks' : TaskPlaced(i)'
    <3> TAKE i \in DOMAIN tasks'
    <3>1. Spot(i)' = order[i] /\ order[i] \in 1 .. Len(sources) /\ order[i] \in Nat
      BY <1>6, <1>8 DEF Spot
    <3>2. sources'[order[i]].url = tasks'[i].url /\ tasks'[i].url # Temp
      BY <1>0, <1>6, <1>8
    <3>3. vpc' \notin Over
      BY <1>14 DEF Over
    <3>4. phase'[i] = "pending" /\ Len(sources') = Len(sources)
      BY <1>0, <1>13
    <3> QED
      BY <1>1, <3>1, <3>2, <3>3, <3>4 DEF TaskPlaced
  <2> QED
    BY <1>10, <1>14, <2>1 DEF SpotInv, ReportedOnce, Forced
<1>18. GradedInv'
  BY <1>10, <1>13 DEF GradedInv
<1> QED
  BY <1>15, <1>16, <1>17, <1>18 DEF ValidationInv

\* The steps that move a task or the request on without a result.
LEMMA MoveKeeps ==
  ASSUME ListInv, ValidationInv, Cut \/ Join \/ ValidateEnds \/ \E i \in DOMAIN tasks : Claim(i)
  PROVE  ValidationInv'
<1>0. /\ UNCHANGED <<sources, table, shifts, overlap, tasks, verdict, forcing, valid, invalid,
                     reports, vshifts>>
      /\ ValidationTypeOK /\ shifts \in Nat /\ vshifts \in Nat
  BY StageTypes DEF Cut, Join, ValidateEnds, Claim, listRest, data, history
<1>1. /\ DOMAIN phase = DOMAIN tasks /\ phase \in [DOMAIN tasks -> Phases]
      /\ forcing \in 1 .. Len(tasks) + 1 /\ DOMAIN tasks = 1 .. Len(tasks) /\ Len(tasks) \in Nat
  BY <1>0, TaskTypes DEF ValidationTypeOK
<1>2. \/ phase' = phase
      \/ vpc = "running" /\ vpc' = vpc
         /\ \E i \in DOMAIN tasks : phase[i] = "pending" /\ phase' = [phase EXCEPT ![i] = "grading"]
  BY DEF Cut, Join, ValidateEnds, Claim
<1>3. /\ phase' \in [DOMAIN tasks -> Phases]
      /\ \A j \in DOMAIN tasks : phase'[j] = phase[j] \/ (phase[j] = "pending" /\ phase'[j] = "grading"
                                                          /\ vpc = "running")
  BY <1>1, <1>2 DEF Phases
<1>4. \/ vpc' = vpc
      \/ vpc = "running" /\ vpc' = "force" /\ phase' = phase
         /\ \A j \in DOMAIN tasks : phase[j] \in {"pending", "done"}
      \/ vpc = "running" /\ vpc' = "ended" /\ phase' = phase /\ \A j \in DOMAIN tasks : phase[j] = "done"
      \/ vpc = "force" /\ vpc' = "ended" /\ phase' = phase /\ forcing > Len(tasks)
  BY DEF Cut, Join, ValidateEnds, Claim
<1>5. StageInv'
  <2>1. ValidationTypeOK'
    <3>1. vpc' \in {"idle", "running", "force", "forcerow", "ended"}
      BY <1>0, <1>4 DEF ValidationTypeOK
    <3>2. cut' \in BOOLEAN
      BY <1>0 DEF ValidationTypeOK, Cut, Join, ValidateEnds, Claim
    <3> QED
      BY <1>0, <1>3, <3>1, <3>2 DEF ValidationTypeOK
  <2>2. \A i \in DOMAIN tasks : phase'[i] \notin {"pending", "grading"} => verdict[i] \in Outcomes
    BY <1>3 DEF ValidationInv, StageInv
  <2>3. vpc' \in Over => \A i \in DOMAIN tasks : phase'[i] \in {"pending", "done"}
    BY <1>3, <1>4 DEF ValidationInv, StageInv, Over
  <2>4. vpc' = "ended" => \A i \in DOMAIN tasks : phase'[i] = "done" \/ i < forcing
    <3>1. CASE vpc' = vpc
      BY <1>3, <3>1 DEF ValidationInv, StageInv
    <3>2. CASE forcing > Len(tasks)
      BY <1>1, <3>2
    <3> QED
      BY <1>4, <3>1, <3>2
  <2>5. /\ vpc' = "forcerow" => forcing <= Len(tasks)
        /\ vpc' \in {"idle", "running"} => forcing = 1
        /\ vpc' = "idle" => vpc = "idle"
    BY <1>4 DEF ValidationInv, StageInv
  <2> QED
    BY <1>0, <2>1, <2>2, <2>3, <2>4, <2>5 DEF ValidationInv, StageInv
<1>6. CountInv'
  <2>1. BadReports' = BadReports
    BY <1>0 DEF BadReports
  <2>2. Untold' = Untold
    BY <1>0, <1>3 DEF Untold
  <2>3. UntoldBad' = UntoldBad
    BY <1>0, <2>2 DEF UntoldBad
  <2> QED
    BY <1>0, <2>1, <2>2, <2>3 DEF ValidationInv, CountInv
<1>7. \A i \in DOMAIN tasks : Spot(i)' = Spot(i) /\ GradeAt(i)' = GradeAt(i)
  BY <1>0 DEF Spot, GradeAt
<1>8. SpotInv'
  <2> SUFFICES ASSUME shifts = vshifts PROVE SpotInv'
    BY <1>0 DEF SpotInv
  <2>1. /\ \A i \in DOMAIN tasks : TaskPlaced(i)
        /\ \A k \in DOMAIN reports : ReportPlaced(k)
        /\ ReportedOnce /\ Forced
    BY DEF ValidationInv, SpotInv
  <2>2. \A i \in DOMAIN tasks : TaskPlaced(i)'
    <3> TAKE i \in DOMAIN tasks
    <3>1. TaskPlaced(i)
      BY <2>1
    <3>2. vpc' \in Over /\ i < forcing => vpc \in Over
      BY <1>1, <1>4 DEF ValidationInv, StageInv, Over
    <3> QED
      BY <1>0, <1>3, <1>7, <3>1, <3>2 DEF TaskPlaced
  <2>3. \A k \in DOMAIN reports : ReportPlaced(k)'
    <3> TAKE k \in DOMAIN reports
    <3>1. reports[k].task \in DOMAIN tasks /\ ReportPlaced(k)
      BY <1>0, <2>1, ReportTypes
    <3>2. vpc = "running" => ~(reports[k].task < forcing)
      BY <1>1, <3>1 DEF ValidationInv, StageInv
    <3>3. phase'[reports[k].task] = phase[reports[k].task]
      BY <1>3, <3>1, <3>2 DEF ReportPlaced
    <3> QED
      BY <1>0, <1>7, <3>1, <3>3 DEF ReportPlaced
  <2>4. ReportedOnce'
    BY <1>0, <2>1 DEF ReportedOnce
  <2>5. Forced'
    <3>1. vpc' = "forcerow" => vpc = "forcerow" /\ forcing \in DOMAIN tasks
      BY <1>1, <1>4 DEF ValidationInv, StageInv
    <3> QED
      BY <1>0, <1>3, <1>7, <2>1, <3>1 DEF Forced, GradeAt, Spot
  <2> QED
    BY <1>0, <2>2, <2>3, <2>4, <2>5 DEF SpotInv
<1>9. GradedInv'
  <2> SUFFICES ASSUME shifts = vshifts, ~overlap PROVE GradedInv'
    BY <1>0 DEF GradedInv
  <2>1. /\ \A i \in DOMAIN tasks : phase[i] \in {"stored", "done"} => RowOf(i, verdict[i])
        /\ \A k \in DOMAIN reports : RowOf(reports[k].task, reports[k].grade)
    BY DEF ValidationInv, GradedInv
  <2>2. \A i \in DOMAIN tasks : phase'[i] \in {"stored", "done"} => RowOf(i, verdict[i])'
    BY <1>0, <1>3, <2>1 DEF RowOf
  <2>3. \A k \in DOMAIN reports : RowOf(reports[k].task, reports[k].grade)'
    BY <1>0, <2>1 DEF RowOf
  <2> QED
    BY <1>0, <2>2, <2>3 DEF GradedInv, RowOf
<1> QED
  BY <1>5, <1>6, <1>8, <1>9 DEF ValidationInv

\* A source that is being graded.
LEMMA WorkTypes ==
  ASSUME ListInv, ValidationInv, NEW i \in DOMAIN tasks, phase[i] \in Phases \ {"pending", "done"}
  PROVE  /\ vpc = "running" /\ forcing = 1
         /\ shifts = vshifts => \A k \in DOMAIN reports : /\ reports[k].task # i
                                                          /\ phase[reports[k].task] = "done"
<1>0. ValidationTypeOK /\ DOMAIN tasks = 1 .. Len(tasks)
  BY StageTypes, TaskTypes
<1>1. vpc = "running"
  <2>1. vpc # "idle"
    BY DEF ValidationInv, StageInv
  <2>2. vpc \notin Over
    BY DEF ValidationInv, StageInv
  <2> QED
    BY <1>0, <2>1, <2>2 DEF ValidationTypeOK, Over
<1>2. forcing = 1
  BY <1>1 DEF ValidationInv, StageInv
<1>3. ASSUME shifts = vshifts, NEW k \in DOMAIN reports
      PROVE  reports[k].task # i /\ phase[reports[k].task] = "done"
  <2>1. reports[k].task \in 1 .. Len(tasks) /\ ReportPlaced(k)
    BY <1>0, <1>3, ReportTypes DEF ValidationInv, SpotInv
  <2> QED
    BY <1>2, <2>1 DEF ReportPlaced
<1> QED
  BY <1>1, <1>2, <1>3

\* What is counted is finite.
LEMMA CountedSets ==
  ASSUME ValidationTypeOK
  PROVE  /\ IsFiniteSet(Untold) /\ IsFiniteSet(UntoldBad) /\ IsFiniteSet(BadReports)
         /\ Cardinality(Untold) \in Nat /\ Cardinality(UntoldBad) \in Nat
         /\ Cardinality(BadReports) \in Nat
<1>1. IsFiniteSet(DOMAIN tasks) /\ IsFiniteSet(DOMAIN reports)
  <2>1. /\ DOMAIN tasks = 1 .. Len(tasks) /\ Len(tasks) \in Nat
        /\ DOMAIN reports = 1 .. Len(reports) /\ Len(reports) \in Nat
    BY TaskTypes, ReportTypes
  <2> QED
    BY <2>1, FS_Interval
<1>2. Untold \in SUBSET DOMAIN tasks /\ BadReports \in SUBSET DOMAIN reports
  BY DEF Untold, BadReports
<1>3. UntoldBad \in SUBSET DOMAIN tasks
  BY DEF Untold, UntoldBad
<1>4. IsFiniteSet(Untold) /\ IsFiniteSet(UntoldBad) /\ IsFiniteSet(BadReports)
  BY <1>1, <1>2, <1>3, FS_Subset
<1> QED
  BY <1>4, FS_CardinalityType

\* A task moves on, whatever else happens to list, table and counts.
LEMMA TaskStage ==
  ASSUME ListInv, ListInv', ValidationInv, NEW i \in DOMAIN tasks,
         phase[i] \in Phases \ {"pending", "done"},
         NEW at \in Phases \ {"pending", "grading"}, phase' = [phase EXCEPT ![i] = at],
         \/ verdict' = verdict /\ verdict[i] \in Outcomes
         \/ \E g \in Outcomes : verdict' = [verdict EXCEPT ![i] = g],
         valid' \in Nat, invalid' \in Nat, reports' \in Seq([task : DOMAIN tasks, grade : Grades]),
         UNCHANGED <<shifts, vpc, tasks, forcing, cut, vshifts>>
  PROVE  StageInv'
<1>0. ValidationTypeOK /\ vpc = "running" /\ Outcomes \subseteq Grades
  BY StageTypes, WorkTypes, ValidationConstants
<1>1. phase' \in [DOMAIN tasks -> Phases] /\ verdict' \in [DOMAIN tasks -> Grades]
  BY <1>0 DEF ValidationTypeOK
<1>2. ValidationTypeOK'
  BY <1>0, <1>1 DEF ValidationTypeOK
<1>3. \A j \in DOMAIN tasks : phase'[j] \notin {"pending", "grading"} => verdict'[j] \in Outcomes
  <2>1. \A j \in DOMAIN tasks : j # i => phase'[j] = phase[j] /\ verdict'[j] = verdict[j]
    BY <1>0 DEF ValidationTypeOK
  <2>2. verdict'[i] \in Outcomes
    BY <1>0 DEF ValidationTypeOK
  <2> QED
    BY <2>1, <2>2 DEF ValidationInv, StageInv
<1> QED
  BY <1>0, <1>2, <1>3 DEF ValidationInv, StageInv, Over

\* A grade is found.
LEMMA GradeKeeps ==
  ASSUME ListInv, ListInv', ValidationInv, NEW i \in DOMAIN tasks, Grade(i)
  PROVE  ValidationInv'
<1>1. PICK g \in Outcomes :
         /\ verdict' = [verdict EXCEPT ![i] = g]
         /\ IF g = "invalid" THEN invalid' = invalid + 1 /\ UNCHANGED valid
                             ELSE valid' = valid + 1 /\ UNCHANGED invalid
  BY DEF Grade
<1>0. /\ phase[i] = "grading" /\ phase' = [phase EXCEPT ![i] = "graded"]
      /\ UNCHANGED <<sources, table, shifts, overlap, vpc, tasks, forcing, reports, cut, vshifts>>
      /\ ValidationTypeOK /\ valid \in Nat /\ invalid \in Nat
      /\ phase \in [DOMAIN tasks -> Phases] /\ verdict \in [DOMAIN tasks -> Grades]
  BY StageTypes DEF Grade, listRest, data, history, ValidationTypeOK
<1>2. /\ phase'[i] = "graded" /\ verdict'[i] = g
      /\ \A j \in DOMAIN tasks : j # i => phase'[j] = phase[j] /\ verdict'[j] = verdict[j]
  BY <1>0, <1>1
<1>3. /\ vpc = "running" /\ forcing = 1
      /\ shifts = vshifts => \A k \in DOMAIN reports : reports[k].task # i
  BY <1>0, WorkTypes DEF Phases
<1>4. StageInv'
  <2>1. /\ phase[i] \in Phases \ {"pending", "done"} /\ "graded" \in Phases \ {"pending", "grading"}
        /\ valid' \in Nat /\ invalid' \in Nat
        /\ reports' \in Seq([task : DOMAIN tasks, grade : Grades])
    BY <1>0, <1>1 DEF Phases, ValidationTypeOK
  <2>2. \E v \in Outcomes : verdict' = [verdict EXCEPT ![i] = v]
    BY <1>1
  <2> QED
    BY <1>0, <2>1, <2>2, TaskStage
<1>5. CountInv'
  <2>1. Untold' = Untold \union {i} /\ i \notin Untold
    BY <1>0, <1>2 DEF Untold
  <2>2. BadReports' = BadReports
    BY <1>0 DEF BadReports
  <2>3. UntoldBad' = (IF g = "invalid" THEN UntoldBad \union {i} ELSE UntoldBad) /\ i \notin UntoldBad
    <3>1. i \notin UntoldBad
      BY <2>1 DEF UntoldBad
    <3>2. \A j : j \in UntoldBad' <=> (j \in Untold' /\ verdict'[j] = "invalid")
      BY DEF UntoldBad
    <3>3. \A j : j \in Untold => j \in DOMAIN tasks /\ j # i
      BY <1>0 DEF Untold
    <3>4. \A j : j \in UntoldBad' <=> (j \in UntoldBad \/ (j = i /\ g = "invalid"))
      BY <1>2, <2>1, <3>2, <3>3 DEF UntoldBad
    <3> QED
      BY <3>1, <3>4
  <2>4. Cardinality(Untold') = Cardinality(Untold) + 1
    BY <1>0, <2>1, CountedSets, FS_AddElement
  <2>5. Cardinality(UntoldBad') = IF g = "invalid" THEN Cardinality(UntoldBad) + 1
                                                   ELSE Cardinality(UntoldBad)
    BY <1>0, <2>3, CountedSets, FS_AddElement
  <2>6. /\ invalid = Cardinality(BadReports) + Cardinality(UntoldBad)
        /\ valid + invalid = Len(reports) + Cardinality(Untold)
        /\ Cardinality(Untold) \in Nat /\ Cardinality(UntoldBad) \in Nat
        /\ Cardinality(BadReports) \in Nat /\ Len(reports) \in Nat
    BY <1>0, CountedSets, ReportTypes DEF ValidationInv, CountInv
  <2>7. valid' + invalid' = Len(reports') + Cardinality(Untold')
    <3>1. valid' + invalid' = valid + invalid + 1
      BY <1>0, <1>1
    <3> QED
      BY <1>0, <2>4, <2>6, <3>1
  <2>8. invalid' = Cardinality(BadReports') + Cardinality(UntoldBad')
    BY <1>0, <1>1, <2>2, <2>5, <2>6
  <2> QED
    BY <2>7, <2>8 DEF CountInv
<1>6. SpotInv'
  <2> SUFFICES ASSUME shifts = vshifts PROVE SpotInv'
    BY <1>0 DEF SpotInv
  <2>1. /\ \A j \in DOMAIN tasks : TaskPlaced(j)
        /\ \A k \in DOMAIN reports : ReportPlaced(k)
        /\ ReportedOnce
    BY DEF ValidationInv, SpotInv
  <2>2. \A j \in DOMAIN tasks : Spot(j)' = Spot(j) /\ GradeAt(j)' = GradeAt(j)
    BY <1>0 DEF Spot, GradeAt
  <2>3. \A j \in DOMAIN tasks : TaskPlaced(j)'
    BY <1>0, <1>2, <1>3, <2>1, <2>2 DEF TaskPlaced, Over
  <2>4. \A k \in DOMAIN reports : ReportPlaced(k)'
    <3> TAKE k \in DOMAIN reports
    <3>1. reports[k].task \in DOMAIN tasks /\ reports[k].task # i
      BY <1>0, <1>3, ReportTypes
    <3> QED
      BY <1>0, <1>2, <2>1, <2>2, <3>1 DEF ReportPlaced
  <2> QED
    BY <1>0, <1>3, <2>1, <2>3, <2>4 DEF SpotInv, ReportedOnce, Forced
<1>7. GradedInv'
  <2> SUFFICES ASSUME shifts = vshifts, ~overlap PROVE GradedInv'
    BY <1>0 DEF GradedInv
  <2>1. /\ \A j \in DOMAIN tasks : phase[j] \in {"stored", "done"} => RowOf(j, verdict[j])
        /\ \A k \in DOMAIN reports : RowOf(reports[k].task, reports[k].grade)
    BY DEF ValidationInv, GradedInv
  <2>2. \A j \in DOMAIN tasks : phase'[j] \in {"stored", "done"} => RowOf(j, verdict[j])'
    BY <1>0, <1>2, <2>1 DEF RowOf
  <2>3. \A k \in DOMAIN reports : RowOf(reports[k].task, reports[k].grade)'
    BY <1>0, <2>1 DEF RowOf
  <2> QED
    BY <1>0, <2>2, <2>3 DEF GradedInv, RowOf
<1> QED
  BY <1>4, <1>5, <1>6, <1>7 DEF ValidationInv

\* Sources of different tasks have different urls, as long as changes do not overlap.
LEMMA TasksApart ==
  ASSUME ListInv, RowInv, ValidationInv, shifts = vshifts, ~overlap,
         NEW i \in DOMAIN tasks, NEW j \in DOMAIN tasks, tasks[i].url = tasks[j].url
  PROVE  i = j
<1>0. sources \in Seq(Sources) /\ Len(sources) \in Nat /\ ValidationTypeOK
  BY StageTypes
<1>1. /\ Spot(i) \in 1 .. Len(sources) /\ sources[Spot(i)].url = tasks[i].url /\ tasks[i].url # Temp
      /\ Spot(j) \in 1 .. Len(sources) /\ sources[Spot(j)].url = tasks[j].url
  <2>1. TaskPlaced(i) /\ TaskPlaced(j)
    BY DEF ValidationInv, SpotInv
  <2>2. Spot(i) \in Nat \ {0} /\ Spot(j) \in Nat \ {0}
    BY <1>0, TaskTypes
  <2> QED
    BY <1>0, <2>1, <2>2 DEF TaskPlaced
<1>2. Spot(i) = Spot(j)
  BY <1>1 DEF RowInv, Unique
<1>3. tasks[i].index = tasks[j].index
  <2>1. tasks[i].index \in Nat /\ tasks[j].index \in Nat
    BY <1>0, TaskTypes
  <2> QED
    BY <1>2, <2>1 DEF Spot
<1> QED
  BY <1>3 DEF ValidationInv, StageInv

\* No two tasks are on one place.
LEMMA SpotsApart ==
  ASSUME ValidationInv, NEW i \in DOMAIN tasks, NEW j \in DOMAIN tasks, Spot(i) = Spot(j)
  PROVE  i = j
<1>1. tasks[i].index \in Nat /\ tasks[j].index \in Nat
  BY TaskTypes DEF ValidationInv, StageInv
<1>2. tasks[i].index = tasks[j].index
  BY <1>1 DEF Spot
<1> QED
  BY <1>2 DEF ValidationInv, StageInv

\* It is put into the list ...
LEMMA CommitListKeeps ==
  ASSUME ListInv, ListInv', ValidationInv, NEW i \in DOMAIN tasks, CommitList(i)
  PROVE  ValidationInv'
<1>0. /\ phase[i] = "graded" /\ phase' = [phase EXCEPT ![i] = "listed"]
      /\ UNCHANGED <<table, shifts, overlap, vpc, tasks, verdict, forcing, valid, invalid, reports,
                     cut, vshifts>>
      /\ sources' = IF InRange(tasks[i].index)
                    THEN [sources EXCEPT ![Spot(i)].grade = verdict[i]] ELSE sources
      /\ ValidationTypeOK /\ sources \in Seq(Sources) /\ Len(sources) \in Nat
      /\ valid \in Nat /\ invalid \in Nat
      /\ phase \in [DOMAIN tasks -> Phases] /\ verdict[i] \in Grades
  BY StageTypes DEF CommitList, listRest, history, ValidationTypeOK, Spot
<1>2. /\ phase'[i] = "listed" /\ \A j \in DOMAIN tasks : j # i => phase'[j] = phase[j]
  BY <1>0
<1>3. /\ vpc = "running" /\ forcing = 1
      /\ shifts = vshifts => \A k \in DOMAIN reports : reports[k].task # i
  BY <1>0, WorkTypes DEF Phases
<1>4. StageInv'
  <2>1. /\ phase[i] \in Phases \ {"pending", "done"} /\ "listed" \in Phases \ {"pending", "grading"}
        /\ valid' \in Nat /\ invalid' \in Nat
        /\ reports' \in Seq([task : DOMAIN tasks, grade : Grades])
        /\ verdict[i] \in Outcomes
    BY <1>0 DEF Phases, ValidationTypeOK, ValidationInv, StageInv
  <2> QED
    BY <1>0, <2>1, TaskStage
<1>5. CountInv'
  <2>1. Untold' = Untold
    BY <1>0, <1>2 DEF Untold
  <2>2. BadReports' = BadReports /\ UntoldBad' = UntoldBad
    BY <1>0, <2>1 DEF BadReports, UntoldBad
  <2> QED
    BY <1>0, <2>1, <2>2 DEF ValidationInv, CountInv
<1>6. SpotInv'
  <2> SUFFICES ASSUME shifts = vshifts PROVE SpotInv'
    BY <1>0 DEF SpotInv
  <2>1. /\ \A j \in DOMAIN tasks : TaskPlaced(j)
        /\ \A k \in DOMAIN reports : ReportPlaced(k)
        /\ ReportedOnce
    BY DEF ValidationInv, SpotInv
  <2>2. \A j \in DOMAIN tasks : Spot(j)' = Spot(j) /\ Spot(j) \in 1 .. Len(sources)
    <3> TAKE j \in DOMAIN tasks
    <3>1. Spot(j) \in Nat \ {0} /\ Spot(j) <= Len(sources)
      BY <1>0, <2>1, TaskTypes DEF TaskPlaced
    <3>2. Spot(j)' = Spot(j)
      BY <1>0 DEF Spot
    <3> QED
      BY <1>0, <3>1, <3>2
  <2>3. sources' = [sources EXCEPT ![Spot(i)].grade = verdict[i]]
    <3>1. InRange(tasks[i].index)
      <4>1. tasks[i].index \in Nat /\ Spot(i) \in 1 .. Len(sources)
        BY <1>0, <2>2, TaskTypes
      <4> QED
        BY <1>0, <4>1 DEF InRange, Spot
    <3> QED
      BY <1>0, <3>1
  <2>4. /\ Len(sources') = Len(sources)
        /\ \A k \in 1 .. Len(sources) : sources'[k].url = sources[k].url
        /\ sources'[Spot(i)].grade = verdict[i]
        /\ \A k \in 1 .. Len(sources) : k # Spot(i) => sources'[k] = sources[k]
    BY <1>0, <2>2, <2>3, Regraded DEF SameShape
  <2>5. /\ GradeAt(i)' = verdict[i]
        /\ \A j \in DOMAIN tasks : j # i => GradeAt(j)' = GradeAt(j)
    BY <2>2, <2>4, SpotsApart DEF GradeAt
  <2>6. \A j \in DOMAIN tasks : TaskPlaced(j)'
    <3> TAKE j \in DOMAIN tasks
    <3>1. TaskPlaced(j) /\ Spot(j)' = Spot(j) /\ Spot(j) \in 1 .. Len(sources)
      BY <2>1, <2>2
    <3>2. Spot(j)' <= Len(sources') /\ sources'[Spot(j)'].url = tasks'[j].url /\ tasks'[j].url # Temp
      BY <1>0, <2>4, <3>1 DEF TaskPlaced
    <3>3. phase'[j] \in {"listed", "stored", "done"} => GradeAt(j)' = verdict'[j]
      BY <1>0, <1>2, <2>5, <3>1 DEF TaskPlaced
    <3> QED
      BY <1>0, <1>3, <3>2, <3>3 DEF TaskPlaced, Over
  <2>7. \A k \in DOMAIN reports : ReportPlaced(k)'
    <3> TAKE k \in DOMAIN reports
    <3>1. reports[k].task \in DOMAIN tasks /\ reports[k].task # i
      BY <1>0, <1>3, ReportTypes
    <3> QED
      BY <1>0, <1>2, <2>1, <2>5, <3>1 DEF ReportPlaced
  <2> QED
    BY <1>0, <1>3, <2>1, <2>6, <2>7 DEF SpotInv, ReportedOnce, Forced
<1>7. GradedInv'
  <2> SUFFICES ASSUME shifts = vshifts, ~overlap PROVE GradedInv'
    BY <1>0 DEF GradedInv
  <2>1. /\ \A j \in DOMAIN tasks : phase[j] \in {"stored", "done"} => RowOf(j, verdict[j])
        /\ \A k \in DOMAIN reports : RowOf(reports[k].task, reports[k].grade)
    BY DEF ValidationInv, GradedInv
  <2>2. \A j \in DOMAIN tasks : phase'[j] \in {"stored", "done"} => RowOf(j, verdict[j])'
    BY <1>0, <1>2, <2>1 DEF RowOf
  <2>3. \A k \in DOMAIN reports : RowOf(reports[k].task, reports[k].grade)'
    BY <1>0, <2>1 DEF RowOf
  <2> QED
    BY <1>0, <2>2, <2>3 DEF GradedInv, RowOf
<1> QED
  BY <1>4, <1>5, <1>6, <1>7 DEF ValidationInv

\* ... and into its row ...
LEMMA CommitRowKeeps ==
  ASSUME ListInv, ListInv', RowInv, ValidationInv, NEW i \in DOMAIN tasks, CommitRow(i)
  PROVE  ValidationInv'
<1>0. /\ phase[i] = "listed" /\ phase' = [phase EXCEPT ![i] = "stored"]
      /\ UNCHANGED <<sources, shifts, overlap, vpc, tasks, verdict, forcing, valid, invalid, reports,
                     cut, vshifts>>
      /\ table' = RowGraded(tasks[i].url, verdict[i])
      /\ ValidationTypeOK /\ valid \in Nat /\ invalid \in Nat
      /\ phase \in [DOMAIN tasks -> Phases]
  BY StageTypes DEF CommitRow, listRest, history, ValidationTypeOK
<1>2. /\ phase'[i] = "stored" /\ \A j \in DOMAIN tasks : j # i => phase'[j] = phase[j]
  BY <1>0
<1>3. /\ vpc = "running" /\ forcing = 1
      /\ shifts = vshifts => \A k \in DOMAIN reports : reports[k].task # i
  BY <1>0, WorkTypes DEF Phases
<1>4. StageInv'
  <2>1. /\ phase[i] \in Phases \ {"pending", "done"} /\ "stored" \in Phases \ {"pending", "grading"}
        /\ valid' \in Nat /\ invalid' \in Nat
        /\ reports' \in Seq([task : DOMAIN tasks, grade : Grades])
        /\ verdict[i] \in Outcomes
    BY <1>0 DEF Phases, ValidationTypeOK, ValidationInv, StageInv
  <2> QED
    BY <1>0, <2>1, TaskStage
<1>5. CountInv'
  <2>1. Untold' = Untold
    BY <1>0, <1>2 DEF Untold
  <2>2. BadReports' = BadReports /\ UntoldBad' = UntoldBad
    BY <1>0, <2>1 DEF BadReports, UntoldBad
  <2> QED
    BY <1>0, <2>1, <2>2 DEF ValidationInv, CountInv
<1>6. SpotInv'
  <2> SUFFICES ASSUME shifts = vshifts PROVE SpotInv'
    BY <1>0 DEF SpotInv
  <2>1. /\ \A j \in DOMAIN tasks : TaskPlaced(j)
        /\ \A k \in DOMAIN reports : ReportPlaced(k)
        /\ ReportedOnce
    BY DEF ValidationInv, SpotInv
  <2>2. \A j \in DOMAIN tasks : Spot(j)' = Spot(j) /\ GradeAt(j)' = GradeAt(j)
    BY <1>0 DEF Spot, GradeAt
  <2>3. \A j \in DOMAIN tasks : TaskPlaced(j)'
    BY <1>0, <1>2, <1>3, <2>1, <2>2 DEF TaskPlaced, Over
  <2>4. \A k \in DOMAIN reports : ReportPlaced(k)'
    <3> TAKE k \in DOMAIN reports
    <3>1. reports[k].task \in DOMAIN tasks /\ reports[k].task # i
      BY <1>0, <1>3, ReportTypes
    <3> QED
      BY <1>0, <1>2, <2>1, <2>2, <3>1 DEF ReportPlaced
  <2> QED
    BY <1>0, <1>3, <2>1, <2>3, <2>4 DEF SpotInv, ReportedOnce, Forced
<1>7. GradedInv'
  <2> SUFFICES ASSUME shifts = vshifts, ~overlap PROVE GradedInv'
    BY <1>0 DEF GradedInv
  <2>1. /\ \A j \in DOMAIN tasks : phase[j] \in {"stored", "done"} => RowOf(j, verdict[j])
        /\ \A k \in DOMAIN reports : RowOf(reports[k].task, reports[k].grade)
    BY DEF ValidationInv, GradedInv
  <2>2. \A j \in DOMAIN tasks : j # i => \A g : RowOf(j, g) => RowOf(j, g)'
    <3>1. \A j \in DOMAIN tasks : j # i => tasks[j].url # tasks[i].url
      BY TasksApart
    <3> QED
      BY <1>0, <3>1 DEF RowOf, RowGraded
  <2>3. RowOf(i, verdict[i])'
    BY <1>0 DEF RowOf, RowGraded
  <2>4. \A j \in DOMAIN tasks : phase'[j] \in {"stored", "done"} => RowOf(j, verdict[j])'
    BY <1>0, <1>2, <2>1, <2>2, <2>3 DEF RowOf
  <2>5. \A k \in DOMAIN reports : RowOf(reports[k].task, reports[k].grade)'
    <3> TAKE k \in DOMAIN reports
    <3>1. reports[k].task \in DOMAIN tasks /\ reports[k].task # i
      BY <1>0, <1>3, ReportTypes
    <3> QED
      BY <1>0, <2>1, <2>2, <3>1 DEF RowOf
  <2> QED
    BY <1>0, <2>4, <2>5 DEF GradedInv, RowOf
<1> QED
  BY <1>4, <1>5, <1>6, <1>7 DEF ValidationInv

\* One more report.
LEMMA OneReport ==
  ASSUME ValidationTypeOK, NEW i \in DOMAIN tasks, NEW g \in Grades,
         reports' = Append(reports, [task |-> i, grade |-> g])
  PROVE  /\ reports' \in Seq([task : DOMAIN tasks, grade : Grades])
         /\ Len(reports') = Len(reports) + 1
         /\ DOMAIN reports' = DOMAIN reports \union {Len(reports) + 1}
         /\ Len(reports) + 1 \notin DOMAIN reports
         /\ \A k \in DOMAIN reports : reports'[k] = reports[k]
         /\ reports'[Len(reports) + 1].task = i /\ reports'[Len(reports) + 1].grade = g
         /\ Cardinality(BadReports') = IF g = "invalid" THEN Cardinality(BadReports) + 1
                                                        ELSE Cardinality(BadReports)
<1> DEFINE R == [task : DOMAIN tasks, grade : Grades]
           r == [task |-> i, grade |-> g]
           n == Len(reports)
<1>1. reports \in Seq(R) /\ r \in R /\ r.task = i /\ r.grade = g
  BY DEF ValidationTypeOK
<1> HIDE DEF R, r
<1>2. DOMAIN reports = 1 .. n /\ n \in Nat
  BY ReportTypes
<1>3. reports' = Append(reports, r)
  BY DEF r
<1>4. /\ reports' \in Seq(R) /\ Len(reports') = n + 1 /\ DOMAIN reports' = 1 .. n + 1
      /\ \A k \in 1 .. n : reports'[k] = reports[k]
      /\ reports'[n + 1] = r
  <2>1. PICK q : q = reports'
    OBVIOUS
  <2>2. q \in Seq(R) /\ Len(q) = n + 1 /\ (\A k \in 1 .. n : q[k] = reports[k]) /\ q[n + 1] = r
    BY <1>1, <1>3, <2>1, AppendProperties
  <2>3. DOMAIN q = 1 .. n + 1
    BY <2>2, LenProperties
  <2> QED
    BY <2>1, <2>2, <2>3
<1> HIDE DEF n
<1>5. DOMAIN reports' = DOMAIN reports \union {n + 1} /\ n + 1 \notin DOMAIN reports
  BY <1>2, <1>4
<1>6. BadReports' = IF g = "invalid" THEN BadReports \union {n + 1} ELSE BadReports
  <2>1. \A k : k \in BadReports' <=> (k \in DOMAIN reports' /\ reports'[k].grade = "invalid")
    BY DEF BadReports
  <2>2. \A k : k \in BadReports <=> (k \in DOMAIN reports /\ reports[k].grade = "invalid")
    BY DEF BadReports
  <2>3. \A k : k \in BadReports' <=> (k \in BadReports \/ (k = n + 1 /\ g = "invalid"))
    BY <1>1, <1>2, <1>4, <1>5, <2>1, <2>2
  <2> QED
    BY <2>3
<1>7. n + 1 \notin BadReports
  BY <1>5 DEF BadReports
<1>8. Cardinality(BadReports') = IF g = "invalid" THEN Cardinality(BadReports) + 1
                                                  ELSE Cardinality(BadReports)
  BY <1>6, <1>7, CountedSets, FS_AddElement
<1> QED
  BY <1>1, <1>2, <1>4, <1>5, <1>8 DEF R, n

\* ... and reported.
LEMMA ReportKeeps ==
  ASSUME ListInv, ListInv', ValidationInv, NEW i \in DOMAIN tasks, Report(i)
  PROVE  ValidationInv'
<1> DEFINE n == Len(reports)
<1>0. /\ phase[i] = "stored" /\ phase' = [phase EXCEPT ![i] = "done"]
      /\ UNCHANGED <<sources, table, shifts, overlap, vpc, tasks, verdict, forcing, valid, invalid,
                     cut, vshifts>>
      /\ reports' = Append(reports, [task |-> i, grade |-> verdict[i]])
      /\ ValidationTypeOK /\ valid \in Nat /\ invalid \in Nat /\ verdict[i] \in Grades
      /\ phase \in [DOMAIN tasks -> Phases]
  BY StageTypes DEF Report, listRest, data, history, ValidationTypeOK
<1>1. /\ reports' \in Seq([task : DOMAIN tasks, grade : Grades])
      /\ Len(reports') = n + 1
      /\ DOMAIN reports' = DOMAIN reports \union {n + 1} /\ n + 1 \notin DOMAIN reports
      /\ \A k \in DOMAIN reports : reports'[k] = reports[k]
      /\ reports'[n + 1].task = i /\ reports'[n + 1].grade = verdict[i]
      /\ Cardinality(BadReports') = IF verdict[i] = "invalid" THEN Cardinality(BadReports) + 1
                                                              ELSE Cardinality(BadReports)
  BY <1>0, OneReport
<1>2. /\ phase'[i] = "done" /\ \A j \in DOMAIN tasks : j # i => phase'[j] = phase[j]
  BY <1>0
<1>3. /\ vpc = "running" /\ forcing = 1
      /\ shifts = vshifts => \A k \in DOMAIN reports : reports[k].task # i
  BY <1>0, WorkTypes DEF Phases
<1> HIDE DEF n
<1>4. StageInv'
  <2>1. /\ phase[i] \in Phases \ {"pending", "done"} /\ "done" \in Phases \ {"pending", "grading"}
        /\ valid' \in Nat /\ invalid' \in Nat /\ verdict[i] \in Outcomes
    BY <1>0 DEF Phases, ValidationInv, StageInv
  <2> QED
    BY <1>0, <1>1, <2>1, TaskStage
<1>5. CountInv'
  <2>1. Untold' = Untold \ {i} /\ i \in Untold
    BY <1>0, <1>2 DEF Untold
  <2>2. UntoldBad' = UntoldBad \ {i} /\ (i \in UntoldBad <=> verdict[i] = "invalid")
    <3>1. \A j : j \in UntoldBad' <=> (j \in Untold' /\ verdict[j] = "invalid")
      BY <1>0 DEF UntoldBad
    <3>2. \A j : j \in UntoldBad <=> (j \in Untold /\ verdict[j] = "invalid")
      BY DEF UntoldBad
    <3> QED
      BY <2>1, <3>1, <3>2
  <2>3. Cardinality(Untold') = Cardinality(Untold) - 1
    BY <1>0, <2>1, CountedSets, FS_RemoveElement
  <2>4. Cardinality(UntoldBad') = IF verdict[i] = "invalid" THEN Cardinality(UntoldBad) - 1
                                                            ELSE Cardinality(UntoldBad)
    <3>1. CASE verdict[i] = "invalid"
      BY <1>0, <2>2, <3>1, CountedSets, FS_RemoveElement
    <3>2. CASE verdict[i] # "invalid"
      <4>1. UntoldBad' = UntoldBad
        BY <2>2, <3>2
      <4> QED
        BY <3>2, <4>1
    <3> QED
      BY <3>1, <3>2
  <2>5. /\ invalid = Cardinality(BadReports) + Cardinality(UntoldBad)
        /\ valid + invalid = n + Cardinality(Untold)
        /\ Cardinality(Untold) \in Nat /\ Cardinality(UntoldBad) \in Nat
        /\ Cardinality(BadReports) \in Nat /\ n \in Nat
    BY <1>0, CountedSets, ReportTypes DEF ValidationInv, CountInv, n
  <2>6. valid' + invalid' = Len(reports') + Cardinality(Untold')
    BY <1>0, <1>1, <2>3, <2>5
  <2>7. invalid' = Cardinality(BadReports') + Cardinality(UntoldBad')
    BY <1>0, <1>1, <2>4, <2>5
  <2> QED
    BY <2>6, <2>7 DEF CountInv
<1>6. SpotInv'
  <2> SUFFICES ASSUME shifts = vshifts PROVE SpotInv'
    BY <1>0 DEF SpotInv
  <2>1. /\ \A j \in DOMAIN tasks : TaskPlaced(j)
        /\ \A k \in DOMAIN reports : ReportPlaced(k)
        /\ ReportedOnce
    BY DEF ValidationInv, SpotInv
  <2>2. \A j \in DOMAIN tasks : Spot(j)' = Spot(j) /\ GradeAt(j)' = GradeAt(j)
    BY <1>0 DEF Spot, GradeAt
  <2>3. \A j \in DOMAIN tasks : TaskPlaced(j)'
    BY <1>0, <1>2, <1>3, <2>1, <2>2 DEF TaskPlaced, Over
  <2>4. \A k \in DOMAIN reports' : ReportPlaced(k)'
    <3> TAKE k \in DOMAIN reports'
    <3>1. CASE k \in DOMAIN reports
      <4>1. reports[k].task \in DOMAIN tasks /\ reports[k].task # i
        BY <1>0, <1>3, <3>1, ReportTypes
      <4> QED
        BY <1>0, <1>1, <1>2, <2>1, <2>2, <3>1, <4>1 DEF ReportPlaced
    <3>2. CASE k = n + 1
      <4>1. GradeAt(i) = verdict[i]
        BY <1>0, <2>1 DEF TaskPlaced
      <4>2. GradeAt(i)' = verdict[i]
        BY <2>2, <4>1
      <4> QED
        BY <1>1, <1>2, <3>2, <4>2 DEF ReportPlaced
    <3> QED
      BY <1>1, <3>1, <3>2
  <2>5. ReportedOnce'
    <3>1. \A k \in DOMAIN reports : reports[k].task # i
      BY <1>3
    <3> QED
      BY <1>1, <2>1, <3>1 DEF ReportedOnce
  <2> QED
    BY <1>0, <1>3, <2>3, <2>4, <2>5 DEF SpotInv, Forced
<1>7. GradedInv'
  <2> SUFFICES ASSUME shifts = vshifts, ~overlap PROVE GradedInv'
    BY <1>0 DEF GradedInv
  <2>1. /\ \A j \in DOMAIN tasks : phase[j] \in {"stored", "done"} => RowOf(j, verdict[j])
        /\ \A k \in DOMAIN reports : RowOf(reports[k].task, reports[k].grade)
    BY DEF ValidationInv, GradedInv
  <2>2. \A j \in DOMAIN tasks : phase'[j] \in {"stored", "done"} => RowOf(j, verdict[j])'
    BY <1>0, <1>2, <2>1 DEF RowOf
  <2>3. \A k \in DOMAIN reports' : RowOf(reports[k].task, reports[k].grade)'
    <3> TAKE k \in DOMAIN reports'
    <3>1. CASE k \in DOMAIN reports
      BY <1>0, <1>1, <2>1, <3>1 DEF RowOf
    <3>2. CASE k = n + 1
      BY <1>0, <1>1, <2>1, <3>2 DEF RowOf
    <3> QED
      BY <1>1, <3>1, <3>2
  <2> QED
    BY <1>0, <2>2, <2>3 DEF GradedInv, RowOf
<1> QED
  BY <1>4, <1>5, <1>6, <1>7 DEF ValidationInv

\* After a cancellation or the deadline: a source without a grade is put into the list as
\* invalid ...
LEMMA ForceListKeeps ==
  ASSUME ListInv, ListInv', ValidationInv, ForceList
  PROVE  ValidationInv'
<1>f. PICK f : f = forcing
  OBVIOUS
<1>0. /\ vpc = "force" /\ f <= Len(tasks)
      /\ UNCHANGED <<table, shifts, overlap, tasks, phase, verdict, valid, invalid, reports, cut, vshifts>>
      /\ ValidationTypeOK /\ sources \in Seq(Sources) /\ Len(sources) \in Nat
      /\ Len(tasks) \in Nat /\ f \in 1 .. Len(tasks) + 1 /\ DOMAIN tasks = 1 .. Len(tasks)
  BY <1>f, StageTypes, TaskTypes DEF ForceList, listRest, history, ValidationTypeOK
<1>1. f \in DOMAIN tasks
  BY <1>0
<1>2. \/ /\ InRange(tasks[f].index) /\ sources[Spot(f)].grade = "unknown"
         /\ sources' = [sources EXCEPT ![Spot(f)].grade = "invalid"]
         /\ vpc' = "forcerow" /\ forcing' = f
      \/ /\ ~(InRange(tasks[f].index) /\ sources[Spot(f)].grade = "unknown")
         /\ forcing' = f + 1 /\ sources' = sources /\ vpc' = vpc
  BY <1>f DEF ForceList, Spot
<1>3. \A j \in DOMAIN tasks : phase[j] \in {"pending", "done"}
  BY <1>0 DEF ValidationInv, StageInv, Over
<1>4. StageInv'
  <2>1. /\ forcing' \in 1 .. Len(tasks) + 1 /\ vpc' \in {"force", "forcerow"}
        /\ vpc' = "forcerow" => forcing' <= Len(tasks)
    BY <1>0, <1>1, <1>2
  <2>2. ValidationTypeOK'
    BY <1>0, <2>1 DEF ValidationTypeOK
  <2> QED
    BY <1>f, <1>0, <1>3, <2>1, <2>2 DEF ValidationInv, StageInv, Over
<1>5. CountInv'
  <2>1. Untold' = Untold /\ BadReports' = BadReports
    BY <1>0 DEF Untold, BadReports
  <2>2. UntoldBad' = UntoldBad
    BY <1>0, <2>1 DEF UntoldBad
  <2> QED
    BY <1>0, <2>1, <2>2 DEF ValidationInv, CountInv
<1>6. SpotInv'
  <2> SUFFICES ASSUME shifts = vshifts PROVE SpotInv'
    BY <1>0 DEF SpotInv
  <2>1. /\ \A j \in DOMAIN tasks : TaskPlaced(j)
        /\ \A k \in DOMAIN reports : ReportPlaced(k)
        /\ ReportedOnce
    BY DEF ValidationInv, SpotInv
  <2>2. \A j \in DOMAIN tasks : Spot(j)' = Spot(j) /\ Spot(j) \in 1 .. Len(sources)
    <3> TAKE j \in DOMAIN tasks
    <3>1. Spot(j) \in Nat \ {0} /\ Spot(j) <= Len(sources)
      BY <1>0, <2>1, TaskTypes DEF TaskPlaced
    <3>2. Spot(j)' = Spot(j)
      BY <1>0 DEF Spot
    <3> QED
      BY <1>0, <3>1, <3>2
  <2>3. InRange(tasks[f].index)
    <3>1. tasks[f].index \in Nat /\ Spot(f) \in 1 .. Len(sources)
      BY <1>0, <1>1, <2>2, TaskTypes
    <3> QED
      BY <1>0, <3>1 DEF InRange, Spot
  <2>4. ReportedOnce'
    BY <1>0, <2>1 DEF ReportedOnce
  <2>5. CASE sources[Spot(f)].grade = "unknown"
    <3>1. /\ sources' = [sources EXCEPT ![Spot(f)].grade = "invalid"]
          /\ vpc' = "forcerow" /\ forcing' = f /\ "invalid" \in Grades
      BY <1>2, <2>3, <2>5 DEF Grades
    <3>2. /\ Len(sources') = Len(sources)
          /\ \A k \in 1 .. Len(sources) : sources'[k].url = sources[k].url
          /\ sources'[Spot(f)].grade = "invalid"
          /\ \A k \in 1 .. Len(sources) : k # Spot(f) => sources'[k] = sources[k]
      BY <1>0, <1>1, <2>2, <3>1, Regraded DEF SameShape
    <3>3. /\ GradeAt(f)' = "invalid"
          /\ \A j \in DOMAIN tasks : j # f => GradeAt(j)' = GradeAt(j)
      BY <1>1, <2>2, <3>2, SpotsApart DEF GradeAt
    <3>4. phase[f] = "pending"
      <4>1. phase[f] = "done" => verdict[f] \in Outcomes /\ GradeAt(f) = verdict[f]
        BY <1>1, <2>1 DEF ValidationInv, StageInv, TaskPlaced
      <4>2. GradeAt(f) = "unknown" /\ "unknown" \notin Outcomes
        BY <2>5, ValidationConstants DEF GradeAt
      <4> QED
        BY <1>1, <1>3, <4>1, <4>2
    <3>5. \A j \in DOMAIN tasks : TaskPlaced(j)'
      <4> TAKE j \in DOMAIN tasks
      <4>1. TaskPlaced(j) /\ Spot(j)' = Spot(j) /\ Spot(j) \in 1 .. Len(sources)
        BY <2>1, <2>2
      <4>2. Spot(j)' <= Len(sources') /\ sources'[Spot(j)'].url = tasks'[j].url /\ tasks'[j].url # Temp
        BY <1>0, <3>2, <4>1 DEF TaskPlaced
      <4>3. phase'[j] \in {"listed", "stored", "done"} => GradeAt(j)' = verdict'[j]
        BY <1>0, <3>3, <3>4, <4>1 DEF TaskPlaced
      <4>4. j < f => j # f
        BY <1>0, <1>1
      <4>5. j < forcing' => GradeAt(j)' # "unknown"
        BY <1>f, <1>0, <3>1, <3>3, <4>1, <4>4 DEF TaskPlaced, Over
      <4> QED
        BY <4>2, <4>3, <4>5 DEF TaskPlaced
    <3>6. \A k \in DOMAIN reports : ReportPlaced(k)'
      <4> TAKE k \in DOMAIN reports
      <4>1. reports[k].task \in 1 .. Len(tasks) /\ ReportPlaced(k)
        BY <1>0, <2>1, ReportTypes
      <4>2. reports[k].task # f
        BY <1>f, <1>0, <3>4, <4>1 DEF ReportPlaced
      <4> QED
        BY <1>f, <1>0, <3>1, <3>3, <4>1, <4>2 DEF ReportPlaced
    <3>7. Forced'
      BY <1>f, <1>0, <3>1, <3>3, <3>4 DEF Forced
    <3> QED
      BY <1>0, <2>4, <3>5, <3>6, <3>7 DEF SpotInv
  <2>6. CASE sources[Spot(f)].grade # "unknown"
    <3>1. forcing' = f + 1 /\ sources' = sources /\ vpc' = vpc
      BY <1>2, <2>6
    <3>2. \A j \in DOMAIN tasks : GradeAt(j)' = GradeAt(j)
      BY <2>2, <3>1 DEF GradeAt
    <3>3. \A j \in DOMAIN tasks : TaskPlaced(j)'
      <4> TAKE j \in DOMAIN tasks
      <4>1. TaskPlaced(j) /\ Spot(j)' = Spot(j) /\ GradeAt(j)' = GradeAt(j)
        BY <2>1, <2>2, <3>2
      <4>2. j < forcing' => j < f \/ j = f
        BY <1>0, <1>1, <3>1
      <4>3. j < forcing' => GradeAt(j) # "unknown"
        BY <1>f, <1>0, <2>6, <4>1, <4>2 DEF TaskPlaced, GradeAt, Over
      <4> QED
        BY <1>0, <3>1, <4>1, <4>3 DEF TaskPlaced
    <3>4. \A k \in DOMAIN reports : ReportPlaced(k)'
      <4> TAKE k \in DOMAIN reports
      <4>1. reports[k].task \in 1 .. Len(tasks) /\ ReportPlaced(k)
        BY <1>0, <2>1, ReportTypes
      <4>2. reports[k].task < f => reports[k].task < forcing'
        BY <1>0, <3>1, <4>1
      <4> QED
        BY <1>f, <1>0, <3>1, <3>2, <4>1, <4>2 DEF ReportPlaced
    <3> QED
      BY <1>0, <2>4, <3>1, <3>3, <3>4 DEF SpotInv, Forced
  <2> QED
    BY <2>5, <2>6
<1>7. GradedInv'
  <2> SUFFICES ASSUME shifts = vshifts, ~overlap PROVE GradedInv'
    BY <1>0 DEF GradedInv
  <2>1. /\ \A j \in DOMAIN tasks : phase[j] \in {"stored", "done"} => RowOf(j, verdict[j])
        /\ \A k \in DOMAIN reports : RowOf(reports[k].task, reports[k].grade)
    BY DEF ValidationInv, GradedInv
  <2>2. \A j \in DOMAIN tasks : phase[j] \in {"stored", "done"} => RowOf(j, verdict[j])'
    BY <1>0, <2>1 DEF RowOf
  <2>3. \A k \in DOMAIN reports : RowOf(reports[k].task, reports[k].grade)'
    BY <1>0, <2>1 DEF RowOf
  <2> QED
    BY <1>0, <2>2, <2>3 DEF GradedInv, RowOf
<1> QED
  BY <1>4, <1>5, <1>6, <1>7 DEF ValidationInv

\* ... and into its row, counted and reported.
LEMMA ForceRowKeeps ==
  ASSUME ListInv, ListInv', RowInv, ValidationInv, ForceRow
  PROVE  ValidationInv'
<1>f. PICK f, n : f = forcing /\ n = Len(reports)
  OBVIOUS
<1>0. /\ vpc = "forcerow" /\ vpc' = "force" /\ f <= Len(tasks) /\ forcing' = f + 1
      /\ UNCHANGED <<sources, shifts, overlap, tasks, phase, verdict, valid, cut, vshifts>>
      /\ table' = RowGraded(tasks[f].url, "invalid")
      /\ invalid' = invalid + 1
      /\ reports' = Append(reports, [task |-> f, grade |-> "invalid"])
      /\ ValidationTypeOK /\ valid \in Nat /\ invalid \in Nat
      /\ Len(tasks) \in Nat /\ f \in 1 .. Len(tasks) + 1 /\ DOMAIN tasks = 1 .. Len(tasks)
  BY <1>f, StageTypes, TaskTypes DEF ForceRow, listRest, history, ValidationTypeOK, ValidationInv, StageInv
<1>1. f \in DOMAIN tasks /\ "invalid" \in Grades
  BY <1>0 DEF Grades
<1>2. /\ reports' \in Seq([task : DOMAIN tasks, grade : Grades])
      /\ Len(reports') = n + 1
      /\ DOMAIN reports' = DOMAIN reports \union {n + 1} /\ n + 1 \notin DOMAIN reports
      /\ \A k \in DOMAIN reports : reports'[k] = reports[k]
      /\ reports'[n + 1].task = f /\ reports'[n + 1].grade = "invalid"
      /\ Cardinality(BadReports') = Cardinality(BadReports) + 1
  BY <1>f, <1>0, <1>1, OneReport
<1>3. \A j \in DOMAIN tasks : phase[j] \in {"pending", "done"}
  BY <1>0 DEF ValidationInv, StageInv, Over
<1>4. StageInv'
  <2>1. forcing' \in 1 .. Len(tasks) + 1 /\ invalid' \in Nat
    BY <1>0, <1>1
  <2>2. ValidationTypeOK'
    BY <1>0, <1>2, <2>1 DEF ValidationTypeOK
  <2> QED
    BY <1>f, <1>0, <1>1, <1>3, <2>2 DEF ValidationInv, StageInv, Over
<1>5. CountInv'
  <2>1. Untold' = Untold
    BY <1>0 DEF Untold
  <2>2. UntoldBad' = UntoldBad
    BY <1>0, <2>1 DEF UntoldBad
  <2>3. /\ invalid = Cardinality(BadReports) + Cardinality(UntoldBad)
        /\ valid + invalid = n + Cardinality(Untold)
        /\ Cardinality(Untold) \in Nat /\ Cardinality(UntoldBad) \in Nat
        /\ Cardinality(BadReports) \in Nat /\ n \in Nat
    BY <1>f, <1>0, CountedSets, ReportTypes DEF ValidationInv, CountInv
  <2>4. valid' + invalid' = Len(reports') + Cardinality(Untold')
    <3>1. valid' + invalid' = valid + invalid + 1
      BY <1>0
    <3>2. Len(reports') = n + 1 /\ Cardinality(Untold') = Cardinality(Untold)
      BY <1>2, <2>1
    <3> QED
      BY <2>3, <3>1, <3>2
  <2>5. invalid' = Cardinality(BadReports') + Cardinality(UntoldBad')
    BY <1>0, <1>2, <2>2, <2>3
  <2> QED
    BY <2>4, <2>5 DEF CountInv
<1>6. ASSUME shifts = vshifts
      PROVE  /\ phase[f] = "pending" /\ GradeAt(f) = "invalid"
             /\ \A k \in DOMAIN reports : reports[k].task \in 1 .. Len(tasks) /\ reports[k].task # f
  <2>1. Forced /\ \A k \in DOMAIN reports : ReportPlaced(k)
    BY <1>6 DEF ValidationInv, SpotInv
  <2>2. phase[f] = "pending" /\ GradeAt(f) = "invalid"
    BY <1>f, <1>0, <2>1 DEF Forced
  <2>3. \A k \in DOMAIN reports : reports[k].task \in 1 .. Len(tasks)
    BY <1>0, ReportTypes
  <2>4. \A k \in DOMAIN reports : reports[k].task # f
    <3> TAKE k \in DOMAIN reports
    <3>1. ReportPlaced(k) /\ reports[k].task \in 1 .. Len(tasks)
      BY <2>1, <2>3
    <3> QED
      BY <1>f, <1>0, <2>2, <3>1 DEF ReportPlaced
  <2> QED
    BY <2>2, <2>3, <2>4
<1>7. SpotInv'
  <2> SUFFICES ASSUME shifts = vshifts PROVE SpotInv'
    BY <1>0 DEF SpotInv
  <2>1. /\ \A j \in DOMAIN tasks : TaskPlaced(j)
        /\ \A k \in DOMAIN reports : ReportPlaced(k)
        /\ ReportedOnce
    BY DEF ValidationInv, SpotInv
  <2>2. \A j \in DOMAIN tasks : Spot(j)' = Spot(j) /\ GradeAt(j)' = GradeAt(j)
    BY <1>0 DEF Spot, GradeAt
  <2>3. \A j \in DOMAIN tasks : TaskPlaced(j)'
    <3> TAKE j \in DOMAIN tasks
    <3>1. TaskPlaced(j) /\ Spot(j)' = Spot(j) /\ GradeAt(j)' = GradeAt(j)
      BY <2>1, <2>2
    <3>2. j < forcing' => j < f \/ j = f
      BY <1>0, <1>1
    <3>3. j < forcing' => GradeAt(j) # "unknown"
      BY <1>f, <1>0, <1>6, <3>1, <3>2 DEF TaskPlaced, Over
    <3> QED
      BY <1>0, <3>1, <3>3 DEF TaskPlaced
  <2>4. \A k \in DOMAIN reports' : ReportPlaced(k)'
    <3> TAKE k \in DOMAIN reports'
    <3>1. CASE k \in DOMAIN reports
      <4>1. reports[k].task \in 1 .. Len(tasks) /\ ReportPlaced(k)
        BY <1>6, <2>1, <3>1
      <4>2. reports[k].task < f => reports[k].task < forcing'
        BY <1>0, <4>1
      <4> QED
        BY <1>f, <1>0, <1>2, <2>2, <3>1, <4>1, <4>2 DEF ReportPlaced
    <3>2. CASE k = n + 1
      <4>1. f < forcing' /\ GradeAt(f)' = "invalid"
        BY <1>0, <1>1, <1>6, <2>2
      <4> QED
        BY <1>0, <1>2, <1>6, <3>2, <4>1 DEF ReportPlaced
    <3> QED
      BY <1>2, <3>1, <3>2
  <2>5. ReportedOnce'
    BY <1>2, <1>6, <2>1 DEF ReportedOnce
  <2> QED
    BY <1>0, <2>3, <2>4, <2>5 DEF SpotInv, Forced
<1>8. GradedInv'
  <2> SUFFICES ASSUME shifts = vshifts, ~overlap PROVE GradedInv'
    BY <1>0 DEF GradedInv
  <2>1. /\ \A j \in DOMAIN tasks : phase[j] \in {"stored", "done"} => RowOf(j, verdict[j])
        /\ \A k \in DOMAIN reports : RowOf(reports[k].task, reports[k].grade)
    BY DEF ValidationInv, GradedInv
  <2>2. \A j \in DOMAIN tasks : j # f => \A g : RowOf(j, g) => RowOf(j, g)'
    <3>1. \A j \in DOMAIN tasks : j # f => tasks[j].url # tasks[f].url
      BY <1>1, TasksApart
    <3> QED
      BY <1>0, <3>1 DEF RowOf, RowGraded
  <2>3. RowOf(f, "invalid")'
    BY <1>f, <1>0 DEF RowOf, RowGraded
  <2>4. \A j \in DOMAIN tasks : phase[j] \in {"stored", "done"} => RowOf(j, verdict[j])'
    BY <1>0, <1>6, <2>1, <2>2 DEF RowOf
  <2>5. \A k \in DOMAIN reports' : RowOf(reports[k].task, reports[k].grade)'
    <3> TAKE k \in DOMAIN reports'
    <3>1. PICK j, g : j = reports'[k].task /\ g = reports'[k].grade
      OBVIOUS
    <3>2. RowOf(j, g)'
      <4>1. CASE k \in DOMAIN reports
        <5>1. reports[k].task \in DOMAIN tasks /\ reports[k].task # f /\ RowOf(reports[k].task, reports[k].grade)
          BY <1>0, <1>6, <2>1, <4>1
        <5>2. reports[k].task = j /\ reports[k].grade = g
          BY <1>2, <3>1, <4>1
        <5>3. j \in DOMAIN tasks /\ j # f /\ RowOf(j, g)
          BY <5>1, <5>2
        <5> QED
          BY <2>2, <5>3
      <4>2. CASE k = n + 1
        BY <1>2, <2>3, <3>1, <4>2
      <4> QED
        BY <1>2, <4>1, <4>2
    <3> QED
      BY <3>1, <3>2 DEF RowOf
  <2> QED
    BY <1>0, <2>4, <2>5 DEF GradedInv, RowOf
<1> QED
  BY <1>4, <1>5, <1>7, <1>8 DEF ValidationInv

\* Every step of a validation.
LEMMA StepValidation ==
  ASSUME ListInv, ListInv', RowInv, TempInv, ValidationInv, ValidationNext
  PROVE  ValidationInv'
  BY StartKeeps, MoveKeeps, GradeKeeps, CommitListKeeps, CommitRowKeeps, ReportKeeps,
     ForceListKeeps, ForceRowKeeps DEF ValidationNext, Work

\* At the start.
LEMMA InitValidation == ListBegins /\ ValidationInit => ValidationInv
<1> SUFFICES ASSUME NEW w \in [Kinds -> Nat], ListStart(w), ValidationInit PROVE ValidationInv
  BY DEF ListBegins
<1>1. /\ vpc = "idle" /\ tasks = <<>> /\ phase = <<>> /\ verdict = <<>>
      /\ forcing = 1 /\ valid = 0 /\ invalid = 0 /\ reports = <<>>
      /\ cut = FALSE /\ vshifts = 0 /\ shifts = 0
  BY DEF ValidationInit, ListStart
<1>2. DOMAIN tasks = {} /\ DOMAIN reports = {} /\ Len(tasks) = 0 /\ Len(reports) = 0
  BY <1>1
<1>3. ValidationTypeOK
  <2>1. phase \in [DOMAIN tasks -> Phases] /\ verdict \in [DOMAIN tasks -> Grades]
    BY <1>1
  <2>2. /\ tasks \in Seq([index : Nat, url : Urls \union {Temp}])
        /\ reports \in Seq([task : DOMAIN tasks, grade : Grades])
    BY <1>1
  <2>3. /\ forcing \in 1 .. Len(tasks) + 1 /\ vpc \in {"idle", "running", "force", "forcerow", "ended"}
        /\ valid \in Nat /\ invalid \in Nat /\ vshifts \in Nat
    BY <1>1, <1>2
  <2>4. cut \in BOOLEAN
    BY <1>1
  <2> QED
    BY <2>1, <2>2, <2>3, <2>4 DEF ValidationTypeOK
<1>4. StageInv
  BY <1>1, <1>2, <1>3 DEF StageInv, Over
<1>5. CountInv
  <2>1. Untold = {} /\ BadReports = {}
    BY <1>2 DEF Untold, BadReports
  <2>2. UntoldBad = {}
    BY <2>1 DEF UntoldBad
  <2> QED
    BY <1>1, <1>2, <2>1, <2>2, FS_EmptySet DEF CountInv
<1>6. SpotInv /\ GradedInv
  BY <1>1, <1>2 DEF SpotInv, GradedInv, ReportedOnce, Forced
<1> QED
  BY <1>4, <1>5, <1>6 DEF ValidationInv

-----------------------------------------------------------------------------
(* A streamed search, step by step. *)

\* The sources of a list that are searched.
LEMMA HitsFinite ==
  ASSUME NEW list \in Seq(Sources), NEW asked
  PROVE  IsFiniteSet(HitsOf(list, asked)) /\ Cardinality(HitsOf(list, asked)) \in Nat
<1>1. DOMAIN list = 1 .. Len(list) /\ Len(list) \in Nat
  BY LenProperties
<1>2. IsFiniteSet(DOMAIN list)
  BY <1>1, FS_Interval
<1>3. HitsOf(list, asked) \in SUBSET DOMAIN list
  BY DEF HitsOf
<1> QED
  BY <1>2, <1>3, FS_Subset, FS_CardinalityType

\* The route expects no more than the engine searches, unless a name is asked for twice.
LEMMA ExpectedHits ==
  ASSUME NEW list \in Seq(Sources), NEW asked \in Seq(Names)
  PROVE  /\ CountExpected(list, asked) \in Nat
         /\ (\A k, l \in DOMAIN asked : asked[k] = asked[l] => k = l)
              => CountExpected(list, asked) <= Cardinality(HitsOf(list, asked))
<1> DEFINE Wanted == {k \in DOMAIN asked : \E s \in ToSet(list) : s.name = asked[k] /\ s.searchable}
           Has(k, i) == list[i].name = asked[k] /\ list[i].searchable
           pick == [k \in Wanted |-> CHOOSE i \in DOMAIN list : Has(k, i)]
<1>1. IsFiniteSet(HitsOf(list, asked)) /\ Cardinality(HitsOf(list, asked)) \in Nat
  BY HitsFinite
<1>2. CASE asked = <<>>
  <2>1. CountExpected(list, asked) = Cardinality(HitsOf(list, asked))
    BY <1>2 DEF CountExpected, HitsOf
  <2> QED
    BY <1>1, <2>1
<1>3. CASE asked # <<>>
  <2>1. CountExpected(list, asked) = Cardinality(Wanted)
    BY <1>3 DEF CountExpected
  <2>2. DOMAIN asked = 1 .. Len(asked) /\ Len(asked) \in Nat
    BY LenProperties
  <2>3. IsFiniteSet(Wanted) /\ Cardinality(Wanted) \in Nat
    <3>1. IsFiniteSet(DOMAIN asked)
      BY <2>2, FS_Interval
    <3>2. Wanted \in SUBSET DOMAIN asked
      OBVIOUS
    <3> HIDE DEF Wanted
    <3> QED
      BY <3>1, <3>2, FS_Subset, FS_CardinalityType
  <2>4. ASSUME \A k, l \in DOMAIN asked : asked[k] = asked[l] => k = l
        PROVE  Cardinality(Wanted) <= Cardinality(HitsOf(list, asked))
    <3>1. \A k \in Wanted : \E i \in DOMAIN list : Has(k, i)
      BY DEF ToSet
    <3>2. \A k \in Wanted : pick[k] \in DOMAIN list /\ Has(k, pick[k])
      BY <3>1
    <3>3. \A k \in Wanted : k \in DOMAIN asked
      OBVIOUS
    <3>4. DOMAIN pick = Wanted
      OBVIOUS
    <3>5. \A k \in Wanted : pick[k] \in HitsOf(list, asked)
      <4> TAKE k \in Wanted
      <4>1. pick[k] \in DOMAIN list /\ list[pick[k]].searchable /\ list[pick[k]].name = asked[k]
        BY <3>2
      <4> HIDE DEF pick, Wanted
      <4>2. list[pick[k]].name \in ToSet(asked)
        BY <3>3, <4>1 DEF ToSet
      <4> QED
        BY <1>3, <4>1, <4>2 DEF HitsOf, Searched
    <3>6. \A k, l \in Wanted : pick[k] = pick[l] => k = l
      <4> TAKE k, l \in Wanted
      <4> HAVE pick[k] = pick[l]
      <4>1. list[pick[k]].name = asked[k] /\ list[pick[l]].name = asked[l]
        BY <3>2
      <4> HIDE DEF pick
      <4> QED
        BY <2>4, <3>3, <4>1
    <3>7. pick \in [Wanted -> HitsOf(list, asked)]
      <4> HIDE DEF Wanted, Has
      <4> QED
        BY <3>5
    <3> HIDE DEF pick, Wanted
    <3>8. pick \in Injection(Wanted, HitsOf(list, asked))
      BY <3>4, <3>6, <3>7 DEF Injection, IsInjective
    <3> QED
      BY <1>1, <3>8, FS_Injection
  <2> HIDE DEF Wanted
  <2> QED
    BY <2>1, <2>3, <2>4
<1> QED
  BY <1>2, <1>3

\* What the type invariant says of a stream.
LEMMA StreamTypes ==
  ASSUME StreamInv
  PROVE  /\ answered \in Nat /\ expected \in Nat /\ names \in Seq(Names) /\ snap \in Seq(Sources)
         /\ IsFiniteSet(waiting) /\ IsFiniteSet(active)
         /\ Cardinality(waiting) \in Nat /\ Cardinality(active) \in Nat
         /\ events \in Seq([of : Urls, url : Urls \union {Temp, "none"}])
         /\ Len(events) \in Nat /\ DOMAIN events = 1 .. Len(events)
<1>1. StreamTypeOK /\ IsFiniteSet(waiting) /\ IsFiniteSet(active)
  BY DEF StreamInv
<1>2. events \in Seq([of : Urls, url : Urls \union {Temp, "none"}])
  BY <1>1 DEF StreamTypeOK
<1>3. Len(events) \in Nat /\ DOMAIN events = 1 .. Len(events)
  BY <1>2, LenProperties
<1>4. Cardinality(waiting) \in Nat /\ Cardinality(active) \in Nat
  BY <1>1, FS_CardinalityType
<1> QED
  BY <1>1, <1>2, <1>3, <1>4 DEF StreamTypeOK

\* A stream is a matter of its own variables.
LEMMA StreamFrame == StreamInv /\ UNCHANGED streamVars => StreamInv'
<1> SUFFICES ASSUME StreamInv, UNCHANGED streamVars PROVE StreamInv'
  OBVIOUS
<1>0. UNCHANGED <<spc, names, snap, expected, waiting, active, events, answered, late, steady>>
  BY DEF streamVars
<1>1. StreamTypeOK'
  BY <1>0 DEF StreamInv, StreamTypeOK
<1> QED
  BY <1>0, <1>1 DEF StreamInv, Twice

\* The route reads the list.
LEMMA StreamStartKeeps == ASSUME ListInv, StreamInv, StreamStart PROVE StreamInv'
<1>0. /\ spc = "idle" /\ names' \in Requested /\ snap' = sources
      /\ expected' = CountExpected(sources, names')
      /\ spc' = IF expected' = 0 THEN "ended" ELSE "collect"
      /\ UNCHANGED <<waiting, active, events, answered, late, steady>>
      /\ sources \in Seq(Sources)
  BY DEF StreamStart, ListInv, Types, ListTypeOK
<1>1. /\ names' \in Seq(Names) /\ snap' \in Seq(Sources)
  BY <1>0, StreamConstants
<1>2. expected' \in Nat
  BY <1>0, <1>1, ExpectedHits
<1>3. /\ waiting = {} /\ active = {} /\ steady /\ ~late /\ events = <<>> /\ answered = 0
  BY <1>0 DEF StreamInv
<1>4. spc' \in {"ended", "collect"}
  BY <1>0
<1>5. StreamTypeOK'
  BY <1>0, <1>1, <1>2, <1>4 DEF StreamInv, StreamTypeOK
<1>6. expected' = CountExpected(snap', names')
  BY <1>0
<1>7. Len(events') = answered' /\ DOMAIN events = {}
  BY <1>0, <1>3
<1> QED
  BY <1>0, <1>3, <1>4, <1>5, <1>6, <1>7 DEF StreamInv, Twice

\* The engine reads it again and collects its tasks.
LEMMA CollectKeeps == ASSUME ListInv, TempInv, StreamInv, Collect PROVE StreamInv'
<1> DEFINE Hits == HitsOf(sources, names)
           Of(i) == [index |-> i - 1, url |-> sources[i].url, rank |-> Rank[sources[i].grade]]
           of == [i \in Hits |-> Of(i)]
<1>0. /\ spc = "collect" /\ waiting' = {Of(i) : i \in Hits}
      /\ steady' = (sources = snap)
      /\ spc' = IF waiting' = {} THEN "wait" ELSE "running"
      /\ UNCHANGED <<names, snap, expected, active, events, answered, late>>
      /\ sources \in Seq(Sources) /\ active = {} /\ ~late /\ events = <<>> /\ answered = 0
      /\ expected = CountExpected(snap, names)
  BY DEF Collect, ListInv, Types, ListTypeOK, StreamInv, HitsOf
<1>1. DOMAIN sources = 1 .. Len(sources) /\ Len(sources) \in Nat
  BY <1>0, LenProperties
<1>2. \A i \in Hits : /\ i \in 1 .. Len(sources) /\ sources[i].url \in Urls /\ Rank[sources[i].grade] \in 0 .. 3
                      /\ i - 1 \in Nat /\ i - 1 < Len(sources) /\ (i - 1) + 1 = i
  <2> TAKE i \in Hits
  <2>1. i \in 1 .. Len(sources) /\ sources[i].searchable
    BY <1>1 DEF HitsOf, Searched
  <2>2. sources[i] \in Sources
    BY <1>0, <2>1, ElementOfSeq
  <2>3. sources[i].url \in Urls
    BY <2>1, <2>2 DEF TempInv, Sources
  <2>4. sources[i].grade \in Grades
    BY <2>2 DEF Sources
  <2>5. \A g \in Grades : Rank[g] \in 0 .. 3
    BY DEF Rank, Grades
  <2> QED
    BY <1>1, <2>1, <2>3, <2>4, <2>5
<1>3. IsFiniteSet(Hits) /\ Cardinality(Hits) \in Nat
  BY <1>0, HitsFinite
<1>4. waiting' \subseteq [index : Nat, url : Urls, rank : 0 .. 3]
  BY <1>0, <1>2
<1>5. /\ \A x \in waiting' : x.index < Len(sources) /\ x.url = sources[x.index + 1].url
  <2> SUFFICES ASSUME NEW i \in Hits
               PROVE  Of(i).index < Len(sources) /\ Of(i).url = sources[Of(i).index + 1].url
    BY <1>0
  <2> QED
    BY <1>2
<1>6. IsFiniteSet(waiting') /\ Cardinality(waiting') = Cardinality(Hits)
  <2>1. of \in Surjection(Hits, waiting')
    <3>1. of \in [Hits -> waiting']
      BY <1>0
    <3>2. \A x \in waiting' : \E i \in Hits : of[i] = x
      BY <1>0
    <3> HIDE DEF of, Hits
    <3> QED
      BY <3>1, <3>2 DEF Surjection
  <2>2. of \in Injection(Hits, waiting')
    <3>1. \A i \in Hits : of[i].index = i - 1 /\ i \in Nat
      BY <1>2
    <3>2. \A i, j \in Hits : of[i] = of[j] => i = j
      <4> TAKE i, j \in Hits
      <4>1. of[i].index = i - 1 /\ of[j].index = j - 1 /\ i \in Nat /\ j \in Nat
        BY <3>1
      <4> HIDE DEF of
      <4> QED
        BY <4>1
    <3>3. DOMAIN of = Hits /\ of \in [Hits -> waiting']
      BY <1>0
    <3> HIDE DEF of, Hits
    <3> QED
      BY <3>2, <3>3 DEF Injection, IsInjective
  <2> HIDE DEF of, Hits
  <2> QED
    BY <1>3, <2>1, <2>2, FS_Surjection
<1> HIDE DEF Hits, Of, of
<1>7. spc' \in {"wait", "running"} /\ (spc' = "wait" => waiting' = {})
  BY <1>0
<1>8. StreamTypeOK'
  <2>1. steady' \in BOOLEAN
    BY <1>0
  <2> QED
    BY <1>0, <1>4, <1>7, <2>1 DEF StreamInv, StreamTypeOK
<1>9. Len(events') = answered' /\ DOMAIN events' = {}
  BY <1>0
<1>10. steady' => answered' + Cardinality(waiting') + Cardinality(active')
                    = Cardinality(HitsOf(snap', names'))
  <2>1. Cardinality(active') = 0
    BY <1>0, FS_EmptySet
  <2>2. steady' => HitsOf(snap', names') = Hits
    BY <1>0, Zenon DEF Hits
  <2>3. answered' = 0 /\ Cardinality(waiting') = Cardinality(Hits) /\ Cardinality(Hits) \in Nat
    BY <1>0, <1>3, <1>6
  <2> QED
    BY <2>1, <2>2, <2>3
<1>11. IsFiniteSet(active')
  BY <1>0, FS_EmptySet
<1>12. steady' => \A x \in waiting' : x.index < Len(snap') /\ x.url = snap'[x.index + 1].url
  BY <1>0, <1>5
<1> QED
  BY <1>0, <1>6, <1>7, <1>8, <1>9, <1>10, <1>11, <1>12 DEF StreamInv, Twice

\* A worker takes a source.
LEMMA StreamClaimKeeps == ASSUME StreamInv, StreamClaim PROVE StreamInv'
<1>1. PICK x \in waiting : waiting' = waiting \ {x} /\ active' = active \union {x}
  BY DEF StreamClaim
<1>0. /\ spc = "running" /\ UNCHANGED <<spc, names, snap, expected, events, answered, late, steady>>
      /\ waiting \intersect active = {} /\ StreamTypeOK
  BY DEF StreamClaim, StreamInv
<1>2. /\ IsFiniteSet(waiting') /\ IsFiniteSet(active')
      /\ Cardinality(waiting') = Cardinality(waiting) - 1
      /\ Cardinality(active') = Cardinality(active) + 1
  <2>1. x \in waiting /\ x \notin active
    BY <1>0
  <2> QED
    BY <1>1, <2>1, StreamTypes, FS_AddElement, FS_RemoveElement
<1>3. /\ waiting' \intersect active' = {} /\ waiting' \union active' = waiting \union active
      /\ waiting' \subseteq waiting /\ active' \subseteq waiting \union active
  BY <1>0, <1>1
<1>4. StreamTypeOK'
  BY <1>0, <1>3 DEF StreamTypeOK
<1>5. answered' + Cardinality(waiting') + Cardinality(active')
        = answered + Cardinality(waiting) + Cardinality(active)
  BY <1>0, <1>2, StreamTypes
<1> QED
  BY <1>0, <1>2, <1>3, <1>4, <1>5 DEF StreamInv, Twice

\* A source has been searched.
LEMMA StreamAnswerKeeps == ASSUME StreamInv, StreamAnswer PROVE StreamInv'
<1>1. PICK x \in active : /\ active' = active \ {x}
                          /\ events' = Append(events, [of |-> x.url, url |-> Label(x.index)])
  BY DEF StreamAnswer
<1>0. /\ spc = "running" /\ answered' = answered + 1
      /\ UNCHANGED <<spc, names, snap, expected, waiting, late, steady>>
      /\ StreamTypeOK /\ waiting \intersect active = {} /\ Len(events) = answered
  BY DEF StreamAnswer, StreamInv
<1>2. x.index \in Nat /\ x.url \in Urls
  BY <1>0 DEF StreamTypeOK
<1>3. Label(x.index) \in Urls \union {Temp, "none"}
  <2>1. CASE x.index < Len(snap)
    <3>1. x.index + 1 \in 1 .. Len(snap) /\ snap \in Seq(Sources)
      BY <1>2, <2>1, StreamTypes
    <3>2. snap[x.index + 1] \in Sources
      BY <3>1, ElementOfSeq
    <3> QED
      BY <2>1, <3>2 DEF Label, Sources
  <2> QED
    BY <2>1 DEF Label
<1> DEFINE e == [of |-> x.url, url |-> Label(x.index)]
<1>4. e \in [of : Urls, url : Urls \union {Temp, "none"}] /\ e.of = x.url /\ e.url = Label(x.index)
  BY <1>2, <1>3
<1>5. events' = Append(events, e)
  BY <1>1
<1> HIDE DEF e
<1>6. /\ events' \in Seq([of : Urls, url : Urls \union {Temp, "none"}])
      /\ Len(events') = Len(events) + 1
      /\ DOMAIN events' = 1 .. Len(events) + 1
      /\ events'[Len(events) + 1] = e
      /\ \A k \in DOMAIN events : events'[k] = events[k]
  BY <1>4, <1>5, StreamTypes, AppendProperties
<1>7. /\ IsFiniteSet(active') /\ Cardinality(active') = Cardinality(active) - 1
      /\ active' \subseteq active
  BY <1>1, StreamTypes, FS_RemoveElement
<1>8. StreamTypeOK'
  <2>1. answered' \in Nat /\ active' \subseteq [index : Nat, url : Urls, rank : 0 .. 3]
    BY <1>0, <1>7 DEF StreamTypeOK
  <2> QED
    BY <1>0, <1>6, <2>1 DEF StreamTypeOK
<1>9. steady => e.url = e.of
  <2>1. steady => x.index < Len(snap) /\ x.url = snap[x.index + 1].url
    BY DEF StreamInv
  <2> QED
    BY <1>4, <2>1 DEF Label
<1>10. steady' => \A k \in DOMAIN events' : events'[k].url = events'[k].of
  <2> SUFFICES ASSUME steady', NEW k \in DOMAIN events' PROVE events'[k].url = events'[k].of
    OBVIOUS
  <2>1. k \in DOMAIN events \/ k = Len(events) + 1
    BY <1>6, StreamTypes
  <2>2. \A l \in DOMAIN events : events[l].url = events[l].of
    BY <1>0 DEF StreamInv
  <2> QED
    BY <1>0, <1>6, <1>9, <2>1, <2>2
<1>11. answered' + Cardinality(waiting') + Cardinality(active')
        = answered + Cardinality(waiting) + Cardinality(active)
  BY <1>0, <1>7, StreamTypes
<1>12. Len(events') = answered'
  BY <1>0, <1>6
<1>13. waiting' \intersect active' = {} /\ IsFiniteSet(waiting')
  BY <1>0, <1>7 DEF StreamInv
<1>14. steady' => \A y \in waiting' \union active' : y.index < Len(snap') /\ y.url = snap'[y.index + 1].url
  BY <1>0, <1>7 DEF StreamInv
<1> QED
  BY <1>0, <1>7, <1>8, <1>10, <1>11, <1>12, <1>13, <1>14 DEF StreamInv, Twice

\* The search is over, and so is the stream, or it waits in vain.
LEMMA StreamEndKeeps ==
  ASSUME StreamInv, StreamDone \/ StreamEnds \/ StreamTimesOut
  PROVE  StreamInv'
<1>0. /\ UNCHANGED <<names, snap, expected, waiting, active, events, answered, steady>>
      /\ StreamTypeOK
  BY DEF StreamDone, StreamEnds, StreamTimesOut, StreamInv
<1>1. /\ spc \in {"running", "wait"} /\ spc' \in {"wait", "ended"} /\ late' \in BOOLEAN
      /\ spc' # "ended" => spc = "running"
      /\ waiting = {} /\ active = {}
      /\ late' => late \/ (spc = "wait" /\ answered < expected)
  <2>1. CASE StreamDone
    BY <1>0, <2>1 DEF StreamDone, StreamTypeOK
  <2>2. CASE StreamEnds
    BY <1>0, <2>2 DEF StreamEnds, StreamInv, StreamTypeOK
  <2>3. CASE StreamTimesOut
    BY <1>0, <2>3 DEF StreamTimesOut, StreamInv
  <2> QED
    BY <2>1, <2>2, <2>3
<1>2. StreamTypeOK'
  BY <1>0, <1>1 DEF StreamTypeOK
<1>3. late' => ~steady' \/ Twice'
  <2> SUFFICES ASSUME spc = "wait", answered < expected, steady, ~Twice PROVE FALSE
    BY <1>0, <1>1 DEF StreamInv, Twice
  <2>1. answered + Cardinality(waiting) + Cardinality(active) = Cardinality(HitsOf(snap, names))
    BY DEF StreamInv
  <2>2. Cardinality(waiting) = 0 /\ Cardinality(active) = 0
    BY <1>1, FS_EmptySet
  <2>3. \A k, l \in DOMAIN names : names[k] = names[l] => k = l
    BY DEF Twice
  <2>4. CountExpected(snap, names) <= Cardinality(HitsOf(snap, names))
    BY <2>3, StreamTypes, ExpectedHits
  <2>5. expected = CountExpected(snap, names)
    BY DEF StreamInv
  <2>6. answered = Cardinality(HitsOf(snap, names))
    BY <2>1, <2>2, StreamTypes
  <2> QED
    BY <2>4, <2>5, <2>6, StreamTypes
<1> QED
  BY <1>0, <1>1, <1>2, <1>3 DEF StreamInv

\* Every step of a stream.
LEMMA StepStream == ASSUME ListInv, TempInv, StreamInv, StreamNext PROVE StreamInv'
  BY StreamStartKeeps, CollectKeeps, StreamClaimKeeps, StreamAnswerKeeps, StreamEndKeeps DEF StreamNext

\* At the start.
LEMMA InitStream == StreamInit => StreamInv
<1> SUFFICES ASSUME StreamInit PROVE StreamInv
  OBVIOUS
<1>1. /\ spc = "idle" /\ names = <<>> /\ snap = <<>> /\ expected = 0
      /\ waiting = {} /\ active = {} /\ events = <<>> /\ answered = 0
      /\ late = FALSE /\ steady = TRUE
  BY DEF StreamInit
<1>2. DOMAIN events = {} /\ Len(events) = 0
  BY <1>1
<1>3. /\ names \in Seq(Names) /\ snap \in Seq(Sources)
      /\ events \in Seq([of : Urls, url : Urls \union {Temp, "none"}])
  BY <1>1
<1>4. StreamTypeOK
  BY <1>1, <1>3 DEF StreamTypeOK
<1> QED
  BY <1>1, <1>2, <1>4, FS_EmptySet DEF StreamInv

-----------------------------------------------------------------------------
(* The list, a validation and a stream together. *)

ListServiceInv == ListInv /\ TempInv /\ RowInv /\ ValidationInv /\ StreamInv

\* At the start.
LEMMA ListServiceStarts ==
  ASSUME ListBegins, ValidationInit, StreamInit
  PROVE  ListServiceInv
<1>1. ListInv
  BY InitTypes, InitFetch, InitShape DEF ListInv
<1> QED
  BY <1>1, InitRows, InitValidation, InitStream DEF ListServiceInv

LEMMA InitListService == ListServiceInit => ListServiceInv
<1> SUFFICES ASSUME ListInit, ValidationInit, StreamInit PROVE ListServiceInv
  BY DEF ListServiceInit
<1>1. ListBegins
  BY ListConstants DEF ListInit, ListBegins
<1> QED
  BY <1>1, ListServiceStarts

\* Every step of the three.
LEMMA StepListService ==
  ListServiceInv /\ [ListServiceNext]_listServiceVars => ListServiceInv'
<1> SUFFICES ASSUME ListInv, TempInv, RowInv, ValidationInv, StreamInv,
                    [ListServiceNext]_listServiceVars
             PROVE  ListServiceInv'
  BY DEF ListServiceInv
<1>1. CASE [ListNext]_listVars /\ UNCHANGED <<validationVars, streamVars>>
  <2>1. ListInv'
    BY <1>1, StepTypes, StepLock, StepFetch, StepShape DEF ListInv
  <2>2. RowInv'
    BY <1>1, StepRows DEF ListInv
  <2>3. TempInv' /\ PlacesKept /\ RowsKept /\ shifts <= shifts' /\ (overlap => overlap')
    BY <1>1, ListFrame DEF ListInv
  <2>4. ValidationInv' /\ StreamInv'
    BY <1>1, <2>1, <2>3, ValidationFrame, StreamFrame
  <2> QED
    BY <2>1, <2>2, <2>3, <2>4 DEF ListServiceInv
<1>2. CASE ValidationNext /\ UNCHANGED streamVars
  <2>1. ListInv' /\ RowInv' /\ TempInv'
    BY <1>2, ValidationGrades, StageTypes, GradesFrame
  <2>2. ValidationInv' /\ StreamInv'
    BY <1>2, <2>1, StepValidation, StreamFrame
  <2> QED
    BY <2>1, <2>2 DEF ListServiceInv
<1>3. CASE StreamNext /\ UNCHANGED validationVars
  <2>1. GradesOnly /\ UNCHANGED <<sources, table>>
    BY <1>3, StreamGrades
  <2>2. ListInv' /\ RowInv' /\ TempInv'
    BY <2>1, GradesFrame
  <2>3. PlacesKept /\ RowsKept /\ shifts <= shifts' /\ (overlap => overlap')
    <3>1. shifts' = shifts /\ overlap' = overlap /\ shifts \in Nat /\ Len(sources) \in Nat
      BY <2>1 DEF GradesOnly, listRest, history, ListInv, Types, ListTypeOK
    <3> QED
      BY <2>1, <3>1 DEF PlacesKept, RowsKept
  <2>4. ValidationInv' /\ StreamInv'
    BY <1>3, <2>2, <2>3, ValidationFrame, StepStream
  <2> QED
    BY <2>2, <2>4 DEF ListServiceInv
<1> QED
  BY <1>1, <1>2, <1>3 DEF ListServiceNext, listServiceVars

\* The inductive invariant of the three.
LEMMA ListServiceInvariant == ListServiceSpec => []ListServiceInv
  BY InitListService, StepListService, PTL DEF ListServiceSpec

LEMMA ListsTyped == ListServiceInv => ListTypeOK /\ ValidationTypeOK /\ StreamTypeOK
  BY DEF ListServiceInv, ListInv, Types, ValidationInv, StageInv, StreamInv

\* The types of list, validation and stream.
THEOREM ListTypeCorrect == ListServiceSpec => [](ListTypeOK /\ ValidationTypeOK /\ StreamTypeOK)
  BY ListsTyped, ListServiceInvariant, PTL

\* What FetchInv says of a request under the lock is the property.
LEMMA FetchesDirected == ListServiceInv => FetchedFromRequested
  BY DEF ListServiceInv, ListInv, FetchedFromRequested, FetchInv

\* What a request under the lock fetches, it fetches from the source it was asked for
\* (engine_core.cpp:1140, 886), unless the list or the index is written meanwhile.
THEOREM FetchesAreDirected == ListServiceSpec => []FetchedFromRequested
  BY FetchesDirected, ListServiceInvariant, PTL

\* The index is within the list: that of the selection, of the switch, or of the temporary source.
LEMMA SelectionStays == ListServiceInv => SelectionInRange
<1> SUFFICES ASSUME ListServiceInv, Quiet, ~touched, ~overlap, ~swept, sources # <<>>
             PROVE  InRange(cur)
  BY DEF SelectionInRange
<1>0. /\ cur \in Nat /\ Len(sources) \in Nat \ {0} /\ holder \in Threads \union {Nobody}
  BY EmptySeq DEF ListServiceInv, ListInv, Types, ListTypeOK
<1>1. \A t \in Threads : pc[t] # "sweep"
  BY DEF Quiet, Editing
<1>2. WithinList(LeftWith, Own) /\ \A t \in Threads : pc[t] \in AtCatalog => WithinList(cur, sources)
  BY <1>1 DEF ListServiceInv, ListInv, ShapeInv, RangeInv, Settled
<1>3. CASE holder = Nobody
  BY <1>0, <1>2, <1>3, FreeMeansOwn DEF ListServiceInv, WithinList, InRange
<1>4. CASE holder # Nobody /\ pc[holder] \in AtCatalog
  BY <1>0, <1>2, <1>4 DEF WithinList, InRange
<1>5. CASE holder # Nobody /\ pc[holder] \in AtArticle
  <2>1. cur = Len(sources) - 1
    BY <1>0, <1>5 DEF ListServiceInv, ListInv, FetchInv
  <2> QED
    BY <1>0, <2>1 DEF InRange
<1> QED
  BY <1>3, <1>4, <1>5 DEF ListServiceInv, ListInv, LockInv

\* The index of the selected source stays in the list through removals, imports, switches
\* and temporary sources (engine_core.cpp:221, 251), up to what the property excepts.
THEOREM SelectionHolds == ListServiceSpec => []SelectionInRange
  BY SelectionStays, ListServiceInvariant, PTL

\* While the lock is free, the list is its own and the selection the one left.
LEMMA TraceGone == ListServiceInv => LockedRequestsLeaveNoTrace
  BY FreeMeansOwn DEF ListServiceInv, ListInv, ShapeInv, TraceInv, Settled, LockedRequestsLeaveNoTrace

\* A request under engineMutex gives list and selection back as it found them, also after
\* an exception (engine_core.cpp:1140, 886), unless they were written without the lock.
THEOREM LockLeavesNoTrace == ListServiceSpec => []LockedRequestsLeaveNoTrace
  BY TraceGone, ListServiceInvariant, PTL

\* Without a change half done, MatchInv is the property.
LEMMA TableMatches == ListServiceInv => ListMatchesTable
<1> SUFFICES ASSUME ListServiceInv, ~touched, ~overlap, holder = Nobody, Quiet
             PROVE  /\ UrlsOf(sources) = DOMAIN table
                    /\ Cardinality(UrlsOf(sources)) = Len(sources)
  BY DEF ListMatchesTable
<1>1. Own = sources
  BY FreeMeansOwn DEF ListServiceInv
<1>2. \A t \in Threads : ~Dirty(t)
  BY DEF Quiet, Editing, Dirty
<1>3. UrlsOf(sources) = DOMAIN table /\ UrlsDiffer(sources)
  BY <1>1, <1>2 DEF ListServiceInv, ListInv, ShapeInv, MatchInv, Settled
<1>4. sources \in Seq(Sources)
  BY DEF ListServiceInv, ListInv, Types, ListTypeOK
<1> QED
  BY <1>3, <1>4, DistinctCardinality

\* The list and the table hold the same sources, each once, between two changes
\* (engine_core.cpp:128, 217, 255), unless two requests make changes at once.
THEOREM TableAgrees == ListServiceSpec => []ListMatchesTable
  BY TableMatches, ListServiceInvariant, PTL

\* At its end, nothing of a validation is untold.
LEMMA ReportsAgree == ListServiceInv => ReportsAreTrue
<1> SUFFICES ASSUME ListInv, ValidationInv, vpc = "ended" PROVE ReportsAreTrue
  BY DEF ListServiceInv, ReportsAreTrue, ReportedGradeIsStored, CountsAreReports
<1>0. /\ ValidationTypeOK /\ DOMAIN tasks = 1 .. Len(tasks) /\ Len(tasks) \in Nat
  BY StageTypes, TaskTypes
<1>1. /\ \A i \in DOMAIN tasks : phase[i] \in {"pending", "done"}
      /\ \A i \in DOMAIN tasks : phase[i] = "done" \/ i < forcing
      /\ \A i \in DOMAIN tasks : phase[i] = "done" => verdict[i] \in Outcomes
  BY DEF ValidationInv, StageInv, Over
<1>2. CountsAreReports
  <2>1. Untold = {}
    BY <1>1 DEF Untold
  <2>2. UntoldBad = {}
    BY <2>1 DEF UntoldBad
  <2>3. Cardinality(Untold) = 0 /\ Cardinality(UntoldBad) = 0
    BY <2>1, <2>2, FS_EmptySet
  <2>4. invalid = Cardinality(BadReports) /\ valid + invalid = Len(reports)
    <3>1. /\ invalid = Cardinality(BadReports) + Cardinality(UntoldBad)
          /\ valid + invalid = Len(reports) + Cardinality(Untold)
          /\ Cardinality(BadReports) \in Nat /\ Len(reports) \in Nat
      BY <1>0, CountedSets, ReportTypes DEF ValidationInv, CountInv
    <3> QED
      BY <2>3, <3>1
  <2> QED
    BY <2>4 DEF CountsAreReports, BadReports, ValidationInv, SpotInv, ReportedOnce
<1>3. ReportedGradeIsStored
  <2> SUFFICES ASSUME shifts = vshifts, ~overlap
               PROVE  /\ \A i \in DOMAIN tasks : sources[tasks[i].index + 1].grade # "unknown"
                      /\ \A r \in ToSet(reports) :
                            /\ sources[tasks[r.task].index + 1].grade = r.grade
                            /\ tasks[r.task].url \in DOMAIN table => table[tasks[r.task].url] = r.grade
    BY DEF ReportedGradeIsStored
  <2>1. /\ \A i \in DOMAIN tasks : TaskPlaced(i)
        /\ \A k \in DOMAIN reports : ReportPlaced(k)
        /\ \A k \in DOMAIN reports : RowOf(reports[k].task, reports[k].grade)
    BY DEF ValidationInv, SpotInv, GradedInv
  <2>2. \A i \in DOMAIN tasks : GradeAt(i) # "unknown"
    BY <1>1, <2>1, ValidationConstants DEF TaskPlaced, Over
  <2>3. \A k \in DOMAIN reports : GradeAt(reports[k].task) = reports[k].grade
    BY <2>1 DEF ReportPlaced
  <2>4. \A r \in ToSet(reports) : \E k \in DOMAIN reports : r = reports[k]
    BY DEF ToSet
  <2> QED
    BY <2>1, <2>2, <2>3, <2>4 DEF GradeAt, Spot, RowOf
<1> QED
  BY <1>2, <1>3 DEF ReportsAreTrue

\* What a validation says of the sources is what it keeps, for every list and however many
\* threads grade and change it (commitSourceResult and the final loop,
\* engine_validate.cpp:567, 747).
THEOREM ReportsHold == ListServiceSpec => []ReportsAreTrue
  BY ReportsAgree, ListServiceInvariant, PTL

\* What StreamInv says of events and counts is the property.
LEMMA StreamsAgree == ListServiceInv => StreamIsTrue
<1>1. ListServiceInv => EventsNameTheirSource
  BY DEF ListServiceInv, StreamInv, EventsNameTheirSource
<1>2. ListServiceInv => StreamNeedsNoDeadline
  BY DEF ListServiceInv, StreamInv, StreamNeedsNoDeadline, Twice
<1> QED
  BY <1>1, <1>2 DEF StreamIsTrue

\* For every list, request and number of workers, an event of a streamed search carries the
\* url of the source it is about (routes_search.cpp:86, 96), and as many sources answer as the
\* route expects (routes_search.cpp:121), each unless the list changed between the two reads
\* or a name is asked for twice.
THEOREM StreamsHold == ListServiceSpec => []StreamIsTrue
  BY StreamsAgree, ListServiceInvariant, PTL

-----------------------------------------------------------------------------
(* A search for other sources of a book. *)

At(w) == seeker[w].at
Busy(w) == At(w) \in {"searching", "answer", "offering", "counted"}
KeyOf(t, b) == <<t.name, b.url>>
Head1(w) == Head(seeker[w].books)
Fitting(t) == {b \in ToSet(t.books) : t.answers /\ Fits(b, wanted.author)}

\* Who works at what: each task at one worker, the callback at one task.
WorkersInv ==
    /\ \A w \in Seekers : Busy(w) => seeker[w].task \in 1 .. nextTask - 1
    /\ \A v, w \in Seekers : Busy(v) /\ Busy(w) /\ seeker[v].task = seeker[w].task => v = w
    /\ \A w \in Seekers : w \in mutex <=> At(w) \in {"offering", "counted"}
    /\ \A v, w \in mutex : v = w
    /\ \A w \in Seekers : At(w) = "ended" => nextTask = Len(wanted.sources) + 1
    /\ \A w \in Seekers : At(w) \in {"idle", "searching", "ended"} => seeker[w].books = <<>>
    /\ \A w \in Seekers : At(w) = "counted" => seeker[w].books # <<>>

\* At the start nothing has been done, in the end all of it.
CallInv ==
    /\ apc = "asked" => /\ nextTask = 1 /\ counted = 0 /\ found = 0 /\ errors = 0
                        /\ told = <<0, 0, 0, 0>>
    /\ apc # "running" => \A w \in Seekers : ~Busy(w)
    /\ apc \in {"told", "closed"} =>
         /\ nextTask = Len(wanted.sources) + 1
         /\ told = <<counted, found, Len(wanted.sources), errors>>

\* What fits is offered, or still to be gone through, and nothing else is.
SeenInv ==
    /\ \A w \in Seekers : At(w) \in {"answer", "offering", "counted"} =>
         /\ \A b \in ToSet(seeker[w].books) : b \in ToSet(TaskOf(w).books) /\ TaskOf(w).answers
         /\ \A b \in Fitting(TaskOf(w)) : b \in ToSet(seeker[w].books) \/ KeyOf(TaskOf(w), b) \in seen
    /\ \A i \in 1 .. nextTask - 1 :
         (\A w \in Seekers : Busy(w) => seeker[w].task # i) =>
            \A b \in Fitting(wanted.sources[i]) : KeyOf(wanted.sources[i], b) \in seen
    /\ \A k \in seen : \E i \in 1 .. Len(wanted.sources) : \E b \in Fitting(wanted.sources[i]) :
         k = KeyOf(wanted.sources[i], b)

\* A book is noted before it is offered.
OfferedKeys == {<<offered[k].name, offered[k].url>> : k \in DOMAIN offered}
Noted == {w \in Seekers : At(w) = "counted"}
OfferedInv ==
    /\ \A k, l \in DOMAIN offered :
         k # l => <<offered[k].name, offered[k].url>> # <<offered[l].name, offered[l].url>>
    /\ seen = OfferedKeys \union {KeyOf(TaskOf(w), Head1(w)) : w \in Noted}
    /\ \A w \in Noted : KeyOf(TaskOf(w), Head1(w)) \notin OfferedKeys
    /\ counted = Len(offered) + Cardinality(Noted)

\* The totals.
Asking == {w \in Seekers : At(w) = "searching"}
Calling == {w \in Seekers : At(w) \in {"searching", "answer"}}
Held == UNION {{w} \X (1 .. Len(seeker[w].books)) : w \in Seekers}
TotalsInv ==
    /\ called + Cardinality(Calling) = nextTask - 1
    /\ errors + Cardinality(Asking) <= nextTask - 1
    /\ IsFiniteSet(Held) /\ Len(offered) + Cardinality(Held) <= found

SeekInv == SeekTypeOK /\ WorkersInv /\ CallInv /\ SeenInv /\ OfferedInv /\ TotalsInv

SeekAts == {"idle", "searching", "answer", "offering", "counted", "ended"}
Seats == [at : SeekAts, task : 0 .. Len(wanted.sources), books : Seq(Candidates)]

\* What the types say of what is asked and of a worker.
LEMMA SeekTypes ==
  ASSUME SeekTypeOK
  PROVE  /\ wanted.author \in BOOLEAN /\ wanted.sources \in Seq(Inquiries)
         /\ Len(wanted.sources) \in Nat /\ nextTask \in Nat \ {0}
         /\ nextTask <= Len(wanted.sources) + 1
         /\ \A i \in 1 .. Len(wanted.sources) :
              /\ wanted.sources[i].name \in Origins /\ wanted.sources[i].answers \in BOOLEAN
              /\ wanted.sources[i].books \in Seq(Candidates)
         /\ seeker \in [Seekers -> Seats]
         /\ \A w \in Seekers : At(w) \in SeekAts /\ seeker[w].task \in Nat
                               /\ seeker[w].books \in Seq(Candidates)
         /\ offered \in Seq([name : Origins, url : Links, score : Int])
         /\ Len(offered) \in Nat /\ DOMAIN offered = 1 .. Len(offered)
<1>1. /\ wanted.author \in BOOLEAN /\ wanted.sources \in Seq(Inquiries)
      /\ seeker \in [Seekers -> Seats]
      /\ nextTask \in 1 .. Len(wanted.sources) + 1
      /\ offered \in Seq([name : Origins, url : Links, score : Int])
  BY DEF SeekTypeOK, Seats, SeekAts
<1>2. Len(wanted.sources) \in Nat /\ Len(offered) \in Nat /\ DOMAIN offered = 1 .. Len(offered)
  BY <1>1, LenProperties
<1>3. \A i \in 1 .. Len(wanted.sources) : wanted.sources[i] \in Inquiries
  BY <1>1, ElementOfSeq
<1>4. \A w \in Seekers : seeker[w] \in Seats
  BY <1>1
<1>5. \A w \in Seekers : At(w) \in SeekAts /\ seeker[w].task \in Nat /\ seeker[w].books \in Seq(Candidates)
  BY <1>2, <1>4 DEF Seats, At
<1> QED
  BY <1>1, <1>2, <1>3, <1>5 DEF Inquiries

\* The task of a worker at work.
LEMMA BusyTask ==
  ASSUME SeekTypeOK, WorkersInv, NEW w \in Seekers, Busy(w)
  PROVE  /\ seeker[w].task \in 1 .. nextTask - 1 /\ seeker[w].task \in 1 .. Len(wanted.sources)
         /\ TaskOf(w) = wanted.sources[seeker[w].task] /\ TaskOf(w).name \in Origins
         /\ TaskOf(w).answers \in BOOLEAN /\ TaskOf(w).books \in Seq(Candidates)
<1>1. seeker[w].task \in 1 .. nextTask - 1 /\ seeker[w].task \in 1 .. Len(wanted.sources)
  BY SeekTypes DEF WorkersInv
<1> QED
  BY <1>1, SeekTypes DEF TaskOf

\* What is left of a sequence.
LEMMA TailIs ==
  ASSUME NEW S, NEW q \in Seq(S), q # <<>>
  PROVE  /\ Tail(q) \in Seq(S) /\ Len(Tail(q)) = Len(q) - 1 /\ Len(q) \in Nat \ {0}
         /\ Head(q) \in S /\ Head(q) \in ToSet(q)
         /\ ToSet(q) = ToSet(Tail(q)) \union {Head(q)}
<1>1. Len(q) \in Nat \ {0} /\ DOMAIN q = 1 .. Len(q)
  BY EmptySeq
<1>2. /\ Tail(q) \in Seq(S) /\ Len(Tail(q)) = Len(q) - 1
      /\ \A i \in 1 .. Len(q) - 1 : Tail(q)[i] = q[i + 1]
      /\ DOMAIN Tail(q) = 1 .. Len(q) - 1
  BY <1>1
<1>3. Head(q) = q[1] /\ 1 \in DOMAIN q
  BY <1>1
<1>4. Head(q) \in S /\ Head(q) \in ToSet(q)
  BY <1>1, <1>3, ElementOfSeq DEF ToSet
<1>5. ASSUME NEW x \in ToSet(q) PROVE x \in ToSet(Tail(q)) \/ x = Head(q)
  <2>1. PICK i \in 1 .. Len(q) : x = q[i]
    BY <1>1 DEF ToSet
  <2>2. CASE i = 1
    BY <1>3, <2>1, <2>2
  <2>3. CASE i # 1
    <3>1. i - 1 \in 1 .. Len(q) - 1 /\ (i - 1) + 1 = i
      BY <1>1, <2>3
    <3>2. Tail(q)[i - 1] = x
      BY <1>2, <2>1, <3>1
    <3> QED
      BY <1>2, <3>1, <3>2 DEF ToSet
  <2> QED
    BY <2>2, <2>3
<1>6. ASSUME NEW x \in ToSet(Tail(q)) PROVE x \in ToSet(q)
  <2>1. PICK i \in 1 .. Len(q) - 1 : x = q[i + 1]
    BY <1>2 DEF ToSet
  <2>2. i + 1 \in DOMAIN q
    BY <1>1
  <2> QED
    BY <2>1, <2>2 DEF ToSet
<1> QED
  BY <1>1, <1>2, <1>4, <1>5, <1>6

\* The books of an answer that match.
LEMMA MatchingIs ==
  ASSUME NEW books \in Seq(Candidates)
  PROVE  /\ Matching(books) \in Seq(Candidates) /\ Len(Matching(books)) \in Nat
         /\ ToSet(Matching(books)) = {b \in ToSet(books) : Matches(b)}
<1> DEFINE S == {i \in DOMAIN books : Matches(books[i])}
           order == InTurn(S)
           q == Matching(books)
<1>1. DOMAIN books = 1 .. Len(books) /\ Len(books) \in Nat
  BY LenProperties
<1>2. S \subseteq Nat /\ IsFiniteSet(S)
  <2>1. IsFiniteSet(1 .. Len(books))
    BY <1>1, FS_Interval
  <2>2. S \in SUBSET (1 .. Len(books)) /\ S \subseteq Nat
    BY <1>1
  <2> HIDE DEF S
  <2> QED
    BY <2>1, <2>2, FS_Subset
<1>3. /\ Cardinality(S) \in Nat /\ order \in Seq(S) /\ DOMAIN order = 1 .. Cardinality(S)
      /\ \A i \in S : \E k \in DOMAIN order : order[k] = i
  BY <1>2, InTurnIs
<1>4. \A i \in S : i \in 1 .. Len(books) /\ Matches(books[i])
  BY <1>1
<1>5. q = [k \in DOMAIN order |-> books[order[k]]]
  BY DEF Matching
<1> HIDE DEF S, order, q
<1>6. \A k \in DOMAIN order : order[k] \in S
  BY <1>3, LenProperties, ElementOfSeq
<1>7. \A i \in 1 .. Len(books) : books[i] \in Candidates
  BY <1>1, ElementOfSeq
<1>8. q \in [1 .. Cardinality(S) -> Candidates]
  BY <1>3, <1>4, <1>5, <1>6, <1>7
<1>9. q \in Seq(Candidates) /\ Len(q) = Cardinality(S)
  BY <1>3, <1>8, NumberedSeq
<1>10. \A b \in ToSet(q) : b \in ToSet(books) /\ Matches(b)
  BY <1>1, <1>4, <1>5, <1>6 DEF ToSet
<1>11. \A b \in ToSet(books) : Matches(b) => b \in ToSet(q)
  <2> TAKE b \in ToSet(books)
  <2> HAVE Matches(b)
  <2>1. PICK i \in DOMAIN books : b = books[i]
    BY DEF ToSet
  <2>2. i \in S
    BY <2>1 DEF S
  <2>3. PICK k \in DOMAIN order : order[k] = i
    BY <1>3, <2>2
  <2> QED
    BY <1>5, <2>1, <2>3 DEF ToSet
<1> QED
  BY <1>3, <1>9, <1>10, <1>11 DEF q

\* Whoever fits matches, and its score is positive.
LEMMA FitsMatches ==
  ASSUME NEW b \in Candidates, NEW author \in BOOLEAN
  PROVE  /\ Score(b, author) \in Int
         /\ Fits(b, author) => Matches(b) /\ Score(b, author) > 0
<1>1. b.name \in Likeness /\ b.author \in Likeness /\ b.ms \in Nat
  BY DEF Candidates
<1>2. Weight[b.name] \in Nat /\ Weight[b.author] \in Nat
  BY <1>1 DEF Weight, Likeness
<1>3. b.name \in {"same", "part"} => Weight[b.name] >= 1
  BY DEF Weight
<1> QED
  BY <1>1, <1>2, <1>3 DEF Score, Fits, Matches

\* The sets of workers.
LEMMA WorkerSets ==
  /\ IsFiniteSet(Noted) /\ IsFiniteSet(Asking) /\ IsFiniteSet(Calling)
  /\ Cardinality(Noted) \in Nat /\ Cardinality(Asking) \in Nat /\ Cardinality(Calling) \in Nat
<1>1. Noted \in SUBSET Seekers /\ Asking \in SUBSET Seekers /\ Calling \in SUBSET Seekers
  BY DEF Noted, Asking, Calling
<1>2. IsFiniteSet(Noted) /\ IsFiniteSet(Asking) /\ IsFiniteSet(Calling)
  BY <1>1, OffersConstants, FS_Subset
<1> QED
  BY <1>2, FS_CardinalityType

\* A worker goes from one place to another.
Turn(w, at, books) ==
    /\ seeker' \in [Seekers -> Seats]
    /\ At(w)' = at /\ seeker'[w].task = seeker[w].task /\ seeker'[w].books = books
    /\ \A v \in Seekers : v # w => seeker'[v] = seeker[v]

LEMMA MovesTurn ==
  ASSUME SeekTypeOK, NEW w \in Seekers, NEW at \in SeekAts, NEW books \in Seq(Candidates),
         Moves(w, at, books)
  PROVE  Turn(w, at, books)
<1>1. seeker' = [seeker EXCEPT ![w].at = at, ![w].books = books]
  BY DEF Moves
<1>2. seeker \in [Seekers -> Seats] /\ seeker[w] \in Seats
  BY SeekTypes
<1>3. \A v \in Seekers : v # w => seeker'[v] = seeker[v]
  BY <1>1, <1>2
<1>4. seeker'[w] = [seeker[w] EXCEPT !.at = at, !.books = books]
  BY <1>1, <1>2
<1>5. seeker'[w] \in Seats /\ seeker'[w].at = at /\ seeker'[w].task = seeker[w].task
      /\ seeker'[w].books = books
  BY <1>2, <1>4 DEF Seats
<1>6. seeker' \in [Seekers -> Seats]
  BY <1>1, <1>2, <1>3, <1>5
<1> QED
  BY <1>3, <1>5, <1>6 DEF Turn, At

\* What a turn does to the sets of workers.
LEMMA TurnSets ==
  ASSUME SeekTypeOK, NEW w \in Seekers, NEW at, NEW books, Turn(w, at, books)
  PROVE  /\ Noted' = IF at = "counted" THEN Noted \union {w} ELSE Noted \ {w}
         /\ Asking' = IF at = "searching" THEN Asking \union {w} ELSE Asking \ {w}
         /\ Calling' = IF at \in {"searching", "answer"} THEN Calling \union {w} ELSE Calling \ {w}
  BY DEF Turn, Noted, Asking, Calling, At

\* The books workers still hold: as many, one less, or those of an answer.
LEMMA HeldSame ==
  ASSUME SeekTypeOK, NEW w \in Seekers, NEW at, NEW books, Turn(w, at, books),
         Len(books) = Len(seeker[w].books)
  PROVE  Held' = Held
  BY DEF Turn, Held

LEMMA HeldLess ==
  ASSUME SeekTypeOK, NEW w \in Seekers, NEW at, Turn(w, at, Tail(seeker[w].books)),
         seeker[w].books # <<>>, IsFiniteSet(Held)
  PROVE  IsFiniteSet(Held') /\ Cardinality(Held') = Cardinality(Held) - 1
<1> DEFINE p == <<w, Len(seeker[w].books)>>
<1>1. /\ Len(Tail(seeker[w].books)) = Len(seeker[w].books) - 1 /\ Len(seeker[w].books) \in Nat \ {0}
  BY SeekTypes, TailIs
<1>2. /\ \A v \in Seekers : v # w => seeker'[v].books = seeker[v].books
      /\ Len(seeker'[w].books) = Len(seeker[w].books) - 1
  BY <1>1 DEF Turn
<1>3. p \in Held /\ Held' = Held \ {p}
  BY <1>1, <1>2 DEF Held
<1> QED
  BY <1>3, FS_RemoveElement

LEMMA HeldMore ==
  ASSUME SeekTypeOK, NEW w \in Seekers, NEW at, NEW books \in Seq(Candidates),
         Turn(w, at, books), seeker[w].books = <<>>, IsFiniteSet(Held)
  PROVE  IsFiniteSet(Held') /\ Cardinality(Held') = Cardinality(Held) + Len(books)
<1> DEFINE N == Len(books)
           New == {w} \X (1 .. N)
           pair == [k \in 1 .. N |-> <<w, k>>]
<1>1. N \in Nat /\ Len(seeker[w].books) = 0
  BY LenProperties
<1>2. /\ \A v \in Seekers : v # w => seeker'[v].books = seeker[v].books
      /\ Len(seeker'[w].books) = N
  BY DEF Turn
<1>3. Held' = Held \union New /\ Held \intersect New = {}
  BY <1>1, <1>2 DEF Held
<1>4. IsFiniteSet(1 .. N) /\ Cardinality(1 .. N) = N
  <2> HIDE DEF N
  <2>1. 1 \in Int /\ N \in Int
    BY <1>1
  <2>2. IsFiniteSet(1 .. N) /\ Cardinality(1 .. N) = IF 1 > N THEN 0 ELSE N - 1 + 1
    BY <2>1, FS_Interval
  <2> QED
    BY <1>1, <2>2
<1>5. pair \in Surjection(1 .. N, New) /\ pair \in Injection(1 .. N, New)
  <2> HIDE DEF N
  <2>1. pair \in [1 .. N -> New]
    OBVIOUS
  <2>2. \A x \in New : \E k \in 1 .. N : pair[k] = x
    OBVIOUS
  <2>3. \A k, l \in 1 .. N : pair[k] = pair[l] => k = l
    OBVIOUS
  <2>4. DOMAIN pair = 1 .. N
    OBVIOUS
  <2> HIDE DEF pair, New
  <2> QED
    BY <2>1, <2>2, <2>3, <2>4 DEF Surjection, Injection, IsInjective
<1> HIDE DEF pair, New, N
<1>6. IsFiniteSet(New) /\ Cardinality(New) = N
  BY <1>4, <1>5, FS_Surjection
<1>7. /\ IsFiniteSet(Held \union New)
      /\ Cardinality(Held \union New) = Cardinality(Held) + Cardinality(New) - Cardinality({})
  <2>1. /\ IsFiniteSet(Held \union New)
        /\ Cardinality(Held \union New)
             = Cardinality(Held) + Cardinality(New) - Cardinality(Held \intersect New)
    BY <1>6, FS_Union
  <2> QED
    BY <1>3, <2>1
<1>8. Cardinality(Held) \in Nat /\ Cardinality({}) = 0
  BY FS_CardinalityType, FS_EmptySet
<1>9. Cardinality(Held \union New) = Cardinality(Held) + N
  BY <1>1, <1>6, <1>7, <1>8
<1> QED
  BY <1>3, <1>7, <1>9 DEF N

\* A worker at work turns to something else: who works at what stays right.
LEMMA TurnKeepsWorkers ==
  ASSUME SeekTypeOK, WorkersInv, NEW w \in Seekers, NEW at \in SeekAts, NEW books,
         Turn(w, at, books), Busy(w), at # "ended",
         at \in {"idle", "searching"} => books = <<>>, at = "counted" => books # <<>>,
         wanted' = wanted, nextTask' = nextTask,
         mutex' \subseteq mutex \union {w}, mutex \subseteq mutex' \union {w},
         w \in mutex' <=> at \in {"offering", "counted"},
         w \in mutex' \ mutex => mutex = {}
  PROVE  WorkersInv'
<1>1. /\ At(w)' = at /\ seeker'[w].task = seeker[w].task /\ seeker'[w].books = books
      /\ \A v \in Seekers : v # w => At(v)' = At(v) /\ seeker'[v] = seeker[v]
  BY DEF Turn, At
<1>2. \A v \in Seekers : Busy(v)' => Busy(v) /\ seeker'[v].task = seeker[v].task
  BY <1>1 DEF Busy
<1>3. \A v \in Seekers : Busy(v)' => seeker'[v].task \in 1 .. nextTask - 1
  BY <1>2 DEF WorkersInv
<1>4. \A u, v \in Seekers : Busy(u)' /\ Busy(v)' /\ seeker'[u].task = seeker'[v].task => u = v
  BY <1>2 DEF WorkersInv
<1>5. \A v \in Seekers : v \in mutex' <=> At(v)' \in {"offering", "counted"}
  BY <1>1 DEF WorkersInv
<1>6. \A u, v \in mutex' : u = v
  BY DEF WorkersInv
<1>7. \A v \in Seekers : At(v)' = "ended" => nextTask = Len(wanted.sources) + 1
  BY <1>1 DEF WorkersInv
<1>8. \A v \in Seekers : At(v)' \in {"idle", "searching", "ended"} => seeker'[v].books = <<>>
  BY <1>1 DEF WorkersInv
<1>9. \A v \in Seekers : At(v)' = "counted" => seeker'[v].books # <<>>
  BY <1>1 DEF WorkersInv
<1> QED
  BY <1>3, <1>4, <1>5, <1>6, <1>7, <1>8, <1>9 DEF WorkersInv

\* A worker at work means that the call is under way.
LEMMA BusyRuns ==
  ASSUME SeekTypeOK, CallInv, NEW w \in Seekers, Busy(w)
  PROVE  apc = "running"
  BY DEF CallInv, SeekTypeOK

LEMMA RunningCall == apc' = "running" => CallInv'
  BY DEF CallInv

\* What a worker does while it works leaves the other's books and the tasks done alone.
LEMMA TurnKeepsSeen ==
  ASSUME SeekTypeOK, WorkersInv, SeenInv, NEW w \in Seekers, NEW at, NEW books,
         Turn(w, at, books), Busy(w), wanted' = wanted, nextTask' = nextTask,
         seen' = seen,
         at \in {"answer", "offering", "counted"} =>
           /\ \A b \in ToSet(books) : b \in ToSet(TaskOf(w).books) /\ TaskOf(w).answers
           /\ \A b \in Fitting(TaskOf(w)) : b \in ToSet(books) \/ KeyOf(TaskOf(w), b) \in seen,
         at \in {"answer", "offering", "counted"} \/ \A b \in Fitting(TaskOf(w)) : KeyOf(TaskOf(w), b) \in seen
  PROVE  SeenInv'
<1>1. /\ At(w)' = at /\ seeker'[w].task = seeker[w].task /\ seeker'[w].books = books
      /\ \A v \in Seekers : v # w => At(v)' = At(v) /\ seeker'[v] = seeker[v]
  BY DEF Turn, At
<1>2. /\ \A v \in Seekers : TaskOf(v)' = TaskOf(v)
      /\ \A t : Fitting(t)' = Fitting(t)
  BY <1>1 DEF TaskOf, Fitting
<1>3. ASSUME NEW v \in Seekers, At(v)' \in {"answer", "offering", "counted"}
      PROVE  /\ \A b \in ToSet(seeker'[v].books) : b \in ToSet(TaskOf(v).books) /\ TaskOf(v).answers
             /\ \A b \in Fitting(TaskOf(v)) : b \in ToSet(seeker'[v].books) \/ KeyOf(TaskOf(v), b) \in seen
  <2>1. CASE v = w
    BY <1>1, <1>3, <2>1
  <2>2. CASE v # w
    BY <1>1, <1>3, <2>2 DEF SeenInv
  <2> QED
    BY <2>1, <2>2
<1>4. ASSUME NEW i \in 1 .. nextTask - 1, \A v \in Seekers : Busy(v)' => seeker'[v].task # i
      PROVE  \A b \in Fitting(wanted.sources[i]) : KeyOf(wanted.sources[i], b) \in seen
  <2>1. CASE seeker[w].task = i
    <3>1. ~(at \in {"answer", "offering", "counted"})
      BY <1>1, <1>4, <2>1 DEF Busy
    <3>2. TaskOf(w) = wanted.sources[i]
      BY <2>1 DEF TaskOf
    <3> QED
      BY <3>1, <3>2
  <2>2. CASE seeker[w].task # i
    <3>1. \A v \in Seekers : Busy(v) => seeker[v].task # i
      BY <1>1, <1>4, <2>2 DEF Busy
    <3> QED
      BY <3>1 DEF SeenInv
  <2> QED
    BY <2>1, <2>2
<1>5. /\ \A v \in Seekers : At(v)' \in {"answer", "offering", "counted"} =>
           /\ \A b \in ToSet(seeker'[v].books) : b \in ToSet(TaskOf(v)'.books) /\ TaskOf(v)'.answers
           /\ \A b \in Fitting(TaskOf(v))' : b \in ToSet(seeker'[v].books) \/ KeyOf(TaskOf(v), b)' \in seen'
  BY <1>2, <1>3 DEF KeyOf, Fitting
<1>6. \A i \in 1 .. nextTask' - 1 :
        (\A v \in Seekers : Busy(v)' => seeker'[v].task # i) =>
           \A b \in Fitting(wanted.sources[i])' : KeyOf(wanted.sources[i], b)' \in seen'
  BY <1>2, <1>4 DEF KeyOf, Fitting
<1>7. \A k \in seen' : \E i \in 1 .. Len(wanted'.sources) : \E b \in Fitting(wanted.sources[i])' :
        k = KeyOf(wanted.sources[i], b)'
  BY <1>2 DEF SeenInv, KeyOf, Fitting
<1> QED
  BY <1>5, <1>6, <1>7 DEF SeenInv, KeyOf

\* Nobody is at a book that is noted and not yet offered, before or after.
LEMMA TurnKeepsOffered ==
  ASSUME SeekTypeOK, OfferedInv, NEW w \in Seekers, NEW at, NEW books,
         Turn(w, at, books), At(w) # "counted", at # "counted", wanted' = wanted,
         UNCHANGED <<seen, offered, counted>>
  PROVE  OfferedInv'
<1>1. Noted' = Noted /\ w \notin Noted
  BY TurnSets DEF Noted
<1>2. \A v \in Noted : /\ KeyOf(TaskOf(v), Head1(v))' = KeyOf(TaskOf(v), Head1(v))
  BY <1>1 DEF Noted, Turn, KeyOf, TaskOf, Head1
<1>3. OfferedKeys' = OfferedKeys
  BY DEF OfferedKeys
<1> QED
  BY <1>1, <1>2, <1>3 DEF OfferedInv

\* The tasks are there, or there are none.
LEMMA SeekBeginsKeeps == ASSUME SeekInv, SeekBegins PROVE SeekInv'
<1>0. /\ apc = "asked" /\ apc' = IF wanted.sources = <<>> THEN "told" ELSE "running"
      /\ UNCHANGED <<wanted, nextTask, seeker, mutex, seen, counted, offered, found, errors, called, told>>
  BY DEF SeekBegins
<1>1. apc' \in {"told", "running"} /\ (apc' = "told" => wanted.sources = <<>>)
  BY <1>0
<1>2. CallInv'
  <2>1. /\ nextTask = 1 /\ told = <<0, 0, 0, 0>> /\ counted = 0 /\ found = 0 /\ errors = 0
        /\ \A w \in Seekers : ~Busy(w)
    BY <1>0 DEF SeekInv, CallInv
  <2>2. apc' = "told" => Len(wanted.sources) = 0
    BY <1>1
  <2>3. \A w \in Seekers : ~Busy(w)'
    BY <1>0, <2>1 DEF Busy, At
  <2> QED
    BY <1>0, <1>1, <2>1, <2>2, <2>3 DEF CallInv
<1>3. SeekTypeOK'
  BY <1>0, <1>1 DEF SeekInv, SeekTypeOK
<1>4. WorkersInv'
  BY <1>0 DEF SeekInv, WorkersInv, Busy, At
<1>6. SeenInv'
  <2>1. \A w \in Seekers : At(w)' = At(w) /\ TaskOf(w)' = TaskOf(w) /\ (Busy(w)' <=> Busy(w))
    BY <1>0 DEF At, TaskOf, Busy
  <2>2. \A t : Fitting(t)' = Fitting(t)
    BY <1>0 DEF Fitting
  <2>3. SeenInv
    BY DEF SeekInv
  <2>4. \A w \in Seekers : At(w)' \in {"answer", "offering", "counted"} =>
          /\ \A b \in ToSet(seeker'[w].books) : b \in ToSet(TaskOf(w)'.books) /\ TaskOf(w)'.answers
          /\ \A b \in Fitting(TaskOf(w))' : b \in ToSet(seeker'[w].books) \/ KeyOf(TaskOf(w), b)' \in seen'
    BY <1>0, <2>1, <2>3 DEF SeenInv, KeyOf, Fitting
  <2>5. \A i \in 1 .. nextTask' - 1 : (\A w \in Seekers : Busy(w)' => seeker'[w].task # i) =>
          \A b \in Fitting(wanted.sources[i])' : KeyOf(wanted.sources[i], b)' \in seen'
    BY <1>0, <2>1, <2>2, <2>3 DEF SeenInv, KeyOf, Fitting
  <2>6. \A k \in seen' : \E i \in 1 .. Len(wanted'.sources) : \E b \in Fitting(wanted.sources[i])' :
          k = KeyOf(wanted.sources[i], b)'
    BY <1>0, <2>2, <2>3 DEF SeenInv, KeyOf, Fitting
  <2> QED
    BY <2>4, <2>5, <2>6 DEF SeenInv, KeyOf
<1>5. OfferedInv' /\ TotalsInv'
  BY <1>0 DEF SeekInv, OfferedInv, TotalsInv, Noted, OfferedKeys, Asking, Calling, Held, At, TaskOf, KeyOf,
     Head1
<1> QED
  BY <1>2, <1>3, <1>4, <1>5, <1>6 DEF SeekInv

\* A worker takes the next task, or ends.
LEMMA SeekTakesKeeps == ASSUME SeekInv, NEW w \in Seekers, SeekTakes(w) PROVE SeekInv'
<1> DEFINE N == Len(wanted.sources)
<1>0. /\ apc = "running" /\ At(w) = "idle"
      /\ UNCHANGED <<wanted, apc, mutex, seen, counted, offered, found, errors, called, told>>
      /\ SeekTypeOK /\ WorkersInv /\ SeenInv /\ OfferedInv /\ TotalsInv
  BY DEF SeekTakes, SeekInv, At
<1>1. N \in Nat /\ nextTask \in Nat \ {0} /\ nextTask <= N + 1 /\ seeker \in [Seekers -> Seats]
  BY <1>0, SeekTypes
<1>2. seeker[w].books = <<>> /\ ~Busy(w)
  BY <1>0 DEF WorkersInv, Busy
<1>3. CASE nextTask <= N
  <2>1. /\ seeker' = [seeker EXCEPT ![w] = [at |-> "searching", task |-> nextTask, books |-> <<>>]]
        /\ nextTask' = nextTask + 1
    BY <1>3 DEF SeekTakes
  <2>2. nextTask \in 0 .. N /\ nextTask' \in 1 .. N + 1 /\ <<>> \in Seq(Candidates)
    BY <1>1, <1>3, <2>1
  <2> HIDE DEF N
  <2>3. /\ seeker' \in [Seekers -> Seats]
        /\ seeker'[w].at = "searching" /\ seeker'[w].task = nextTask /\ seeker'[w].books = <<>>
        /\ \A v \in Seekers : v # w => seeker'[v] = seeker[v]
    BY <1>1, <2>1, <2>2 DEF Seats, SeekAts, N
  <2>4. At(w)' = "searching" /\ \A v \in Seekers : v # w => At(v)' = At(v)
    BY <2>3 DEF At
  <2>5. SeekTypeOK'
    BY <1>0, <2>2, <2>3 DEF SeekTypeOK, Seats, SeekAts, N
  <2>6. WorkersInv'
    <3>1. \A v \in Seekers : Busy(v)' => v = w \/ (Busy(v) /\ seeker'[v].task = seeker[v].task /\ v # w)
      BY <2>3, <2>4 DEF Busy
    <3>2. \A v \in Seekers : Busy(v) => seeker[v].task \in 1 .. nextTask - 1
      BY <1>0 DEF WorkersInv
    <3>3. \A v \in Seekers : Busy(v) => seeker[v].task \in 1 .. nextTask' - 1 /\ seeker[v].task # nextTask
      BY <1>1, <2>1, <3>2
    <3>4. nextTask \in 1 .. nextTask' - 1
      BY <1>1, <2>1
    <3>5. \A v \in Seekers : Busy(v)' => seeker'[v].task \in 1 .. nextTask' - 1
      BY <2>3, <3>1, <3>3, <3>4
    <3>6. \A u, v \in Seekers : Busy(u)' /\ Busy(v)' /\ seeker'[u].task = seeker'[v].task => u = v
      <4> TAKE u, v \in Seekers
      <4> HAVE Busy(u)' /\ Busy(v)' /\ seeker'[u].task = seeker'[v].task
      <4>1. CASE u = w
        BY <2>3, <3>1, <3>3, <4>1
      <4>2. CASE v = w
        BY <2>3, <3>1, <3>3, <4>2
      <4>3. CASE u # w /\ v # w
        BY <1>0, <3>1, <4>3 DEF WorkersInv
      <4> QED
        BY <4>1, <4>2, <4>3
    <3>7. \A v \in Seekers : v \in mutex' <=> At(v)' \in {"offering", "counted"}
      BY <1>0, <2>4 DEF WorkersInv
    <3>8. \A v \in Seekers : At(v)' = "ended" => nextTask' = Len(wanted'.sources) + 1
      <4>1. \A v \in Seekers : At(v) # "ended"
        BY <1>0, <1>1, <1>3 DEF WorkersInv, N
      <4> QED
        BY <2>4, <4>1
    <3>9. /\ \A v \in Seekers : At(v)' \in {"idle", "searching", "ended"} => seeker'[v].books = <<>>
          /\ \A v \in Seekers : At(v)' = "counted" => seeker'[v].books # <<>>
      BY <1>0, <2>3, <2>4 DEF WorkersInv
    <3> QED
      BY <1>0, <3>5, <3>6, <3>7, <3>8, <3>9 DEF WorkersInv
  <2>7. SeenInv'
    <3>1. \A v \in Seekers : v # w => TaskOf(v)' = TaskOf(v)
      BY <1>0, <2>3 DEF TaskOf
    <3>2. \A t : Fitting(t)' = Fitting(t)
      BY <1>0 DEF Fitting
    <3>3. \A v \in Seekers : At(v)' \in {"answer", "offering", "counted"} =>
             v # w /\ At(v) \in {"answer", "offering", "counted"} /\ seeker'[v] = seeker[v]
      BY <2>3, <2>4
    <3>4. \A v \in Seekers : At(v)' \in {"answer", "offering", "counted"} =>
            /\ \A b \in ToSet(seeker'[v].books) : b \in ToSet(TaskOf(v)'.books) /\ TaskOf(v)'.answers
            /\ \A b \in Fitting(TaskOf(v))' : b \in ToSet(seeker'[v].books) \/ KeyOf(TaskOf(v), b)' \in seen'
      BY <1>0, <3>1, <3>3 DEF SeenInv, KeyOf, Fitting
    <3>5. ASSUME NEW i \in 1 .. nextTask' - 1, \A v \in Seekers : Busy(v)' => seeker'[v].task # i
          PROVE  \A b \in Fitting(wanted.sources[i]) : KeyOf(wanted.sources[i], b) \in seen
      <4>1. i # nextTask
        BY <2>3, <2>4, <3>5 DEF Busy
      <4>2. i \in 1 .. nextTask - 1
        BY <1>1, <2>1, <4>1
      <4>3. \A v \in Seekers : Busy(v) => seeker[v].task # i
        BY <1>2, <2>3, <2>4, <3>5 DEF Busy
      <4> QED
        BY <1>0, <4>2, <4>3 DEF SeenInv
    <3>6. \A i \in 1 .. nextTask' - 1 : (\A v \in Seekers : Busy(v)' => seeker'[v].task # i) =>
             \A b \in Fitting(wanted.sources[i])' : KeyOf(wanted.sources[i], b)' \in seen'
      BY <1>0, <3>2, <3>5 DEF KeyOf, Fitting
    <3>7. \A k \in seen' : \E i \in 1 .. Len(wanted'.sources) : \E b \in Fitting(wanted.sources[i])' :
             k = KeyOf(wanted.sources[i], b)'
      BY <1>0, <3>2 DEF SeenInv, KeyOf, Fitting
    <3> QED
      BY <3>4, <3>6, <3>7 DEF SeenInv, KeyOf
  <2>8. OfferedInv'
    <3>1. Noted' = Noted /\ w \notin Noted /\ OfferedKeys' = OfferedKeys
      BY <1>0, <2>4 DEF Noted, OfferedKeys
    <3>2. \A v \in Noted : KeyOf(TaskOf(v), Head1(v))' = KeyOf(TaskOf(v), Head1(v))
      BY <1>0, <2>3, <3>1 DEF Noted, KeyOf, TaskOf, Head1
    <3> QED
      BY <1>0, <3>1, <3>2 DEF OfferedInv
  <2>9. TotalsInv'
    <3>1. /\ Calling' = Calling \union {w} /\ w \notin Calling
          /\ Asking' = Asking \union {w} /\ w \notin Asking
      BY <1>0, <2>4 DEF Calling, Asking
    <3>2. Cardinality(Calling') = Cardinality(Calling) + 1 /\ Cardinality(Asking') = Cardinality(Asking) + 1
      BY <3>1, WorkerSets, FS_AddElement
    <3>3. Held' = Held
      BY <1>2, <2>3 DEF Held
    <3>4. called \in Nat /\ errors \in Nat /\ Cardinality(Calling) \in Nat /\ Cardinality(Asking) \in Nat
      BY <1>0, WorkerSets DEF SeekTypeOK
    <3>5. called' + Cardinality(Calling') = nextTask' - 1
      BY <1>0, <1>1, <2>1, <3>2, <3>4 DEF TotalsInv
    <3>6. errors' + Cardinality(Asking') <= nextTask' - 1
      BY <1>0, <1>1, <2>1, <3>2, <3>4 DEF TotalsInv
    <3> QED
      BY <1>0, <3>3, <3>5, <3>6 DEF TotalsInv
  <2> QED
    BY <1>0, <2>5, <2>6, <2>7, <2>8, <2>9, RunningCall DEF SeekInv
<1>4. CASE ~(nextTask <= N)
  <2>1. Moves(w, "ended", <<>>) /\ nextTask' = nextTask /\ nextTask = N + 1
    BY <1>1, <1>4 DEF SeekTakes
  <2>2. Turn(w, "ended", <<>>)
    <3>1. "ended" \in SeekAts /\ <<>> \in Seq(Candidates)
      BY DEF SeekAts
    <3> QED
      BY <1>0, <2>1, <3>1, MovesTurn
  <2> HIDE DEF N
  <2>3. /\ seeker' \in [Seekers -> Seats] /\ seeker'[w].books = seeker[w].books
        /\ At(w)' = "ended" /\ \A v \in Seekers : v # w => At(v)' = At(v) /\ seeker'[v] = seeker[v]
    BY <1>2, <2>2 DEF Turn, At
  <2>4. \A v \in Seekers : /\ Busy(v)' <=> Busy(v)
                           /\ Busy(v) => v # w /\ seeker'[v] = seeker[v] /\ TaskOf(v)' = TaskOf(v)
    BY <1>0, <1>2, <2>3 DEF Busy, TaskOf
  <2>5. SeekTypeOK'
    BY <1>0, <2>1, <2>3 DEF SeekTypeOK, Seats, SeekAts
  <2>6. WorkersInv'
    <3>1. \A v \in Seekers : Busy(v)' => seeker'[v].task \in 1 .. nextTask' - 1
      BY <1>0, <2>1, <2>4 DEF WorkersInv
    <3>2. \A u, v \in Seekers : Busy(u)' /\ Busy(v)' /\ seeker'[u].task = seeker'[v].task => u = v
      BY <1>0, <2>4 DEF WorkersInv
    <3>3. \A v \in Seekers : v \in mutex' <=> At(v)' \in {"offering", "counted"}
      BY <1>0, <2>3 DEF WorkersInv
    <3>4. nextTask' = Len(wanted'.sources) + 1
      BY <1>0, <2>1 DEF N
    <3>5. /\ \A v \in Seekers : At(v)' \in {"idle", "searching", "ended"} => seeker'[v].books = <<>>
          /\ \A v \in Seekers : At(v)' = "counted" => seeker'[v].books # <<>>
      BY <1>0, <1>2, <2>3 DEF WorkersInv
    <3> QED
      BY <1>0, <3>1, <3>2, <3>3, <3>4, <3>5 DEF WorkersInv
  <2>7. SeenInv'
    <3>1. \A t : Fitting(t)' = Fitting(t)
      BY <1>0 DEF Fitting
    <3>2. \A v \in Seekers : At(v)' \in {"answer", "offering", "counted"} =>
            /\ At(v) \in {"answer", "offering", "counted"} /\ seeker'[v] = seeker[v] /\ TaskOf(v)' = TaskOf(v)
      BY <2>3, <2>4 DEF Busy
    <3>3. \A v \in Seekers : At(v)' \in {"answer", "offering", "counted"} =>
            /\ \A b \in ToSet(seeker'[v].books) : b \in ToSet(TaskOf(v)'.books) /\ TaskOf(v)'.answers
            /\ \A b \in Fitting(TaskOf(v))' : b \in ToSet(seeker'[v].books) \/ KeyOf(TaskOf(v), b)' \in seen'
      BY <1>0, <3>2 DEF SeenInv, KeyOf, Fitting
    <3>4. \A i \in 1 .. nextTask' - 1 : (\A v \in Seekers : Busy(v)' => seeker'[v].task # i) =>
             \A b \in Fitting(wanted.sources[i])' : KeyOf(wanted.sources[i], b)' \in seen'
      BY <1>0, <2>1, <2>4, <3>1 DEF SeenInv, KeyOf, Fitting
    <3>5. \A k \in seen' : \E i \in 1 .. Len(wanted'.sources) : \E b \in Fitting(wanted.sources[i])' :
             k = KeyOf(wanted.sources[i], b)'
      BY <1>0, <3>1 DEF SeenInv, KeyOf, Fitting
    <3> QED
      BY <3>3, <3>4, <3>5 DEF SeenInv, KeyOf
  <2>8. OfferedInv'
    BY <1>0, <2>2, TurnKeepsOffered
  <2>9. TotalsInv'
    <3>1. Calling' = Calling /\ Asking' = Asking
      BY <1>0, <2>3 DEF Calling, Asking
    <3>2. Held' = Held
      BY <2>3 DEF Held
    <3> QED
      BY <1>0, <2>1, <3>1, <3>2 DEF TotalsInv
  <2> QED
    BY <1>0, <2>5, <2>6, <2>7, <2>8, <2>9, RunningCall DEF SeekInv
<1> QED
  BY <1>3, <1>4

\* What a worker at work knows, and what its turns leave alone.
LEMMA SeekKnows ==
  ASSUME SeekInv
  PROVE  SeekTypeOK /\ WorkersInv /\ CallInv /\ SeenInv /\ OfferedInv /\ TotalsInv
  BY DEF SeekInv

LEMMA TurnKeepsTypes ==
  ASSUME SeekTypeOK, NEW w \in Seekers, NEW at, NEW books, Turn(w, at, books),
         UNCHANGED <<wanted, apc, nextTask, told>>,
         mutex' = mutex \/ mutex' = {w} \/ mutex' = mutex \ {w},
         seen' \subseteq Origins \X Links,
         offered' \in Seq([name : Origins, url : Links, score : Int]),
         counted' \in Nat, found' \in Nat, errors' \in Nat, called' \in Nat
  PROVE  SeekTypeOK'
<1>1. seeker' \in [Seekers -> Seats]
  BY DEF Turn
<1>2. mutex' \subseteq Seekers
  BY DEF SeekTypeOK
<1>3. Cardinality(mutex') <= 1
  <2>1. CASE mutex' = mutex
    BY <2>1 DEF SeekTypeOK
  <2>2. CASE mutex' = {w}
    <3>1. Cardinality({w}) = 1
      BY FS_Singleton
    <3> QED
      BY <2>2, <3>1
  <2>3. CASE mutex' = mutex \ {w}
    <3>1. IsFiniteSet(mutex) /\ mutex' \in SUBSET mutex
      BY <2>3, OffersConstants, FS_Subset DEF SeekTypeOK
    <3>2. IsFiniteSet(mutex') /\ Cardinality(mutex') <= Cardinality(mutex)
      BY <3>1, FS_Subset
    <3>3. Cardinality(mutex') \in Nat /\ Cardinality(mutex) \in Nat /\ Cardinality(mutex) <= 1
      BY <3>1, <3>2, FS_CardinalityType DEF SeekTypeOK
    <3> QED
      BY <3>2, <3>3
  <2> QED
    BY <2>1, <2>2, <2>3
<1>4. wanted' \in [author : BOOLEAN, sources : Seq(Inquiries)]
  BY DEF SeekTypeOK
<1>5. seeker' \in [Seekers -> [at : {"idle", "searching", "answer", "offering", "counted", "ended"},
                               task : 0 .. Len(wanted'.sources), books : Seq(Candidates)]]
  BY <1>1 DEF Seats, SeekAts
<1> QED
  BY <1>2, <1>3, <1>4, <1>5 DEF SeekTypeOK

\* An answer arrives, or none.
LEMMA SeekFetchesKeeps == ASSUME SeekInv, NEW w \in Seekers, SeekFetches(w) PROVE SeekInv'
<1>0. /\ SeekTypeOK /\ WorkersInv /\ CallInv /\ SeenInv /\ OfferedInv /\ TotalsInv
      /\ At(w) = "searching" /\ Busy(w)
      /\ UNCHANGED <<wanted, apc, nextTask, mutex, seen, counted, offered, called, told>>
  BY SeekKnows DEF SeekFetches, At, Busy
<1>1. /\ TaskOf(w).answers \in BOOLEAN /\ TaskOf(w).books \in Seq(Candidates)
      /\ seeker[w].books = <<>>
  BY <1>0, BusyTask DEF WorkersInv
<1>2. PICK books : books = IF TaskOf(w).answers THEN Matching(TaskOf(w).books) ELSE <<>>
  OBVIOUS
<1>3. /\ Moves(w, "answer", books) /\ found' = found + Len(books)
      /\ errors' = IF TaskOf(w).answers THEN errors ELSE errors + 1
  BY <1>2 DEF SeekFetches
<1>4. books \in Seq(Candidates) /\ Len(books) \in Nat
  <2>1. CASE TaskOf(w).answers
    BY <1>1, <1>2, <2>1, MatchingIs
  <2>2. CASE ~TaskOf(w).answers
    BY <1>2, <2>2
  <2> QED
    BY <2>1, <2>2
<1>5. "answer" \in SeekAts
  BY DEF SeekAts
<1>6. Turn(w, "answer", books)
  BY <1>0, <1>3, <1>4, <1>5, MovesTurn
<1>7. found \in Nat /\ errors \in Nat /\ found' \in Nat /\ errors' \in Nat /\ errors' <= errors + 1
  BY <1>0, <1>3, <1>4 DEF SeekTypeOK
<1>8. SeekTypeOK'
  <2>1. /\ seen' \subseteq Origins \X Links
        /\ offered' \in Seq([name : Origins, url : Links, score : Int])
        /\ counted' \in Nat /\ called' \in Nat
    BY <1>0 DEF SeekTypeOK
  <2> QED
    BY <1>0, <1>6, <1>7, <2>1, TurnKeepsTypes
<1>9. w \notin mutex
  BY <1>0 DEF WorkersInv
<1>10. WorkersInv'
  BY <1>0, <1>5, <1>6, <1>9, TurnKeepsWorkers
<1>11. CallInv'
  BY <1>0, BusyRuns, RunningCall
<1>12. SeenInv'
  <2>1. ASSUME NEW b \in ToSet(books) PROVE b \in ToSet(TaskOf(w).books) /\ TaskOf(w).answers
    <3>1. CASE TaskOf(w).answers
      BY <1>1, <1>2, <2>1, <3>1, MatchingIs
    <3>2. CASE ~TaskOf(w).answers
      BY <1>2, <2>1, <3>2 DEF ToSet
    <3> QED
      BY <3>1, <3>2
  <2>2. ASSUME NEW b \in Fitting(TaskOf(w)) PROVE b \in ToSet(books)
    <3>1. b \in ToSet(TaskOf(w).books) /\ TaskOf(w).answers /\ Fits(b, wanted.author)
      BY <2>2 DEF Fitting
    <3>2. Matches(b)
      BY <3>1 DEF Fits, Matches
    <3> QED
      BY <1>1, <1>2, <3>1, <3>2, MatchingIs
  <2> QED
    BY <1>0, <1>6, <2>1, <2>2, TurnKeepsSeen
<1>13. OfferedInv'
  BY <1>0, <1>6, TurnKeepsOffered
<1>14. TotalsInv'
  <2>1. Calling' = Calling /\ Asking' = Asking \ {w} /\ w \in Asking
    BY <1>0, <1>6, TurnSets DEF Calling, Asking
  <2>2. Cardinality(Asking') = Cardinality(Asking) - 1
    BY <2>1, WorkerSets, FS_RemoveElement
  <2>3. IsFiniteSet(Held') /\ Cardinality(Held') = Cardinality(Held) + Len(books)
    BY <1>0, <1>1, <1>4, <1>6, HeldMore DEF TotalsInv
  <2>4. /\ Cardinality(Asking) \in Nat /\ Cardinality(Held) \in Nat /\ Len(offered) \in Nat
        /\ nextTask \in Nat
    BY <1>0, WorkerSets, SeekTypes, FS_CardinalityType DEF TotalsInv
  <2>5. called' + Cardinality(Calling') = nextTask' - 1
    BY <1>0, <2>1 DEF TotalsInv
  <2>6. errors' + Cardinality(Asking') <= nextTask' - 1
    <3>1. errors + Cardinality(Asking) <= nextTask - 1 /\ nextTask' = nextTask
      BY <1>0 DEF TotalsInv
    <3> QED
      BY <1>7, <2>2, <2>4, <3>1
  <2>7. Len(offered') + Cardinality(Held') <= found'
    <3>1. Len(offered) + Cardinality(Held) <= found /\ offered' = offered
      BY <1>0 DEF TotalsInv
    <3> QED
      BY <1>3, <1>4, <1>7, <2>3, <2>4, <3>1
  <2> QED
    BY <2>3, <2>5, <2>6, <2>7 DEF TotalsInv
<1> QED
  BY <1>8, <1>10, <1>11, <1>12, <1>13, <1>14 DEF SeekInv

\* The callback begins.
LEMMA SeekLocksKeeps == ASSUME SeekInv, NEW w \in Seekers, SeekLocks(w) PROVE SeekInv'
<1>0. /\ SeekTypeOK /\ WorkersInv /\ CallInv /\ SeenInv /\ OfferedInv /\ TotalsInv
      /\ At(w) = "answer" /\ Busy(w) /\ mutex = {} /\ mutex' = {w} /\ called' = called + 1
      /\ Moves(w, "offering", seeker[w].books)
      /\ UNCHANGED <<wanted, apc, nextTask, seen, counted, offered, found, errors, told>>
  BY SeekKnows DEF SeekLocks, At, Busy
<1>1. seeker[w].books \in Seq(Candidates) /\ "offering" \in SeekAts
  BY <1>0, SeekTypes DEF SeekAts
<1>2. Turn(w, "offering", seeker[w].books)
  BY <1>0, <1>1, MovesTurn
<1>3. SeekTypeOK'
  <2>1. /\ seen' \subseteq Origins \X Links
        /\ offered' \in Seq([name : Origins, url : Links, score : Int])
        /\ counted' \in Nat /\ called' \in Nat /\ found' \in Nat /\ errors' \in Nat
    BY <1>0 DEF SeekTypeOK
  <2> QED
    BY <1>0, <1>2, <2>1, TurnKeepsTypes
<1>4. WorkersInv'
  BY <1>0, <1>1, <1>2, TurnKeepsWorkers
<1>5. CallInv'
  BY <1>0, BusyRuns, RunningCall
<1>6. SeenInv'
  <2>1. /\ \A b \in ToSet(seeker[w].books) : b \in ToSet(TaskOf(w).books) /\ TaskOf(w).answers
        /\ \A b \in Fitting(TaskOf(w)) : b \in ToSet(seeker[w].books) \/ KeyOf(TaskOf(w), b) \in seen
    BY <1>0 DEF SeenInv
  <2> QED
    BY <1>0, <1>2, <2>1, TurnKeepsSeen
<1>7. OfferedInv'
  BY <1>0, <1>2, TurnKeepsOffered
<1>8. TotalsInv'
  <2>1. Calling' = Calling \ {w} /\ w \in Calling /\ Asking' = Asking
    BY <1>0, <1>2, TurnSets DEF Calling, Asking
  <2>2. Cardinality(Calling') = Cardinality(Calling) - 1 /\ Cardinality(Calling) \in Nat
    BY <2>1, WorkerSets, FS_RemoveElement
  <2>3. Held' = Held
    BY <1>0, <1>2, HeldSame
  <2>4. called + Cardinality(Calling) = nextTask - 1 /\ called \in Nat
    BY <1>0 DEF TotalsInv, SeekTypeOK
  <2>5. called' + Cardinality(Calling') = nextTask' - 1
    BY <1>0, <2>2, <2>4
  <2> QED
    BY <1>0, <2>1, <2>3, <2>5 DEF TotalsInv
<1> QED
  BY <1>3, <1>4, <1>5, <1>6, <1>7, <1>8 DEF SeekInv

\* The callback's lock keeps other workers from looking at their books.
LEMMA OneLooks ==
  ASSUME WorkersInv, NEW w \in Seekers, At(w) \in {"offering", "counted"}
  PROVE  /\ mutex = {w} /\ \A v \in Seekers : v # w => At(v) \notin {"offering", "counted"}
         /\ Noted = IF At(w) = "counted" THEN {w} ELSE {}
<1>1. w \in mutex /\ mutex \subseteq Seekers => mutex = {w}
  BY DEF WorkersInv
<1>2. w \in mutex
  BY DEF WorkersInv
<1>3. \A v \in Seekers : v # w => At(v) \notin {"offering", "counted"}
  BY <1>2 DEF WorkersInv
<1>4. Noted = IF At(w) = "counted" THEN {w} ELSE {}
  BY <1>3 DEF Noted
<1> QED
  BY <1>2, <1>3, <1>4 DEF WorkersInv

\* The first of the books left is looked at.
LEMMA SeekLooks ==
  ASSUME SeekInv, NEW w \in Seekers, At(w) \in {"offering", "counted"}, seeker[w].books # <<>>
  PROVE  /\ Busy(w) /\ TaskOf(w).name \in Origins /\ wanted.author \in BOOLEAN
         /\ TaskOf(w).answers = TRUE
         /\ Head1(w) \in Candidates /\ Head1(w).url \in Links /\ Head1(w) \in ToSet(TaskOf(w).books)
         /\ KeyOf(TaskOf(w), Head1(w)) \in Origins \X Links
         /\ Score(Head1(w), wanted.author) \in Int
         /\ Fits(Head1(w), wanted.author) => Score(Head1(w), wanted.author) > 0
         /\ Tail(seeker[w].books) \in Seq(Candidates)
         /\ ToSet(seeker[w].books) = ToSet(Tail(seeker[w].books)) \union {Head1(w)}
<1>1. SeekTypeOK /\ WorkersInv /\ SeenInv /\ Busy(w)
  BY SeekKnows DEF Busy
<1>2. seeker[w].books \in Seq(Candidates) /\ wanted.author \in BOOLEAN
  BY <1>1, SeekTypes
<1>3. /\ Tail(seeker[w].books) \in Seq(Candidates)
      /\ Head(seeker[w].books) \in Candidates /\ Head(seeker[w].books) \in ToSet(seeker[w].books)
      /\ ToSet(seeker[w].books) = ToSet(Tail(seeker[w].books)) \union {Head(seeker[w].books)}
  BY <1>2, TailIs
<1>4. \A b \in ToSet(seeker[w].books) : b \in ToSet(TaskOf(w).books) /\ TaskOf(w).answers
  BY <1>1 DEF SeenInv
<1>5. TaskOf(w).name \in Origins /\ TaskOf(w).answers \in BOOLEAN
  BY <1>1, BusyTask
<1>6. Head1(w) = Head(seeker[w].books)
  BY DEF Head1
<1>7. Head1(w).url \in Links
  BY <1>3, <1>6 DEF Candidates
<1>8. KeyOf(TaskOf(w), Head1(w)) \in Origins \X Links
  BY <1>5, <1>7 DEF KeyOf
<1>9. /\ Score(Head1(w), wanted.author) \in Int
      /\ Fits(Head1(w), wanted.author) => Score(Head1(w), wanted.author) > 0
  BY <1>2, <1>3, <1>6, FitsMatches
<1>10. TaskOf(w).answers = TRUE
  BY <1>3, <1>4, <1>5
<1> QED
  BY <1>1, <1>2, <1>3, <1>4, <1>5, <1>6, <1>7, <1>8, <1>9, <1>10

\* A book is noted, or passed over.
LEMMA SeekChecksKeeps == ASSUME SeekInv, NEW w \in Seekers, SeekChecks(w) PROVE SeekInv'
<1> DEFINE key == KeyOf(TaskOf(w), Head1(w))
           ok == Fits(Head1(w), wanted.author) /\ Score(Head1(w), wanted.author) > 0 /\ key \notin seen
<1>0. /\ SeekTypeOK /\ WorkersInv /\ CallInv /\ SeenInv /\ OfferedInv /\ TotalsInv
      /\ At(w) = "offering" /\ seeker[w].books # <<>>
      /\ UNCHANGED <<wanted, apc, nextTask, mutex, offered, found, errors, called, told>>
  BY SeekKnows DEF SeekChecks, At
<1>1. \/ ok /\ seen' = seen \union {key} /\ counted' = counted + 1 /\ Moves(w, "counted", seeker[w].books)
      \/ ~ok /\ Moves(w, "offering", Tail(seeker[w].books)) /\ seen' = seen /\ counted' = counted
  BY DEF SeekChecks, KeyOf, Head1
<1> HIDE DEF ok
<1>2. /\ Busy(w) /\ TaskOf(w).answers = TRUE /\ Head1(w) \in ToSet(TaskOf(w).books)
      /\ key \in Origins \X Links /\ Tail(seeker[w].books) \in Seq(Candidates)
      /\ ToSet(seeker[w].books) = ToSet(Tail(seeker[w].books)) \union {Head1(w)}
      /\ Fits(Head1(w), wanted.author) => Score(Head1(w), wanted.author) > 0
  BY <1>0, SeekLooks
<1>3. /\ mutex = {w} /\ Noted = {} /\ seeker[w].books \in Seq(Candidates)
      /\ "offering" \in SeekAts /\ "counted" \in SeekAts
  BY <1>0, OneLooks, SeekTypes DEF SeekAts
<1>4. /\ seen \subseteq Origins \X Links /\ counted \in Nat /\ found' \in Nat /\ errors' \in Nat
      /\ called' \in Nat /\ offered' \in Seq([name : Origins, url : Links, score : Int])
  BY <1>0 DEF SeekTypeOK
<1>5. CallInv'
  BY <1>0, <1>2, BusyRuns, RunningCall
<1>6. /\ \A b \in ToSet(seeker[w].books) : b \in ToSet(TaskOf(w).books) /\ TaskOf(w).answers
      /\ \A b \in Fitting(TaskOf(w)) : b \in ToSet(seeker[w].books) \/ KeyOf(TaskOf(w), b) \in seen
  BY <1>0 DEF SeenInv
<1>7. CASE ~ok
  <2>1. Turn(w, "offering", Tail(seeker[w].books)) /\ seen' = seen /\ counted' = counted
    BY <1>0, <1>1, <1>2, <1>3, <1>7, MovesTurn
  <2>2. SeekTypeOK'
    BY <1>0, <1>4, <2>1, TurnKeepsTypes
  <2>3. WorkersInv'
    BY <1>0, <1>2, <1>3, <2>1, TurnKeepsWorkers
  <2>4. SeenInv'
    <3>1. \A b \in ToSet(Tail(seeker[w].books)) : b \in ToSet(TaskOf(w).books) /\ TaskOf(w).answers
      BY <1>2, <1>6
    <3>2. Head1(w) \in Fitting(TaskOf(w)) => key \in seen
      BY <1>2, <1>7 DEF Fitting, ok
    <3>3. \A b \in Fitting(TaskOf(w)) :
            b \in ToSet(Tail(seeker[w].books)) \/ KeyOf(TaskOf(w), b) \in seen
      BY <1>2, <1>6, <3>2
    <3> QED
      BY <1>0, <1>2, <2>1, <3>1, <3>3, TurnKeepsSeen
  <2>5. OfferedInv'
    BY <1>0, <2>1, TurnKeepsOffered
  <2>6. TotalsInv'
    <3>1. Calling' = Calling /\ Asking' = Asking
      BY <1>0, <2>1, TurnSets DEF Calling, Asking
    <3>2. IsFiniteSet(Held') /\ Cardinality(Held') = Cardinality(Held) - 1 /\ Cardinality(Held) \in Nat
      BY <1>0, <2>1, HeldLess, FS_CardinalityType DEF TotalsInv
    <3>3. Len(offered) \in Nat /\ Len(offered) + Cardinality(Held) <= found /\ found \in Nat
      BY <1>0, SeekTypes DEF TotalsInv, SeekTypeOK
    <3>4. Len(offered') + Cardinality(Held') <= found'
      BY <1>0, <3>2, <3>3
    <3> QED
      BY <1>0, <3>1, <3>2, <3>4 DEF TotalsInv
  <2> QED
    BY <1>5, <2>2, <2>3, <2>4, <2>5, <2>6 DEF SeekInv
<1>8. CASE ok
  <2>1. /\ Turn(w, "counted", seeker[w].books) /\ seen' = seen \union {key} /\ counted' = counted + 1
        /\ Fits(Head1(w), wanted.author) /\ key \notin seen
    BY <1>0, <1>1, <1>3, <1>8, MovesTurn DEF ok
  <2>2. SeekTypeOK'
    <3>1. seen' \subseteq Origins \X Links /\ counted' \in Nat
      BY <1>2, <1>4, <2>1
    <3> QED
      BY <1>0, <1>4, <2>1, <3>1, TurnKeepsTypes
  <2>3. WorkersInv'
    BY <1>0, <1>2, <1>3, <2>1, TurnKeepsWorkers
  <2>4. SeenInv'
    <3>1. /\ At(w)' = "counted" /\ seeker'[w].task = seeker[w].task /\ seeker'[w].books = seeker[w].books
          /\ \A v \in Seekers : v # w => At(v)' = At(v) /\ seeker'[v] = seeker[v]
      BY <2>1 DEF Turn, At
    <3>2. /\ \A v \in Seekers : TaskOf(v)' = TaskOf(v) /\ (Busy(v)' <=> Busy(v))
          /\ \A t : Fitting(t)' = Fitting(t)
      BY <1>0, <1>2, <3>1 DEF TaskOf, Fitting, Busy
    <3>3. \A v \in Seekers : At(v)' \in {"answer", "offering", "counted"} =>
            /\ At(v) \in {"answer", "offering", "counted"} /\ seeker'[v].books = seeker[v].books
      BY <1>0, <3>1
    <3>4. \A v \in Seekers : At(v)' \in {"answer", "offering", "counted"} =>
           /\ \A b \in ToSet(seeker'[v].books) : b \in ToSet(TaskOf(v)'.books) /\ TaskOf(v)'.answers
           /\ \A b \in Fitting(TaskOf(v))' : b \in ToSet(seeker'[v].books) \/ KeyOf(TaskOf(v), b)' \in seen'
      BY <1>0, <2>1, <3>2, <3>3 DEF SeenInv, KeyOf, Fitting
    <3>5. \A i \in 1 .. nextTask' - 1 :
            (\A v \in Seekers : Busy(v)' => seeker'[v].task # i) =>
               \A b \in Fitting(wanted.sources[i])' : KeyOf(wanted.sources[i], b)' \in seen'
      BY <1>0, <2>1, <3>1, <3>2 DEF SeenInv, KeyOf, Fitting
    <3>6. \E i \in 1 .. Len(wanted.sources) : \E b \in Fitting(wanted.sources[i]) :
             key = KeyOf(wanted.sources[i], b)
      <4>1. seeker[w].task \in 1 .. Len(wanted.sources) /\ TaskOf(w) = wanted.sources[seeker[w].task]
        BY <1>0, <1>2, BusyTask
      <4>2. Head1(w) \in Fitting(TaskOf(w))
        BY <1>2, <2>1 DEF Fitting
      <4> QED
        BY <4>1, <4>2
    <3>7. \A k \in seen : \E i \in 1 .. Len(wanted.sources) : \E b \in Fitting(wanted.sources[i]) :
             k = KeyOf(wanted.sources[i], b)
      BY <1>0 DEF SeenInv
    <3>8. \A k \in seen' : \E i \in 1 .. Len(wanted.sources) : \E b \in Fitting(wanted.sources[i]) :
             k = KeyOf(wanted.sources[i], b)
      BY <2>1, <3>6, <3>7
    <3>9. \A k \in seen' : \E i \in 1 .. Len(wanted'.sources) : \E b \in Fitting(wanted.sources[i])' :
             k = KeyOf(wanted.sources[i], b)'
      BY <1>0, <3>2, <3>8 DEF KeyOf, Fitting
    <3> QED
      BY <3>4, <3>5, <3>9 DEF SeenInv, KeyOf
  <2>5. Noted' = {w}
    BY <1>0, <1>3, <2>1, TurnSets
  <2>6. OfferedInv'
    <3>1. OfferedKeys' = OfferedKeys /\ offered' = offered
      BY <1>0 DEF OfferedKeys
    <3>2. key' = key
      BY <1>0, <2>1 DEF Turn, KeyOf, TaskOf, Head1
    <3>3. seen = OfferedKeys /\ counted = Len(offered)
      <4>1. Cardinality({}) = 0 /\ Len(offered) \in Nat
        BY <1>0, FS_EmptySet, SeekTypes
      <4> QED
        BY <1>0, <1>3, <4>1 DEF OfferedInv
    <3>4. Cardinality({w}) = 1
      BY FS_Singleton
    <3>5. seen' = OfferedKeys' \union {KeyOf(TaskOf(v), Head1(v))' : v \in Noted'}
      BY <2>1, <2>5, <3>1, <3>2, <3>3
    <3>6. \A v \in Noted' : KeyOf(TaskOf(v), Head1(v))' \notin OfferedKeys'
      BY <2>1, <2>5, <3>1, <3>2, <3>3
    <3>7. counted' = Len(offered') + Cardinality(Noted')
      BY <2>1, <2>5, <3>1, <3>3, <3>4
    <3>8. \A k, l \in DOMAIN offered' :
            k # l => <<offered'[k].name, offered'[k].url>> # <<offered'[l].name, offered'[l].url>>
      BY <1>0 DEF OfferedInv
    <3> QED
      BY <3>5, <3>6, <3>7, <3>8 DEF OfferedInv
  <2>7. TotalsInv'
    <3>1. Calling' = Calling /\ Asking' = Asking
      BY <1>0, <2>1, TurnSets DEF Calling, Asking
    <3>2. Held' = Held
      BY <1>0, <2>1, HeldSame
    <3> QED
      BY <1>0, <3>1, <3>2 DEF TotalsInv
  <2> QED
    BY <1>5, <2>2, <2>3, <2>4, <2>6, <2>7 DEF SeekInv
<1> QED
  BY <1>7, <1>8

\* What was noted is offered.
LEMMA SeekOffersKeeps == ASSUME SeekInv, NEW w \in Seekers, SeekOffers(w) PROVE SeekInv'
<1> DEFINE key == KeyOf(TaskOf(w), Head1(w))
           M == Len(offered)
           event == [name |-> TaskOf(w).name, url |-> Head1(w).url,
                     score |-> Score(Head1(w), wanted.author)]
<1>0. /\ SeekTypeOK /\ WorkersInv /\ CallInv /\ SeenInv /\ OfferedInv /\ TotalsInv
      /\ At(w) = "counted" /\ seeker[w].books # <<>>
      /\ UNCHANGED <<wanted, apc, nextTask, mutex, seen, counted, found, errors, called, told>>
      /\ offered' = Append(offered, event) /\ Moves(w, "offering", Tail(seeker[w].books))
  BY SeekKnows DEF SeekOffers, At, WorkersInv, Head1
<1>1. /\ Busy(w) /\ TaskOf(w).answers = TRUE /\ TaskOf(w).name \in Origins /\ Head1(w).url \in Links
      /\ Score(Head1(w), wanted.author) \in Int
      /\ Head1(w) \in ToSet(TaskOf(w).books)
      /\ Tail(seeker[w].books) \in Seq(Candidates)
      /\ ToSet(seeker[w].books) = ToSet(Tail(seeker[w].books)) \union {Head1(w)}
  BY <1>0, SeekLooks
<1>2. mutex = {w} /\ Noted = {w} /\ "offering" \in SeekAts
  BY <1>0, OneLooks DEF SeekAts
<1>3. event \in [name : Origins, url : Links, score : Int] /\ <<event.name, event.url>> = key
  BY <1>1 DEF KeyOf
<1>4. /\ offered \in Seq([name : Origins, url : Links, score : Int])
      /\ M \in Nat /\ DOMAIN offered = 1 .. M
  BY <1>0, SeekTypes
<1> HIDE DEF event
<1>5. /\ offered' \in Seq([name : Origins, url : Links, score : Int])
      /\ Len(offered') = M + 1 /\ DOMAIN offered' = 1 .. M + 1
      /\ \A k \in 1 .. M : offered'[k] = offered[k]
      /\ offered'[M + 1] = event
  <2> HIDE DEF M
  <2>1. Len(offered) = M
    BY DEF M
  <2> QED
    BY <1>0, <1>3, <1>4, <2>1, AppendProperties, LenProperties
<1>6. Turn(w, "offering", Tail(seeker[w].books))
  BY <1>0, <1>1, <1>2, MovesTurn
<1>7. SeekTypeOK'
  <2>1. /\ seen' \subseteq Origins \X Links /\ counted' \in Nat /\ called' \in Nat /\ found' \in Nat
        /\ errors' \in Nat
    BY <1>0 DEF SeekTypeOK
  <2> QED
    BY <1>0, <1>5, <1>6, <2>1, TurnKeepsTypes
<1>8. WorkersInv'
  BY <1>0, <1>1, <1>2, <1>6, TurnKeepsWorkers
<1>9. CallInv'
  BY <1>0, <1>1, BusyRuns, RunningCall
<1>10. /\ seen = OfferedKeys \union {key} /\ key \notin OfferedKeys
       /\ counted = M + 1
       /\ \A k, l \in 1 .. M : k # l => <<offered[k].name, offered[k].url>> # <<offered[l].name, offered[l].url>>
  <2>1. Cardinality({w}) = 1
    BY FS_Singleton
  <2>2. seen = OfferedKeys \union {key} /\ key \notin OfferedKeys
    BY <1>0, <1>2 DEF OfferedInv
  <2>3. counted = M + 1
    BY <1>0, <1>2, <2>1 DEF OfferedInv
  <2> QED
    BY <1>0, <1>4, <2>2, <2>3 DEF OfferedInv
<1>11. SeenInv'
  <2>1. /\ \A b \in ToSet(seeker[w].books) : b \in ToSet(TaskOf(w).books) /\ TaskOf(w).answers
        /\ \A b \in Fitting(TaskOf(w)) : b \in ToSet(seeker[w].books) \/ KeyOf(TaskOf(w), b) \in seen
    BY <1>0 DEF SeenInv
  <2>2. \A b \in ToSet(Tail(seeker[w].books)) : b \in ToSet(TaskOf(w).books) /\ TaskOf(w).answers
    BY <1>1, <2>1
  <2>3. key \in seen
    BY <1>10
  <2>4. \A b \in Fitting(TaskOf(w)) :
          b \in ToSet(Tail(seeker[w].books)) \/ KeyOf(TaskOf(w), b) \in seen
    BY <1>1, <2>1, <2>3
  <2> QED
    BY <1>0, <1>1, <1>6, <2>2, <2>4, TurnKeepsSeen
<1>12. OfferedInv'
  <2>1. Noted' = {}
    BY <1>0, <1>2, <1>6, TurnSets
  <2>2. OfferedKeys' = OfferedKeys \union {key}
    <3> HIDE DEF M, key
    <3>1. 1 .. M + 1 = (1 .. M) \union {M + 1}
      BY <1>4
    <3>2. OfferedKeys' = {<<offered'[k].name, offered'[k].url>> : k \in 1 .. M + 1}
      BY <1>5 DEF OfferedKeys
    <3>3. OfferedKeys = {<<offered[k].name, offered[k].url>> : k \in 1 .. M}
      BY <1>4 DEF OfferedKeys
    <3> QED
      BY <1>3, <1>5, <3>1, <3>2, <3>3
  <2>3. \A k, l \in DOMAIN offered' :
          k # l => <<offered'[k].name, offered'[k].url>> # <<offered'[l].name, offered'[l].url>>
    <3> HIDE DEF M, key
    <3>1. \A k \in 1 .. M : <<offered'[k].name, offered'[k].url>> \in OfferedKeys
      BY <1>4, <1>5 DEF OfferedKeys
    <3>2. \A k \in 1 .. M + 1 : k \in 1 .. M \/ k = M + 1
      BY <1>4
    <3>3. \A k \in 1 .. M : <<offered'[k].name, offered'[k].url>> # key
      BY <1>10, <3>1
    <3>4. <<offered'[M + 1].name, offered'[M + 1].url>> = key
      BY <1>3, <1>5
    <3> QED
      BY <1>5, <1>10, <3>2, <3>3, <3>4
  <2>4. Cardinality({}) = 0
    BY FS_EmptySet
  <2>5. counted' = Len(offered') + Cardinality(Noted')
    BY <1>0, <1>4, <1>5, <1>10, <2>1, <2>4
  <2>6. seen' = OfferedKeys' \union {KeyOf(TaskOf(v), Head1(v))' : v \in Noted'}
    BY <1>0, <1>10, <2>1, <2>2
  <2> QED
    BY <2>1, <2>3, <2>5, <2>6 DEF OfferedInv
<1>13. TotalsInv'
  <2>1. Calling' = Calling /\ Asking' = Asking
    BY <1>0, <1>6, TurnSets DEF Calling, Asking
  <2>2. IsFiniteSet(Held') /\ Cardinality(Held') = Cardinality(Held) - 1 /\ Cardinality(Held) \in Nat
    BY <1>0, <1>6, HeldLess, FS_CardinalityType DEF TotalsInv
  <2>3. M + Cardinality(Held) <= found /\ found \in Nat
    BY <1>0 DEF TotalsInv, SeekTypeOK
  <2>4. Len(offered') + Cardinality(Held') <= found'
    BY <1>0, <1>4, <1>5, <2>2, <2>3
  <2> QED
    BY <1>0, <2>1, <2>2, <2>4 DEF TotalsInv
<1> QED
  BY <1>7, <1>8, <1>9, <1>11, <1>12, <1>13 DEF SeekInv

\* The callback returns.
LEMMA SeekUnlocksKeeps == ASSUME SeekInv, NEW w \in Seekers, SeekUnlocks(w) PROVE SeekInv'
<1>0. /\ SeekTypeOK /\ WorkersInv /\ CallInv /\ SeenInv /\ OfferedInv /\ TotalsInv
      /\ At(w) = "offering" /\ Busy(w) /\ seeker[w].books = <<>>
      /\ mutex' = mutex \ {w} /\ Moves(w, "idle", <<>>)
      /\ UNCHANGED <<wanted, apc, nextTask, seen, counted, offered, found, errors, called, told>>
  BY SeekKnows DEF SeekUnlocks, At, Busy
<1>1. mutex = {w} /\ "idle" \in SeekAts /\ <<>> \in Seq(Candidates)
  BY <1>0, OneLooks DEF SeekAts
<1>2. Turn(w, "idle", <<>>)
  BY <1>0, <1>1, MovesTurn
<1>3. SeekTypeOK'
  <2>1. /\ seen' \subseteq Origins \X Links
        /\ offered' \in Seq([name : Origins, url : Links, score : Int])
        /\ counted' \in Nat /\ called' \in Nat /\ found' \in Nat /\ errors' \in Nat
    BY <1>0 DEF SeekTypeOK
  <2> QED
    BY <1>0, <1>2, <2>1, TurnKeepsTypes
<1>4. WorkersInv'
  BY <1>0, <1>1, <1>2, TurnKeepsWorkers
<1>5. CallInv'
  BY <1>0, BusyRuns, RunningCall
<1>6. SeenInv'
  <2>1. \A b : b \notin ToSet(<<>>)
    BY DEF ToSet
  <2>2. \A b \in Fitting(TaskOf(w)) : KeyOf(TaskOf(w), b) \in seen
    BY <1>0, <2>1 DEF SeenInv
  <2> QED
    BY <1>0, <1>2, <2>2, TurnKeepsSeen
<1>7. OfferedInv'
  BY <1>0, <1>2, TurnKeepsOffered
<1>8. TotalsInv'
  <2>1. Calling' = Calling /\ Asking' = Asking
    BY <1>0, <1>2, TurnSets DEF Calling, Asking
  <2>2. Held' = Held
    BY <1>0, <1>2, HeldSame
  <2> QED
    BY <1>0, <2>1, <2>2 DEF TotalsInv
<1> QED
  BY <1>3, <1>4, <1>5, <1>6, <1>7, <1>8 DEF SeekInv

\* The totals are told, and the stream ends; nothing else is touched.
LEMMA SeekStaysKeeps ==
  ASSUME SeekInv, UNCHANGED <<wanted, nextTask, seeker, mutex, seen, counted, offered, found, errors,
                              called>>
  PROVE  WorkersInv' /\ SeenInv' /\ OfferedInv' /\ TotalsInv'
<1>0. WorkersInv /\ SeenInv /\ OfferedInv /\ TotalsInv
  BY SeekKnows
<1>1. WorkersInv'
  BY <1>0 DEF WorkersInv, Busy, At
<1>2. \A w \in Seekers : At(w)' = At(w) /\ TaskOf(w)' = TaskOf(w) /\ (Busy(w)' <=> Busy(w))
  BY DEF At, TaskOf, Busy
<1>3. SeenInv'
  <2>1. \A t : Fitting(t)' = Fitting(t)
    BY DEF Fitting
  <2>2. \A w \in Seekers : At(w)' \in {"answer", "offering", "counted"} =>
          /\ \A b \in ToSet(seeker'[w].books) : b \in ToSet(TaskOf(w)'.books) /\ TaskOf(w)'.answers
          /\ \A b \in Fitting(TaskOf(w))' : b \in ToSet(seeker'[w].books) \/ KeyOf(TaskOf(w), b)' \in seen'
    BY <1>0, <1>2 DEF SeenInv, KeyOf, Fitting
  <2>3. \A i \in 1 .. nextTask' - 1 : (\A w \in Seekers : Busy(w)' => seeker'[w].task # i) =>
          \A b \in Fitting(wanted.sources[i])' : KeyOf(wanted.sources[i], b)' \in seen'
    BY <1>0, <1>2, <2>1 DEF SeenInv, KeyOf, Fitting
  <2>4. \A k \in seen' : \E i \in 1 .. Len(wanted'.sources) : \E b \in Fitting(wanted.sources[i])' :
          k = KeyOf(wanted.sources[i], b)'
    BY <1>0, <2>1 DEF SeenInv, KeyOf, Fitting
  <2> QED
    BY <2>2, <2>3, <2>4 DEF SeenInv, KeyOf
<1>4. OfferedInv'
  BY <1>0 DEF OfferedInv, Noted, OfferedKeys, At, TaskOf, KeyOf, Head1
<1>5. TotalsInv'
  BY <1>0 DEF TotalsInv, Asking, Calling, Held, At
<1> QED
  BY <1>1, <1>3, <1>4, <1>5

\* There is a worker, and it ended when every task had been taken.
LEMMA SeekTellsKeeps == ASSUME SeekInv, SeekTells PROVE SeekInv'
<1>0. /\ SeekTypeOK /\ WorkersInv /\ \A w \in Seekers : At(w) = "ended"
      /\ told' = <<counted, found, Len(wanted.sources), errors>> /\ apc' = "told"
      /\ UNCHANGED <<wanted, nextTask, seeker, mutex, seen, counted, offered, found, errors, called>>
  BY SeekKnows DEF SeekTells, At
<1>1. nextTask = Len(wanted.sources) + 1
  <2>1. PICK w \in Seekers : TRUE
    BY OffersConstants
  <2> QED
    BY <1>0, <2>1 DEF WorkersInv
<1>2. \A w \in Seekers : ~Busy(w)'
  BY <1>0 DEF Busy, At
<1>3. CallInv'
  BY <1>0, <1>1, <1>2 DEF CallInv
<1>4. SeekTypeOK'
  <2>1. counted \in Nat /\ found \in Nat /\ errors \in Nat /\ Len(wanted.sources) \in Nat
    BY <1>0, SeekTypes DEF SeekTypeOK
  <2>2. told' \in Nat \X Nat \X Nat \X Nat
    BY <1>0, <2>1
  <2> QED
    BY <1>0, <2>2 DEF SeekTypeOK
<1> QED
  BY <1>0, <1>3, <1>4, SeekStaysKeeps DEF SeekInv

LEMMA SeekClosesKeeps == ASSUME SeekInv, SeekCloses PROVE SeekInv'
<1>0. /\ SeekTypeOK /\ CallInv /\ apc = "told" /\ apc' = "closed"
      /\ UNCHANGED <<wanted, nextTask, seeker, mutex, seen, counted, offered, found, errors, called, told>>
  BY SeekKnows DEF SeekCloses
<1>1. CallInv'
  BY <1>0 DEF CallInv, Busy, At
<1>2. SeekTypeOK'
  BY <1>0 DEF SeekTypeOK
<1> QED
  BY <1>0, <1>1, <1>2, SeekStaysKeeps DEF SeekInv

\* At the start every worker is at ease.
LEMMA SeekStarts ==
  ASSUME NEW o \in [author : BOOLEAN, sources : Seq(Inquiries)], NEW stage \in {"asked", "closed"},
         stage = "closed" => o.sources = <<>>, SeekStart(o, stage)
  PROVE  SeekInv
<1>2. /\ wanted = o /\ apc = stage /\ nextTask = 1
      /\ seeker = [w \in Seekers |-> AtEase] /\ mutex = {} /\ seen = {}
      /\ counted = 0 /\ offered = <<>> /\ found = 0 /\ errors = 0 /\ called = 0
      /\ told = <<0, 0, 0, 0>>
  BY DEF SeekStart
<1>3. /\ wanted \in [author : BOOLEAN, sources : Seq(Inquiries)] /\ Len(wanted.sources) \in Nat
      /\ apc = "closed" => Len(wanted.sources) = 0
  BY <1>2, LenProperties
<1>4. \A w \in Seekers : At(w) = "idle" /\ seeker[w].books = <<>> /\ ~Busy(w)
  BY <1>2 DEF AtEase, At, Busy
<1>5. Noted = {} /\ Asking = {} /\ Calling = {} /\ Cardinality({}) = 0 /\ IsFiniteSet({})
  BY <1>4, FS_EmptySet DEF Noted, Asking, Calling
<1>6. Held = {}
  <2>1. \A w \in Seekers : 1 .. Len(seeker[w].books) = {}
    BY <1>4
  <2> QED
    BY <2>1 DEF Held
<1>7. SeekTypeOK
  <2>1. AtEase \in [at : {"idle", "searching", "answer", "offering", "counted", "ended"},
                    task : 0 .. Len(wanted.sources), books : Seq(Candidates)]
    BY <1>3 DEF AtEase
  <2>2. nextTask \in 1 .. Len(wanted.sources) + 1
    BY <1>2, <1>3
  <2>3. told \in Nat \X Nat \X Nat \X Nat
    BY <1>2
  <2>4. Cardinality(mutex) <= 1
    BY <1>2, <1>5
  <2> QED
    BY <1>2, <1>3, <2>1, <2>2, <2>3, <2>4 DEF SeekTypeOK
<1>8. WorkersInv
  BY <1>2, <1>4 DEF WorkersInv
<1>9. CallInv
  BY <1>2, <1>3, <1>4 DEF CallInv
<1>10. SeenInv
  BY <1>2, <1>4 DEF SeenInv
<1>11. OfferedInv
  <2>1. OfferedKeys = {} /\ Len(offered) = 0 /\ DOMAIN offered = {}
    BY <1>2 DEF OfferedKeys
  <2> QED
    BY <1>2, <1>5, <2>1 DEF OfferedInv
<1>12. TotalsInv
  BY <1>2, <1>5, <1>6 DEF TotalsInv
<1> QED
  BY <1>7, <1>8, <1>9, <1>10, <1>11, <1>12 DEF SeekInv

LEMMA InitSeek == SeekInit => SeekInv
<1> SUFFICES ASSUME NEW o \in Offers, SeekStart(o, "asked") PROVE SeekInv
  BY DEF SeekInit
<1>1. o \in [author : BOOLEAN, sources : Seq(Inquiries)]
  BY OffersConstants
<1> QED
  BY <1>1, SeekStarts

\* Every step.
LEMMA StepSeek == SeekInv /\ [SeekNext]_seekVars => SeekInv'
<1> SUFFICES ASSUME SeekInv, [SeekNext]_seekVars PROVE SeekInv'
  OBVIOUS
<1>1. CASE UNCHANGED seekVars
  <2>1. UNCHANGED <<wanted, apc, nextTask, seeker, mutex, seen, counted, offered, found, errors, called, told>>
    BY <1>1 DEF seekVars
  <2>2. CallInv'
    BY <2>1, SeekKnows DEF CallInv, Busy, At
  <2>3. SeekTypeOK'
    BY <2>1, SeekKnows DEF SeekTypeOK
  <2> QED
    BY <2>1, <2>2, <2>3, SeekStaysKeeps DEF SeekInv
<1>2. CASE SeekBegins \/ SeekTells \/ SeekCloses
  BY <1>2, SeekBeginsKeeps, SeekTellsKeeps, SeekClosesKeeps
<1>3. ASSUME NEW w \in Seekers,
             \/ SeekTakes(w) \/ SeekFetches(w) \/ SeekLocks(w)
             \/ SeekChecks(w) \/ SeekOffers(w) \/ SeekUnlocks(w)
      PROVE  SeekInv'
  BY <1>3, SeekTakesKeeps, SeekFetchesKeeps, SeekLocksKeeps, SeekChecksKeeps, SeekOffersKeeps,
     SeekUnlocksKeeps
<1> QED
  BY <1>1, <1>2, <1>3 DEF SeekNext

LEMMA SeekInvariant == SeekSpec => []SeekInv
  BY InitSeek, StepSeek, PTL DEF SeekSpec

\* The types of a search for other sources.
THEOREM SeekTypeCorrect == SeekSpec => []SeekTypeOK
<1>1. SeekInv => SeekTypeOK
  BY DEF SeekInv
<1> QED
  BY <1>1, SeekInvariant, PTL

\* When the numbers are told, nobody holds a task, a book or the callback any more.
LEMMA CandidatesAgree ==
  ASSUME SeekInv
  PROVE  CandidatesAreTold
<1> DEFINE all == ToSet(wanted.sources)
           good == {t \in all : t.answers}
           N == Len(wanted.sources)
<1>0. SeekTypeOK /\ CallInv /\ SeenInv /\ OfferedInv /\ TotalsInv
  BY SeekKnows
<1>1. \A k, l \in DOMAIN offered :
        k # l => <<offered[k].name, offered[k].url>> # <<offered[l].name, offered[l].url>>
  BY <1>0 DEF OfferedInv
<1>2. ASSUME apc \in {"told", "closed"}
      PROVE  /\ {<<offered[k].name, offered[k].url>> : k \in DOMAIN offered}
                  = UNION {{<<t.name, b.url>> : b \in {x \in ToSet(t.books) : Fits(x, wanted.author)}} :
                           t \in good}
             /\ told[1] = Len(offered) /\ called = told[3]
             /\ told[2] >= Len(offered) /\ told[4] <= told[3]
  <2>1. /\ nextTask = N + 1 /\ \A w \in Seekers : ~Busy(w)
        /\ told = <<counted, found, N, errors>>
    BY <1>0, <1>2 DEF CallInv
  <2>2. /\ Noted = {} /\ Asking = {} /\ Calling = {} /\ Cardinality({}) = 0
        /\ N \in Nat /\ Len(offered) \in Nat /\ wanted.sources \in Seq(Inquiries)
    BY <1>0, <2>1, FS_EmptySet, SeekTypes DEF Noted, Asking, Calling, Busy
  <2>3. seen = OfferedKeys /\ counted = Len(offered)
    <3>1. seen = OfferedKeys
      BY <1>0, <2>2 DEF OfferedInv
    <3>2. counted = Len(offered) + 0
      BY <1>0, <2>2 DEF OfferedInv
    <3> QED
      BY <2>2, <3>1, <3>2
  <2>4. \A i \in 1 .. N : \A b \in Fitting(wanted.sources[i]) : KeyOf(wanted.sources[i], b) \in seen
    <3>1. \A i \in 1 .. N : i \in 1 .. nextTask - 1
      BY <2>1, <2>2
    <3>2. \A i \in 1 .. nextTask - 1 :
            \A b \in Fitting(wanted.sources[i]) : KeyOf(wanted.sources[i], b) \in seen
      BY <1>0, <2>1 DEF SeenInv
    <3> QED
      BY <3>1, <3>2
  <2>5. \A k \in seen : \E i \in 1 .. N : \E b \in Fitting(wanted.sources[i]) :
           k = KeyOf(wanted.sources[i], b)
    BY <1>0 DEF SeenInv
  <2>6. all = {wanted.sources[i] : i \in 1 .. N}
    BY <2>2, LenProperties DEF ToSet
  <2>7. \A x : x \in UNION {{<<t.name, b.url>> : b \in {y \in ToSet(t.books) : Fits(y, wanted.author)}} :
                            t \in good}
               <=> \E t \in all : \E b \in Fitting(t) : x = KeyOf(t, b)
    BY DEF Fitting, KeyOf
  <2>8. \A x : x \in seen <=> \E t \in all : \E b \in Fitting(t) : x = KeyOf(t, b)
    <3> HIDE DEF all, N
    <3> QED
      BY <2>4, <2>5, <2>6
  <2>9. OfferedKeys = UNION {{<<t.name, b.url>> : b \in {y \in ToSet(t.books) : Fits(y, wanted.author)}} :
                         t \in good}
    <3> HIDE DEF good, all
    <3> QED
      BY <2>3, <2>7, <2>8
  <2>10. told[1] = Len(offered) /\ told[2] = found /\ told[3] = N /\ told[4] = errors
    BY <2>1, <2>3
  <2>11. called = N /\ errors <= N
    <3>1. called \in Nat /\ errors \in Nat
      BY <1>0 DEF SeekTypeOK
    <3>2. called + 0 = nextTask - 1 /\ errors + 0 <= nextTask - 1
      BY <1>0, <2>2 DEF TotalsInv
    <3> QED
      BY <2>1, <2>2, <3>1, <3>2
  <2>12. found >= Len(offered)
    <3>1. Cardinality(Held) \in Nat /\ found \in Nat /\ Len(offered) + Cardinality(Held) <= found
      BY <1>0, FS_CardinalityType DEF TotalsInv, SeekTypeOK
    <3> QED
      BY <2>2, <3>1
  <2> QED
    BY <2>9, <2>10, <2>11, <2>12 DEF OfferedKeys
<1> QED
  BY <1>1, <1>2 DEF CandidatesAreTold

\* Every book that fits is offered, once, before the number of offers is told, and the number is
\* right (engine_auto_source.cpp:124, 137, engine_search_all.cpp:289).
THEOREM CandidatesHold == SeekSpec => []CandidatesAreTold
  BY CandidatesAgree, SeekInvariant, PTL

-----------------------------------------------------------------------------
(* The grading of one source. *)

USE DEF NoRuntime

\* The places of a path in which it has a runtime.
Working == {"search", "pick", "book", "toc", "chapter", "release"}

Places == Working \union {"start", "gone"}
Reasons == {"error", "silent", "empty", "books", "success"}
AllFound == {"list", "catalog", "text"}

-----------------------------------------------------------------------------
(* Time. *)

\* The constants, one by one.
LEMMA Constants ==
  /\ PoolMax \in Nat /\ MaxBooks \in Nat /\ Budget \in Nat /\ Timeout \in Nat
  /\ MinTimeout \in Nat /\ Durations \subseteq Nat /\ RuleWork \subseteq Nat
  BY GradeConstants

\* A request that is sent takes at most what is left, or the shortest timeout.
LEMMA LimitBound ==
  ASSUME NEW now \in Nat, now < Budget
  PROVE  Limit(now) \in Nat /\ now + Limit(now) <= Budget + MinTimeout
  BY Constants DEF Limit

\* What a request and the rules on its answer take.
LEMMA AnswerBound ==
  ASSUME NEW now \in Nat, NEW a \in Answered(now)
  PROVE  /\ a.took \in Nat /\ a.work \in Nat /\ a.brings \in BOOLEAN
         /\ a.work \in RuleWork \union {0}
         /\ now < Budget => now + a.took <= Budget + MinTimeout
         /\ now >= Budget => a.took = 0 /\ a.work = 0 /\ a.brings = FALSE
<1>1. CASE now >= Budget
  <2>1. a = [took |-> 0, work |-> 0, brings |-> FALSE]
    BY <1>1 DEF Answered
  <2> QED
    BY <2>1, <1>1, Constants
<1>2. CASE ~(now >= Budget)
  <2>1. now < Budget
    BY <1>2, Constants
  <2>2. Limit(now) \in Nat /\ now + Limit(now) <= Budget + MinTimeout
    BY <2>1, LimitBound
  <2> DEFINE intime == {d \in Durations : d <= Limit(now)}
  <2>3. a \in [took : intime, work : RuleWork, brings : {TRUE}]
              \union [took : intime \union {Limit(now)}, work : {0}, brings : {FALSE}]
    BY <1>2 DEF Answered
  <2>4. /\ a.took \in intime \union {Limit(now)} /\ a.work \in RuleWork \union {0}
        /\ a.brings \in BOOLEAN
    BY <2>3
  <2>5. a.took \in Nat /\ a.took <= Limit(now)
    <3>1. a.took = Limit(now) \/ (a.took \in Durations /\ a.took <= Limit(now))
      BY <2>4
    <3>2. CASE a.took = Limit(now)
      BY <3>2, <2>2
    <3>3. CASE a.took \in Durations /\ a.took <= Limit(now)
      BY <3>3, Constants
    <3> QED
      BY <3>1, <3>2, <3>3
  <2>6. now + a.took <= Budget + MinTimeout
    BY <2>2, <2>5, Constants
  <2>7. a.work \in Nat
    <3>1. CASE a.work = 0
      BY <3>1
    <3>2. CASE a.work \in RuleWork
      BY <3>2, Constants
    <3> QED
      BY <2>4, <3>1, <3>2
  <2> QED
    BY <1>2, <2>4, <2>5, <2>6, <2>7
<1> QED
  BY <1>1, <1>2

-----------------------------------------------------------------------------
(* The record of one path. *)

\* What one path looks like: its types, its clock, and what it has reached so far.
Path(m) ==
    [at : Places, js : 0 .. m, now : Nat, search : Nat, book : Nat, left : 0 .. MaxBooks,
     why : Reasons, latency : Nat, seen : SUBSET AllFound]

Within(n) == \E w \in RuleWork \union {0} : n <= Budget + MinTimeout + w

\* The latency that counts is no more than what has passed, and success comes after a list,
\* a catalog and a text.
Earning(p) ==
    /\ Within(p.now)
    /\ p.at \in {"search", "start"} => p.why # "success"
    /\ p.at = "pick" => p.search <= p.now /\ p.why # "success"
    /\ p.at \in {"book", "toc", "chapter"} => p.search + p.book <= p.now /\ p.why # "success"
    /\ p.at \in {"book", "toc"} => p.seen = {"list"}
    /\ p.at = "chapter" => p.seen = {"list", "catalog"}
    /\ p.why = "success" => /\ p.at \in {"release", "gone"}
                            /\ p.seen = AllFound /\ p.latency <= p.now

PathsInv == made \in Nat /\ paths \in [Keywords -> Path(made)] /\ \A k \in Keywords : Earning(paths[k])

\* The changes a step makes to its path: the beginning ...
LEMMA Begun ==
  ASSUME NEW m \in Nat, NEW p \in Path(m), NEW js \in 1 .. m
  PROVE  [p EXCEPT !.at = "search", !.js = js] \in Path(m)
<1>1. js \in 0 .. m /\ "search" \in Places
  BY DEF Places, Working
<1> QED
  BY <1>1 DEF Path

\* ... the search ...
LEMMA SearchedPath ==
  ASSUME NEW m \in Nat, NEW p \in Path(m), NEW at \in Places, NEW now \in Nat, NEW search \in Nat,
         NEW left \in 0 .. MaxBooks, NEW reached \in SUBSET AllFound, NEW why \in Reasons
  PROVE  [p EXCEPT !.at = at, !.now = now, !.search = search, !.left = left, !.seen = reached,
                   !.why = why] \in Path(m)
  BY DEF Path

\* ... a page that was read ...
LEMMA ListRead ==
  ASSUME NEW m \in Nat, NEW p \in Path(m), NEW at \in Places, NEW now \in Nat, NEW book \in Nat,
         NEW reached \in SUBSET AllFound, NEW why \in Reasons, NEW latency \in Nat
  PROVE  [p EXCEPT !.at = at, !.now = now, !.book = book, !.seen = reached, !.why = why,
                   !.latency = latency] \in Path(m)
  BY DEF Path

\* ... and its end.
LEMMA Done ==
  ASSUME NEW m \in Nat, NEW now \in Nat, NEW why \in Reasons, NEW latency \in Nat,
         NEW reached \in SUBSET AllFound
  PROVE  [NewPath EXCEPT !.at = "gone", !.now = now, !.why = why, !.latency = latency,
                         !.seen = reached] \in Path(m)
<1>1. /\ "gone" \in Places /\ "start" \in Places /\ "error" \in Reasons /\ {} \in SUBSET AllFound
      /\ 0 \in 0 .. m /\ 0 \in 0 .. MaxBooks
  BY Constants DEF Places, Working, Reasons
<1>2. NewPath \in Path(m)
  BY <1>1 DEF NewPath, Path
<1>3. ASSUME NEW p \in Path(m)
      PROVE  [p EXCEPT !.at = "gone", !.now = now, !.why = why, !.latency = latency,
                       !.seen = reached] \in Path(m)
  BY <1>1 DEF Path
<1> QED
  BY <1>2, <1>3

\* Nothing has passed at first.
LEMMA NothingPassed == Within(0)
  BY Constants DEF Within

\* After a request that began within the budget.
LEMMA StillWithin ==
  ASSUME NEW now \in Nat, Within(now), NEW a \in Answered(now)
  PROVE  Within(now + a.took + a.work) /\ now + a.took + a.work \in Nat
<1>1. /\ a.took \in Nat /\ a.work \in Nat /\ a.work \in RuleWork \union {0}
      /\ now < Budget => now + a.took <= Budget + MinTimeout
      /\ now >= Budget => a.took = 0 /\ a.work = 0
  BY AnswerBound
<1>2. CASE now < Budget
  <2>1. now + a.took + a.work <= Budget + MinTimeout + a.work
    BY <1>1, <1>2, Constants
  <2> QED
    BY <2>1, <1>1 DEF Within
<1>3. CASE now >= Budget
  <2>1. now + a.took + a.work = now
    BY <1>1, <1>3
  <2> QED
    BY <2>1
<1> QED
  BY <1>2, <1>3, Constants

\* A path steps to q and the others stay: the invariant of the paths is that of q.
LEMMA OnePath ==
  ASSUME PathsInv, NEW k \in Keywords, NEW q \in Path(made), Earning(q),
         paths' = [paths EXCEPT ![k] = q], made' = made
  PROVE  PathsInv'
  BY DEF PathsInv

\* Where the paths begin.
LEMMA InitPaths ==
  ASSUME NEW threads, NEW warm \in 0 .. PoolMax, GradeStart(threads, warm)
  PROVE  PathsInv
<1> DEFINE From(stage) == [NewPath EXCEPT !.at = stage]
<1>1. made = warm /\ made \in Nat
  BY Constants DEF GradeStart
<1>2. ASSUME NEW stage \in {"start", "gone"}
      PROVE  From(stage) \in Path(made) /\ Earning(From(stage))
  <2>1. From(stage) \in Path(made)
    BY <1>1, Constants DEF NewPath, Path, Places, Working, Reasons, AllFound
  <2>2. Earning(From(stage))
    BY NothingPassed DEF NewPath, Earning
  <2> QED
    BY <2>1, <2>2
<1>3. paths = [k \in Keywords |-> From(IF k \in threads THEN "start" ELSE "gone")]
  BY DEF GradeStart, NewPath
<1> HIDE DEF From
<1> QED
  BY <1>1, <1>2, <1>3 DEF PathsInv

\* A runtime is taken: there may be one more.
LEMMA AcquirePaths ==
  ASSUME PathsInv, pool \in Seq(1 .. made), NEW k \in Keywords, Acquire(k)
  PROVE  PathsInv'
<1> DEFINE runtime == IF pool = <<>> THEN made + 1 ELSE pool[Len(pool)]
           p == paths[k]
           q == [p EXCEPT !.at = "search", !.js = runtime]
<1>1. paths' = [paths EXCEPT ![k] = q]
  BY DEF Acquire, PathsInv
<1>2. made' \in Nat /\ made <= made' /\ runtime \in 1 .. made'
  <2>1. CASE pool = <<>>
    BY <2>1 DEF Acquire, PathsInv
  <2>2. CASE pool # <<>>
    <3>1. Len(pool) \in 1 .. Len(pool)
      BY <2>2, EmptySeq
    <3> QED
      BY <2>2, <3>1, ElementOfSeq DEF Acquire, PathsInv
  <2> QED
    BY <2>1, <2>2
<1>3. \A r \in Path(made) : r \in Path(made')
  BY <1>2 DEF Path, PathsInv
<1>4. p \in Path(made) /\ Earning(p) /\ p.at = "start"
  BY DEF PathsInv, Acquire
<1> HIDE DEF runtime
<1>5. q \in Path(made')
  BY <1>2, <1>3, <1>4, Begun DEF PathsInv
<1>6. Earning(q)
  BY <1>4 DEF Earning, Path, AllFound
<1> HIDE DEF q, p
<1> QED
  BY <1>1, <1>2, <1>3, <1>5, <1>6 DEF PathsInv

\* The search.
LEMMA SearchPaths ==
  ASSUME PathsInv, NEW k \in Keywords, SearchOnce(k)
  PROVE  PathsInv'
<1> DEFINE p == paths[k]
<1>1. p \in Path(made) /\ Earning(p) /\ p.at = "search" /\ made' = made
  BY DEF PathsInv, SearchOnce
<1>2. CASE paths' = [paths EXCEPT ![k].at = "release", ![k].why = "error"]
  <2> DEFINE q == [p EXCEPT !.at = "release", !.why = "error"]
  <2>1. paths' = [paths EXCEPT ![k] = q]
    BY <1>2 DEF PathsInv
  <2>2. q \in Path(made)
    BY <1>1 DEF Path, Places, Working, Reasons
  <2>3. Earning(q)
    BY <1>1 DEF Earning, Path
  <2> HIDE DEF q
  <2> QED
    BY <1>1, <2>1, <2>2, <2>3, OnePath
<1> DEFINE Steps(a, books) == paths' = [paths EXCEPT
                ![k].at = IF books = 0 THEN "release" ELSE "pick",
                ![k].now = @ + a.took + a.work,
                ![k].search = a.took + a.work,
                ![k].left = books,
                ![k].seen = IF books = 0 THEN {} ELSE {"list"},
                ![k].why = IF books > 0 THEN "books" ELSE IF a.brings THEN "empty" ELSE "silent"]
<1>3. ASSUME NEW a \in Answered(p.now),
             NEW books \in IF a.brings THEN 0 .. MaxBooks ELSE {0}, Steps(a, books)
      PROVE  PathsInv'
  <2> DEFINE why == IF books > 0 THEN "books" ELSE IF a.brings THEN "empty" ELSE "silent"
             q == [p EXCEPT !.at = IF books = 0 THEN "release" ELSE "pick",
                            !.now = @ + a.took + a.work,
                            !.search = a.took + a.work,
                            !.left = books,
                            !.seen = IF books = 0 THEN {} ELSE {"list"},
                            !.why = why]
  <2>1. paths' = [paths EXCEPT ![k] = q]
    BY <1>3 DEF PathsInv
  <2>2. p.now \in Nat /\ Within(p.now)
    BY <1>1 DEF Path, Earning
  <2>3. a.took \in Nat /\ a.work \in Nat
    BY <2>2, AnswerBound
  <2>4. Within(p.now + a.took + a.work) /\ p.now + a.took + a.work \in Nat
    BY <2>2, StillWithin
  <2>5. books \in 0 .. MaxBooks
    BY Constants
  <2>6. why \in Reasons /\ why # "success"
    BY DEF Reasons
  <2> HIDE DEF why
  <2>71. a.took + a.work \in Nat
    BY <2>3
  <2>72. /\ (IF books = 0 THEN "release" ELSE "pick") \in Places
         /\ (IF books = 0 THEN {} ELSE {"list"}) \in SUBSET AllFound
    BY DEF Places, Working, AllFound
  <2>73. made \in Nat
    BY DEF PathsInv
  <2> DEFINE at == IF books = 0 THEN "release" ELSE "pick"
             reached == IF books = 0 THEN {} ELSE {"list"}
             search == a.took + a.work
             now == p.now + a.took + a.work
  <2>74. /\ at \in Places /\ reached \in SUBSET AllFound /\ search \in Nat /\ now \in Nat
         /\ q = [p EXCEPT !.at = at, !.now = now, !.search = search, !.left = books,
                         !.seen = reached, !.why = why]
    BY <2>4, <2>71, <2>72
  <2> HIDE DEF at, reached, search, now, q
  <2>7. q \in Path(made)
    BY <1>1, <2>5, <2>6, <2>73, <2>74, SearchedPath
  <2>8. /\ q.now = p.now + a.took + a.work /\ q.search = a.took + a.work /\ q.why = why
        /\ q.at \in {"release", "pick"}
    BY <1>1 DEF Path, q
  <2>9. q.search <= q.now
    BY <2>2, <2>3, <2>8
  <2>10. Earning(q)
    BY <2>4, <2>6, <2>8, <2>9 DEF Earning
  <2> QED
    BY <1>1, <2>1, <2>7, <2>10, OnePath
<1>4. \/ paths' = [paths EXCEPT ![k].at = "release", ![k].why = "error"]
      \/ \E a \in Answered(p.now) :
            \E books \in IF a.brings THEN 0 .. MaxBooks ELSE {0} : Steps(a, books)
  BY DEF SearchOnce
<1> HIDE DEF Steps
<1> QED
  BY <1>2, <1>3, <1>4

\* The next book.
LEMMA PickPaths ==
  ASSUME PathsInv, NEW k \in Keywords, Pick(k)
  PROVE  PathsInv'
<1> DEFINE p == paths[k]
<1>1. p \in Path(made) /\ Earning(p) /\ p.at = "pick" /\ made' = made
  BY DEF PathsInv, Pick
<1>2. CASE p.left = 0 \/ p.now >= Budget
  <2> DEFINE q == [p EXCEPT !.at = "release"]
  <2>1. paths' = [paths EXCEPT ![k] = q]
    BY <1>2 DEF PathsInv, Pick
  <2>2. q \in Path(made)
    BY <1>1 DEF Path, Places, Working
  <2>3. Earning(q)
    BY <1>1 DEF Earning, Path
  <2> HIDE DEF q
  <2> QED
    BY <1>1, <2>1, <2>2, <2>3, OnePath
<1>3. CASE ~(p.left = 0 \/ p.now >= Budget)
  <2>1. PICK known \in BOOLEAN, w \in RuleWork :
          paths' = [paths EXCEPT ![k].at = IF known THEN "book" ELSE "pick",
                                 ![k].now = @ + w, ![k].left = @ - 1,
                                 ![k].book = 0, ![k].seen = {"list"}]
    BY <1>3 DEF Pick
  <2> DEFINE q == [p EXCEPT !.at = IF known THEN "book" ELSE "pick", !.now = @ + w,
                            !.left = @ - 1, !.book = 0, !.seen = {"list"}]
  <2>2. paths' = [paths EXCEPT ![k] = q]
    BY <2>1 DEF PathsInv
  <2>3. p.now \in Nat /\ p.search \in Nat /\ p.left \in 1 .. MaxBooks /\ w \in Nat
    BY <1>1, <1>3, Constants DEF Path
  <2>4. p.now < Budget
    BY <1>3, <2>3, Constants
  <2>5. p.now + w \in Nat /\ p.left - 1 \in 0 .. MaxBooks
    BY <2>3, Constants
  <2>6. q \in Path(made)
    BY <1>1, <2>5 DEF Path, Places, Working, AllFound
  <2>7. /\ q.now = p.now + w /\ q.search = p.search /\ q.book = 0 /\ q.seen = {"list"}
        /\ q.at \in {"book", "pick"} /\ q.why = p.why
    BY <1>1 DEF Path
  <2>8. p.now + w <= Budget + MinTimeout + w
    BY <2>3, <2>4, Constants
  <2>9. Within(q.now)
    BY <2>7, <2>8 DEF Within
  <2>10. p.search <= p.now /\ p.why # "success"
    BY <1>1 DEF Earning
  <2>11. q.search <= q.now /\ q.search + q.book <= q.now
    BY <2>3, <2>7, <2>10
  <2>12. Earning(q)
    BY <2>7, <2>9, <2>10, <2>11 DEF Earning
  <2> HIDE DEF q
  <2> QED
    BY <1>1, <2>2, <2>6, <2>12, OnePath
<1> QED
  BY <1>2, <1>3

\* A page, the book's, a further one of its catalog or its first chapter.
LEMMA PagePaths ==
  ASSUME PathsInv, NEW k \in Keywords, NEW outcomes, OnePage(k, outcomes),
         \/ paths[k].at \in {"book", "toc"} /\ outcomes \subseteq {"chapter", "toc", "pick"}
         \/ paths[k].at = "chapter" /\ outcomes \subseteq {"release", "pick"}
  PROVE  PathsInv'
<1> DEFINE p == paths[k]
<1>1. p \in Path(made) /\ Earning(p) /\ p.at \in {"book", "toc", "chapter"} /\ made' = made
  BY DEF PathsInv, OnePage
<1> DEFINE Steps(a, next) == paths' = [paths EXCEPT
            ![k].at = next,
            ![k].now = @ + a.took + a.work,
            ![k].book = @ + a.took,
            ![k].seen = IF next = "chapter" THEN @ \union {"catalog"}
                        ELSE IF next = "release" THEN @ \union {"text"} ELSE @,
            ![k].why = IF next = "release" THEN "success" ELSE @,
            ![k].latency = IF next = "release" THEN paths[k].search + paths[k].book + a.took ELSE @]
<1>2. PICK a \in Answered(p.now) :
        \E next \in IF a.brings THEN outcomes ELSE {"pick"} : Steps(a, next)
  BY DEF OnePage
<1>20. PICK next \in IF a.brings THEN outcomes ELSE {"pick"} : Steps(a, next)
  BY <1>2
<1> DEFINE reached == IF next = "chapter" THEN p.seen \union {"catalog"}
                   ELSE IF next = "release" THEN p.seen \union {"text"} ELSE p.seen
           why == IF next = "release" THEN "success" ELSE p.why
           latency == IF next = "release" THEN p.search + p.book + a.took ELSE p.latency
           q == [p EXCEPT !.at = next, !.now = @ + a.took + a.work, !.book = @ + a.took,
                          !.seen = reached, !.why = why, !.latency = latency]
<1>3. paths' = [paths EXCEPT ![k] = q]
  BY <1>20 DEF PathsInv
<1>4. /\ p.now \in Nat /\ p.search \in Nat /\ p.book \in Nat /\ p.latency \in Nat
      /\ Within(p.now) /\ p.seen \subseteq AllFound /\ p.why \in Reasons
  BY <1>1 DEF Path, Earning
<1>5. a.took \in Nat /\ a.work \in Nat
  BY <1>4, AnswerBound
<1>6. Within(p.now + a.took + a.work) /\ p.now + a.took + a.work \in Nat
  BY <1>4, StillWithin
<1>7. /\ next \in {"chapter", "toc", "pick", "release"}
      /\ next \in {"chapter", "toc"} => p.at \in {"book", "toc"}
      /\ next = "release" => p.at = "chapter"
  OBVIOUS
<1>8. /\ p.search + p.book <= p.now /\ p.why # "success"
      /\ p.at \in {"book", "toc"} => p.seen = {"list"}
      /\ p.at = "chapter" => p.seen = {"list", "catalog"}
  BY <1>1 DEF Earning
<1>9. reached \subseteq AllFound /\ why \in Reasons /\ latency \in Nat
  BY <1>4, <1>5 DEF AllFound, Reasons
<1>10. /\ next = "chapter" => reached = {"list", "catalog"}
       /\ next = "toc" => reached = {"list"}
       /\ next = "release" => reached = AllFound
  BY <1>7, <1>8 DEF AllFound
<1>11. /\ next = "release" => why = "success" /\ latency = p.search + p.book + a.took
       /\ next # "release" => why = p.why
  OBVIOUS
<1> HIDE DEF reached, why, latency
<1>121. p.book + a.took \in Nat
  BY <1>4, <1>5
<1>122. next \in Places
  BY <1>7 DEF Places, Working
<1>12. q \in Path(made)
  BY <1>1, <1>6, <1>9, <1>121, <1>122, ListRead DEF PathsInv
<1>13. /\ q.at = next /\ q.now = p.now + a.took + a.work /\ q.book = p.book + a.took
       /\ q.seen = reached /\ q.why = why /\ q.latency = latency /\ q.search = p.search
  BY <1>1 DEF Path
<1>14. /\ q.search + q.book <= q.now /\ q.search <= q.now
       /\ next = "release" => q.latency <= q.now
  BY <1>4, <1>5, <1>8, <1>11, <1>13
<1>15. Earning(q)
  BY <1>6, <1>7, <1>8, <1>10, <1>11, <1>13, <1>14 DEF Earning
<1> HIDE DEF q
<1> QED
  BY <1>1, <1>3, <1>12, <1>15, OnePath

\* The end of a path.
LEMMA ReleasePaths ==
  ASSUME PathsInv, NEW k \in Keywords, Release(k)
  PROVE  PathsInv'
<1> DEFINE p == paths[k]
           reached == IF p.why = "success" THEN p.seen ELSE {}
           q == [NewPath EXCEPT !.at = "gone", !.now = p.now, !.why = p.why,
                                !.latency = p.latency, !.seen = reached]
<1>1. p \in Path(made) /\ Earning(p) /\ made' = made /\ made \in Nat
  BY DEF PathsInv, Release
<1>2. paths' = [paths EXCEPT ![k] = q]
  BY DEF PathsInv, Release
<1>3. /\ p.now \in Nat /\ p.latency \in Nat /\ p.why \in Reasons /\ Within(p.now)
      /\ reached \subseteq AllFound
  BY <1>1 DEF Path, Earning
<1>4. p.why = "success" => reached = AllFound /\ p.latency <= p.now
  BY <1>1 DEF Earning
<1> HIDE DEF reached
<1>5. q \in Path(made)
  BY <1>1, <1>3, Done
<1>6. /\ q.at = "gone" /\ q.now = p.now /\ q.why = p.why /\ q.latency = p.latency
      /\ q.seen = reached
  BY DEF NewPath
<1>7. Earning(q)
  BY <1>3, <1>4, <1>6 DEF Earning
<1> HIDE DEF q
<1> QED
  BY <1>1, <1>2, <1>5, <1>7, OnePath

\* Every step.
LEMMA StepPaths ==
  ASSUME PathsInv, pool \in Seq(1 .. made), [GradeNext]_gradeVars
  PROVE  PathsInv'
<1>1. ASSUME NEW k \in Keywords, Book(k) \/ Toc(k) \/ Chapter(k)
      PROVE  PathsInv'
  <2>1. CASE Book(k)
    BY <2>1, PagePaths DEF Book
  <2>2. CASE Toc(k)
    BY <2>2, PagePaths DEF Toc
  <2>3. CASE Chapter(k)
    BY <2>3, PagePaths DEF Chapter
  <2> QED
    BY <1>1, <2>1, <2>2, <2>3
<1>2. CASE GradeSource
  BY <1>2 DEF GradeSource, PathsInv
<1>3. CASE UNCHANGED gradeVars
  BY <1>3 DEF gradeVars, PathsInv
<1> QED
  BY <1>1, <1>2, <1>3, AcquirePaths, SearchPaths, PickPaths, ReleasePaths DEF GradeNext

-----------------------------------------------------------------------------
(* The pool. *)

\* A path has a runtime exactly while it works; it is neither in the pool nor in another
\* hand.
PoolInv ==
    /\ pool \in Seq(1 .. made) /\ Len(pool) <= PoolMax
    /\ \A i, j \in DOMAIN pool : pool[i] = pool[j] => i = j
    /\ \A k \in Keywords : paths[k].at \in Working <=> paths[k].js # NoRuntime
    /\ \A k \in Keywords : paths[k].js # NoRuntime =>
         /\ \A i \in DOMAIN pool : pool[i] # paths[k].js
         /\ \A l \in Keywords \ {k} : paths[l].js # paths[k].js

\* The pool is warmed up with runtimes of different numbers.
LEMMA InitPool ==
  ASSUME NEW threads, NEW warm \in 0 .. PoolMax, GradeStart(threads, warm)
  PROVE  PoolInv
<1>1. pool = [i \in 1 .. warm |-> i] /\ made = warm /\ warm \in Nat
  BY Constants DEF GradeStart
<1>2. pool \in Seq(1 .. made) /\ Len(pool) = warm /\ DOMAIN pool = 1 .. warm
  BY <1>1
<1>3. \A k \in Keywords : paths[k].at \in {"start", "gone"} /\ paths[k].js = 0
  BY DEF GradeStart, NewPath
<1>4. Len(pool) <= PoolMax
  BY <1>2, Constants
<1> QED
  BY <1>1, <1>2, <1>3, <1>4 DEF PoolInv, Working

\* A runtime leaves the pool, or is made.
LEMMA AcquirePool ==
  ASSUME PathsInv, PoolInv, NEW k \in Keywords, Acquire(k)
  PROVE  PoolInv'
<1> DEFINE runtime == IF pool = <<>> THEN made + 1 ELSE pool[Len(pool)]
<1>0. /\ paths[k].at = "start" /\ paths[k].js = 0 /\ made \in Nat
      /\ \A l \in Keywords : paths[l].js \in 0 .. made
  BY DEF Acquire, PoolInv, PathsInv, Path, Working
<1>1. /\ \A l \in Keywords \ {k} : paths'[l] = paths[l]
      /\ paths'[k].at = "search" /\ paths'[k].js = runtime
  BY DEF Acquire, PathsInv, Path
<1>2. CASE pool = <<>>
  <2>1. pool' = <<>> /\ made' = made + 1 /\ runtime = made + 1
    BY <1>2 DEF Acquire
  <2>2. \A l \in Keywords : paths[l].js # runtime
    BY <1>0, <2>1
  <2>3. pool' \in Seq(1 .. made') /\ Len(pool') = 0 /\ DOMAIN pool' = {}
    BY <2>1
  <2>4. runtime # 0
    BY <1>0, <2>1
  <2> HIDE DEF runtime
  <2> QED
    BY <1>1, <2>2, <2>3, <2>4, Constants DEF PoolInv, Working
<1>3. CASE pool # <<>>
  <2> DEFINE n == Len(pool)
  <2>1. n \in Nat \ {0} /\ pool \in Seq(1 .. made)
    BY <1>3, EmptySeq DEF PoolInv
  <2>2. pool' = SubSeq(pool, 1, n - 1) /\ made' = made /\ runtime = pool[n]
    BY <1>3 DEF Acquire
  <2>3. \A i \in 1 .. n : pool[i] \in 1 .. made
    BY <2>1, ElementOfSeq
  <2>4. /\ pool' \in Seq(1 .. made') /\ Len(pool') = n - 1
        /\ \A i \in 1 .. n - 1 : pool'[i] = pool[i]
    <3> DEFINE m == n - 1
    <3>1. m \in Nat /\ \A i \in 1 .. m : pool[i] \in 1 .. made
      BY <2>1, <2>3
    <3>2. pool' = SubSeq(pool, 1, m)
      BY <2>2
    <3> HIDE DEF m
    <3>3. /\ SubSeq(pool, 1, m) \in Seq(1 .. made) /\ Len(SubSeq(pool, 1, m)) = m
          /\ \A i \in 1 .. m : SubSeq(pool, 1, m)[i] = pool[i]
      BY <3>1, SubSeqProperties
    <3> QED
      BY <2>2, <3>2, <3>3 DEF m
  <2>5. DOMAIN pool = 1 .. n /\ DOMAIN pool' = 1 .. n - 1
    BY <2>1, <2>4
  <2>6. runtime \in 1 .. made /\ \A l \in Keywords : paths[l].js # NoRuntime => paths[l].js # runtime
    BY <2>1, <2>2, <2>3, <2>5 DEF PoolInv
  <2>7. \A l \in Keywords : paths[l].js # runtime
    BY <1>0, <2>6
  <2>8. \A i \in 1 .. n - 1 : pool'[i] # runtime
    BY <2>1, <2>2, <2>4, <2>5 DEF PoolInv
  <2>9. \A i, j \in DOMAIN pool' : pool'[i] = pool'[j] => i = j
    BY <2>1, <2>4, <2>5 DEF PoolInv
  <2>10. Len(pool') <= PoolMax
    BY <2>1, <2>4, Constants DEF PoolInv
  <2>11. \A l \in Keywords : \A i \in DOMAIN pool' : paths[l].js # NoRuntime => pool'[i] # paths[l].js
    BY <2>1, <2>4, <2>5 DEF PoolInv
  <2>12. runtime # 0
    BY <1>0, <2>6
  <2> HIDE DEF runtime, n
  <2>13. \A l \in Keywords : paths'[l].at \in Working <=> paths'[l].js # NoRuntime
    BY <1>1, <2>12 DEF PoolInv, Working
  <2>14. \A l \in Keywords : paths'[l].js # NoRuntime =>
           /\ \A i \in DOMAIN pool' : pool'[i] # paths'[l].js
           /\ \A o \in Keywords \ {l} : paths'[o].js # paths'[l].js
    BY <1>1, <2>5, <2>7, <2>8, <2>11 DEF PoolInv
  <2> QED
    BY <2>4, <2>9, <2>10, <2>13, <2>14 DEF PoolInv
<1> QED
  BY <1>2, <1>3

\* A runtime goes back to the pool, or is dropped.
LEMMA ReleasePool ==
  ASSUME PathsInv, PoolInv, NEW k \in Keywords, Release(k)
  PROVE  PoolInv'
<1> DEFINE runtime == paths[k].js
<1>0. /\ runtime \in 1 .. made /\ made \in Nat /\ made' = made /\ pool \in Seq(1 .. made)
      /\ \A i \in DOMAIN pool : pool[i] # runtime
      /\ \A l \in Keywords \ {k} : paths[l].js # runtime
  BY DEF Release, PoolInv, PathsInv, Path, Working
<1>1. /\ \A l \in Keywords \ {k} : paths'[l] = paths[l]
      /\ paths'[k].at = "gone" /\ paths'[k].js = 0
  BY DEF Release, PathsInv, NewPath
<1> HIDE DEF runtime
<1>2. \A l \in Keywords : paths'[l].at \in Working <=> paths'[l].js # NoRuntime
  BY <1>1 DEF PoolInv, Working
<1>3. \A l, o \in Keywords : l # o /\ paths'[l].js # NoRuntime => paths'[o].js # paths'[l].js
  BY <1>1 DEF PoolInv
<1>4. CASE pool' = pool
  <2>1. \A l \in Keywords : paths'[l].js # NoRuntime => \A i \in DOMAIN pool' : pool'[i] # paths'[l].js
    BY <1>1, <1>4 DEF PoolInv
  <2> QED
    BY <1>0, <1>2, <1>3, <1>4, <2>1 DEF PoolInv
<1>5. CASE pool' # pool
  <2> DEFINE n == Len(pool)
  <2>1. pool' = Append(pool, runtime) /\ n < PoolMax /\ n \in Nat
    <3>1. n \in Nat
      BY <1>0
    <3> QED
      BY <1>5, <3>1, Constants DEF Release, runtime
  <2>2. /\ pool' \in Seq(1 .. made') /\ Len(pool') = n + 1
        /\ \A i \in 1 .. n : pool'[i] = pool[i]
        /\ pool'[n + 1] = runtime
    BY <1>0, <2>1, AppendProperties
  <2>3. DOMAIN pool = 1 .. n /\ DOMAIN pool' = 1 .. n + 1 /\ Len(pool') <= PoolMax
    BY <1>0, <2>1, <2>2, Constants
  <2>4. \A i \in DOMAIN pool' : pool'[i] = runtime <=> i = n + 1
    BY <1>0, <2>1, <2>2, <2>3
  <2>5. \A i, j \in DOMAIN pool' : pool'[i] = pool'[j] => i = j
    BY <2>1, <2>2, <2>3, <2>4 DEF PoolInv
  <2>6. \A l \in Keywords : paths'[l].js # NoRuntime => \A i \in DOMAIN pool' : pool'[i] # paths'[l].js
    BY <1>0, <1>1, <2>1, <2>2, <2>3, <2>4 DEF PoolInv
  <2> HIDE DEF n
  <2> QED
    BY <1>2, <1>3, <2>2, <2>3, <2>5, <2>6 DEF PoolInv
<1> QED
  BY <1>4, <1>5

\* A path that works, and goes on working or is released later, keeps its runtime.
LEMMA WorkPool ==
  ASSUME PathsInv, PoolInv, NEW k \in Keywords,
         SearchOnce(k) \/ Pick(k) \/ Book(k) \/ Toc(k) \/ Chapter(k)
  PROVE  PoolInv'
<1>1. /\ pool' = pool /\ made' = made
      /\ \A l \in Keywords \ {k} : paths'[l] = paths[l]
      /\ paths'[k].js = paths[k].js
      /\ paths[k].at \in Working /\ paths'[k].at \in Working
  <2> DEFINE Kept == /\ \A l \in Keywords \ {k} : paths'[l] = paths[l]
                     /\ paths'[k].js = paths[k].js /\ paths'[k].at \in Working
  <2>0. paths \in [Keywords -> Path(made)] /\ paths[k] \in Path(made)
    BY DEF PathsInv
  <2>1. CASE SearchOnce(k)
    <3> DEFINE Steps(a, books) == paths' = [paths EXCEPT
                ![k].at = IF books = 0 THEN "release" ELSE "pick",
                ![k].now = @ + a.took + a.work,
                ![k].search = a.took + a.work,
                ![k].left = books,
                ![k].seen = IF books = 0 THEN {} ELSE {"list"},
                ![k].why = IF books > 0 THEN "books" ELSE IF a.brings THEN "empty" ELSE "silent"]
    <3>1. ASSUME NEW a, NEW books, Steps(a, books)
          PROVE  Kept
      <4>1. paths'[k].at = IF books = 0 THEN "release" ELSE "pick"
        BY <2>0, <3>1 DEF Path
      <4> QED
        BY <2>0, <3>1, <4>1 DEF Path, Working
    <3>2. ASSUME paths' = [paths EXCEPT ![k].at = "release", ![k].why = "error"]
          PROVE  Kept
      BY <2>0, <3>2 DEF Path, Working
    <3>3. /\ pool' = pool /\ made' = made /\ paths[k].at \in Working
          /\ \/ paths' = [paths EXCEPT ![k].at = "release", ![k].why = "error"]
             \/ \E a \in Answered(paths[k].now) :
                  \E books \in IF a.brings THEN 0 .. MaxBooks ELSE {0} : Steps(a, books)
      BY <2>1 DEF SearchOnce, Working
    <3> HIDE DEF Steps
    <3>4. Kept
      BY <3>1, <3>2, <3>3
    <3> QED
      BY <3>3, <3>4
  <2>2. CASE Pick(k)
    <3> DEFINE Steps(known, w) == paths' = [paths EXCEPT
                ![k].at = IF known THEN "book" ELSE "pick", ![k].now = @ + w,
                ![k].left = @ - 1, ![k].book = 0, ![k].seen = {"list"}]
    <3>1. ASSUME NEW known, NEW w, Steps(known, w)
          PROVE  Kept
      <4>1. paths'[k].at = IF known THEN "book" ELSE "pick"
        BY <2>0, <3>1 DEF Path
      <4> QED
        BY <2>0, <3>1, <4>1 DEF Path, Working
    <3>2. ASSUME paths' = [paths EXCEPT ![k].at = "release"]
          PROVE  Kept
      BY <2>0, <3>2 DEF Path, Working
    <3>3. /\ pool' = pool /\ made' = made /\ paths[k].at \in Working
          /\ \/ paths' = [paths EXCEPT ![k].at = "release"]
             \/ \E known \in BOOLEAN, w \in RuleWork : Steps(known, w)
      BY <2>2 DEF Pick, Working
    <3> HIDE DEF Steps
    <3>4. Kept
      BY <3>1, <3>2, <3>3
    <3> QED
      BY <3>3, <3>4
  <2>3. ASSUME NEW outcomes, OnePage(k, outcomes), paths[k].at \in Working,
               outcomes \subseteq Working
        PROVE  pool' = pool /\ made' = made /\ Kept
    <3> DEFINE Steps(a, next) == paths' = [paths EXCEPT
            ![k].at = next,
            ![k].now = @ + a.took + a.work,
            ![k].book = @ + a.took,
            ![k].seen = IF next = "chapter" THEN @ \union {"catalog"}
                        ELSE IF next = "release" THEN @ \union {"text"} ELSE @,
            ![k].why = IF next = "release" THEN "success" ELSE @,
            ![k].latency = IF next = "release" THEN paths[k].search + paths[k].book + a.took ELSE @]
    <3>1. ASSUME NEW a, NEW next \in Working, Steps(a, next)
          PROVE  Kept
      <4>1. paths'[k].at = next /\ paths'[k].js = paths[k].js
        BY <2>0, <3>1 DEF Path
      <4> QED
        BY <2>0, <3>1, <4>1
    <3>2. /\ pool' = pool /\ made' = made
          /\ \E a \in Answered(paths[k].now) :
               \E next \in IF a.brings THEN outcomes ELSE {"pick"} : Steps(a, next)
      <4> USE DEF OnePage
      <4> QED
        BY <2>3, Zenon
    <3>3. "pick" \in Working
      BY DEF Working
    <3> HIDE DEF Steps, Kept
    <3> QED
      BY <2>3, <3>1, <3>2, <3>3
  <2>4. /\ {"chapter", "toc", "pick"} \subseteq Working /\ {"chapter", "pick"} \subseteq Working
        /\ {"release", "pick"} \subseteq Working /\ {"book", "toc", "chapter"} \subseteq Working
    BY DEF Working
  <2>5. CASE Book(k) \/ Toc(k) \/ Chapter(k)
    <3>1. ASSUME NEW outcomes, OnePage(k, outcomes), paths[k].at \in {"book", "toc", "chapter"},
                 outcomes \in {{"chapter", "toc", "pick"}, {"chapter", "pick"}, {"release", "pick"}}
          PROVE  paths[k].at \in Working /\ outcomes \subseteq Working
      BY <2>4, <3>1
    <3>2. \E outcomes \in {{"chapter", "toc", "pick"}, {"chapter", "pick"}, {"release", "pick"}} :
             OnePage(k, outcomes) /\ paths[k].at \in {"book", "toc", "chapter"}
      BY <2>5 DEF Book, Toc, Chapter
    <3> HIDE DEF Kept
    <3>3. pool' = pool /\ made' = made /\ Kept /\ paths[k].at \in Working
      BY <2>3, <3>1, <3>2
    <3> QED
      BY <3>3 DEF Kept
  <2> QED
    BY <2>1, <2>2, <2>5
<1> QED
  BY <1>1 DEF PoolInv

\* Every step.
LEMMA StepPool ==
  ASSUME PathsInv, PoolInv, [GradeNext]_gradeVars
  PROVE  PoolInv'
<1>1. CASE GradeSource \/ UNCHANGED gradeVars
  BY <1>1 DEF GradeSource, gradeVars, PoolInv
<1> QED
  BY <1>1, AcquirePool, ReleasePool, WorkPool DEF GradeNext

-----------------------------------------------------------------------------
(* The grade. *)

Graded == [grade : {"unknown", "excellent", "good", "poor", "invalid"}, latency : Nat]

\* A grade is given when all paths are gone, and stays true of them.
GradeInv ==
    /\ graded \in Graded
    /\ graded # NotYet => \A k \in Keywords : paths[k].at = "gone"
    /\ graded = NotYet \/ graded.grade # "unknown"
    /\ GradeIsEarned

\* No path that is gone takes a step, and only GradeSource gives a grade.
LEMMA StepGrade ==
  ASSUME PathsInv, GradeInv, [GradeNext]_gradeVars
  PROVE  GradeInv'
<1>1. CASE GradeSource
  <2> DEFINE good == {k \in Keywords : paths[k].why = "success"}
  <2>0. /\ paths' = paths /\ \A k \in Keywords : paths[k].at = "gone"
        /\ \A k \in Keywords : paths[k].now \in Nat /\ paths[k].latency \in Nat
    BY <1>1 DEF GradeSource, PathsInv, Path
  <2>1. CASE \E k \in good :
              /\ \A l \in good : paths[k].latency <= paths[l].latency
              /\ graded' = [grade |-> GradeOf(paths[k].latency), latency |-> paths[k].latency]
    <3>1. PICK k \in good :
            /\ \A l \in good : paths[k].latency <= paths[l].latency
            /\ graded' = [grade |-> GradeOf(paths[k].latency), latency |-> paths[k].latency]
      BY <2>1
    <3>2. GradeOf(paths[k].latency) \in {"excellent", "good", "poor", "invalid"}
      BY DEF GradeOf
    <3>3. graded' \in Graded /\ graded'.grade # "unknown" /\ graded'.latency = paths[k].latency
      BY <2>0, <3>1, <3>2 DEF Graded
    <3>4. paths[k].seen = AllFound /\ paths[k].latency <= paths[k].now
      BY DEF PathsInv, Earning
    <3>5. GradeIsEarned'
      BY <2>0, <3>1, <3>3, <3>4 DEF GradeIsEarned, AllFound
    <3> QED
      BY <2>0, <3>3, <3>5 DEF GradeInv
  <2>2. CASE \E k \in Keywords :
              graded' = [grade |-> "invalid",
                         latency |-> IF paths[k].now = 0 THEN 1 ELSE paths[k].now]
    <3>1. graded' \in Graded /\ graded'.grade = "invalid"
      BY <2>0, <2>2 DEF Graded
    <3> QED
      BY <2>0, <3>1 DEF GradeInv, GradeIsEarned
  <2> QED
    BY <1>1, <2>1, <2>2 DEF GradeSource
<1>2. ASSUME NEW k \in Keywords,
             \/ Acquire(k) \/ SearchOnce(k) \/ Pick(k) \/ Book(k) \/ Toc(k) \/ Chapter(k)
             \/ Release(k)
      PROVE  GradeInv'
  <2>1. paths[k].at # "gone" /\ graded' = graded
    BY <1>2 DEF Acquire, SearchOnce, Pick, Book, Toc, Chapter, OnePage, Release
  <2>2. graded = NotYet
    BY <2>1 DEF GradeInv
  <2> QED
    BY <2>1, <2>2 DEF GradeInv, NotYet, GradeIsEarned
<1>3. CASE UNCHANGED gradeVars
  BY <1>3 DEF gradeVars, GradeInv, GradeIsEarned
<1> QED
  BY <1>1, <1>2, <1>3 DEF GradeNext

-----------------------------------------------------------------------------
(* The theorems. *)

GInv == PathsInv /\ PoolInv /\ GradeInv

\* At the start, whichever paths are there.
LEMMA GradeStarts ==
  ASSUME NEW threads, NEW warm \in 0 .. PoolMax, GradeStart(threads, warm)
  PROVE  GInv
<1>1. GradeInv
  BY DEF GradeStart, GradeInv, Graded, NotYet, GradeIsEarned
<1> QED
  BY <1>1, InitPaths, InitPool DEF GInv

\* Every step.
LEMMA GradeGoesOn == GInv /\ [GradeNext]_gradeVars => GInv'
<1> SUFFICES ASSUME GInv, [GradeNext]_gradeVars PROVE GInv'
  OBVIOUS
<1>1. pool \in Seq(1 .. made)
  BY DEF GInv, PoolInv
<1> QED
  BY <1>1, StepPaths, StepPool, StepGrade DEF GInv

\* The inductive invariant.
LEMMA GradeInvariant == GradeSpec => []GInv
<1>1. GradeInit => GInv
  BY GradeStarts DEF GradeInit
<1> QED
  BY <1>1, GradeGoesOn, PTL DEF GradeSpec

LEMMA GradesTyped == GInv => GradeTypeOK
  BY DEF GInv, PathsInv, PoolInv, GradeInv, Graded, GradeTypeOK, Path, Places, Working, Reasons, AllFound

\* The types of the pool, the paths and the grade.
THEOREM GradeTypeCorrect == GradeSpec => []GradeTypeOK
  BY GradesTyped, GradeInvariant, PTL

\* The three properties, each from its part of the invariant.
LEMMA GradesAgree == GInv => BudgetIsKept /\ GradeIsEarned /\ RuntimesAreOwned
<1>1. GInv => BudgetIsKept
  BY DEF GInv, PathsInv, Earning, Within, BudgetIsKept
<1>2. GInv => GradeIsEarned
  BY DEF GInv, GradeInv
<1>3. GInv => RuntimesAreOwned
  BY DEF GInv, PoolInv, RuntimesAreOwned, IsInjective, ToSet
<1> QED
  BY <1>1, <1>2, <1>3

\* However many pages a path reads and whatever servers do, it is over at most one shortest
\* timeout and the rules of one page after the budget is spent.
THEOREM BudgetHolds == GradeSpec => []BudgetIsKept
  BY GradesAgree, GradeInvariant, PTL

\* A source that is not invalid has shown a list, a catalog and a text to the path whose
\* latency it is graded by, and no path that succeeded was faster.
THEOREM GradesAreEarned == GradeSpec => []GradeIsEarned
  BY GradesAgree, GradeInvariant, PTL

\* The pool stays within its bound, and no runtime is in two hands, or in a hand and in the
\* pool.
THEOREM RuntimesHaveOneOwner == GradeSpec => []RuntimesAreOwned
  BY GradesAgree, GradeInvariant, PTL

\* All three: what the grade of a source is worth.
THEOREM GradesHold == GradeSpec => []GradesAreTrue
  BY BudgetHolds, GradesAreEarned, RuntimesHaveOneOwner, PTL DEF GradesAreTrue
=============================================================================
