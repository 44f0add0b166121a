----------------------------- MODULE RuleEngine -----------------------------
(***************************************************************************)
(* How a rule is applied to a content: applyRuleStatic of                  *)
(* src/engine/engine_utils.cpp, next to other threads that apply rules     *)
(* with runtimes of their own, and the caches all of them share            *)
(* (include/ariaread/rule_cache.h).                                        *)
(*                                                                         *)
(* A rule is applied to its parts by recursion: "calls" is the stack of a  *)
(* thread.  Every call of a cache is one step under the mutex of the cache.*)
(* What is found is a sequence of items, and an item the sequence of what  *)
(* became of it, so that two items are equal only if they came about in    *)
(* the same way.                                                           *)
(***************************************************************************)
EXTENDS Integers, Sequences, FiniteSets, SequencesExt

CONSTANTS Appliers,     \* threads that apply rules
          Contents,     \* pages, or pieces of them
          Phrases,      \* the rules that are applied, and what is applied for them
          Length,       \* the length of the text of each of these
          Jobs,         \* bound: what each thread applies in turn, [rule, content]
          Finds,        \* the items each selector finds in each content (external)
          RuleCapacity, \* 1000 in the code
          RegexCapacity \* 500 in the code

ASSUME RuleCapacities == RuleCapacity \in Nat \ {0} /\ RegexCapacity \in Nat \ {0}

\* What is found, kept and redacted: a text is what it was put together from.
Texts == Seq(STRING)

VARIABLES
    ruleCache,   \* the results of selectors, the most recent first: [key, value]
    regexCache,  \* the patterns compiled, the most recent first
    kept,        \* the variable a runtime keeps from call to call
    jobs,        \* what a thread has left to do
    calls,       \* its stack, the call at work last
    answers      \* the last answer to a thread: [rule, content, kept, items]

ruleVars == <<ruleCache, regexCache, kept, jobs, calls, answers>>

\* A rule that says "select": the first selector of the list that finds something, cut at ||
\* within the rule; "chain": the same, with a script for each item; "join": parts of the same
\* type; "redact": another rule with ## and a pattern; "script", "get", "template", "put".
SelectRule(ways) == [is |-> "select", ways |-> ways]
ChainRule(ways) == [is |-> "chain", ways |-> ways]
JoinRule(type, parts) == [is |-> "join", type |-> type, parts |-> parts]
RedactRule(of, pattern) == [is |-> "redact", of |-> of, pattern |-> pattern]
TemplateRule(of) == [is |-> "template", of |-> of]
PutRule(of, rest) == [is |-> "put", of |-> of, rest |-> rest]
Script == [is |-> "script"]
GetRule == [is |-> "get"]

NoPattern == "none"
Bad == "bad"       \* a pattern that does not compile
Empty == <<>>

Call(rule, content) == [rule |-> rule, content |-> content, at |-> "enter", part |-> 1,
                        lists |-> <<>>, items |-> <<>>]
NoAnswer == [rule |-> Script, content |-> "", kept |-> Empty, items |-> <<>>]

\* The rules a rule has within it.
Inners(rule) ==
    CASE rule.is \in {"redact", "template"} -> {rule.of}
      [] rule.is = "put" -> {rule.of, rule.rest}
      [] rule.is = "join" -> {rule.parts[i] : i \in DOMAIN rule.parts}
      [] OTHER -> {}

\* A selector gives texts.  What is applied within a rule is a shorter rule; when a rule is cut
\* at its separators no @put:, @get:, {{ }} or ## is left in it (engine_utils.cpp:715-858).
ASSUME SelectorsGiveTexts ==
    /\ Contents \subseteq STRING /\ {"", "by", "nl"} \subseteq STRING
    /\ \A way \in DOMAIN Finds : Finds[way] \in [Contents -> Seq(Texts)]
ASSUME PhrasesAreWhole ==
    /\ Length \in [Phrases -> Nat]
    /\ \A rule \in Phrases :
        /\ \/ rule.is \in {"script", "get", "put", "template"}
           \/ rule.is \in {"select", "chain"} /\ rule.ways \in Seq(DOMAIN Finds)
           \/ /\ rule.is = "join" /\ rule.type \in {"&&", "||", "%%"}
              /\ rule.parts \in Seq(Phrases) \ {<<>>}
              /\ \A part \in Inners(rule) : part.is \in {"select", "chain", "join", "script"}
           \/ /\ rule.is = "redact" /\ rule.pattern \in STRING
              /\ rule.of.is \in {"select", "chain", "join", "template"}
        /\ \A inner \in Inners(rule) : inner \in Phrases /\ Length[inner] < Length[rule]
ASSUME JobsAreRules == \A work \in Jobs : work \in Seq([rule : Phrases, content : Contents])

\* A call holds the lists its inner rules gave, and the items that are to be its own.
RuleCalls ==
    [rule : Phrases, content : Contents, at : {"enter", "work", "back", "store", "redact"},
     part : Nat \ {0}, lists : Seq(Seq(Texts)), items : Seq(Texts)]

RuleTypeOK ==
    /\ ruleCache \in Seq([key : [rule : Phrases, content : Contents], value : Seq(Texts)])
    /\ regexCache \in Seq([key : STRING, value : {TRUE}])
    /\ kept \in [Appliers -> Texts]
    /\ jobs \in [Appliers -> Seq([rule : Phrases, content : Contents])]
    /\ calls \in [Appliers -> Seq(RuleCalls)]
    /\ answers \in [Appliers -> [rule : Phrases \union {Script}, content : STRING, kept : Texts,
                                 items : Seq(Texts)]]

RuleStart(work) ==
    /\ ruleCache = <<>> /\ regexCache = <<>>
    /\ kept = [t \in Appliers |-> Empty]
    /\ jobs = work
    /\ calls = [t \in Appliers |-> <<>>]
    /\ answers = [t \in Appliers |-> NoAnswer]

RuleInit == \E work \in [Appliers -> Jobs] : RuleStart(work)

-----------------------------------------------------------------------------
(* LRUCache. *)

Place(cache, key) == {i \in DOMAIN cache : cache[i].key = key}

\* get: a hit becomes the most recent.
Touched(cache, key) ==
    LET i == CHOOSE j \in Place(cache, key) : TRUE
    IN  <<cache[i]>> \o SubSeq(cache, 1, i - 1) \o SubSeq(cache, i + 1, Len(cache))

\* put: a full cache drops the least recent.
PutLast(cache, key, value, capacity) ==
    IF Place(cache, key) # {}
    THEN [Touched(cache, key) EXCEPT ![1].value = value]
    ELSE <<[key |-> key, value |-> value]>>
         \o (IF Len(cache) >= capacity THEN SubSeq(cache, 1, Len(cache) - 1) ELSE cache)

-----------------------------------------------------------------------------
(* Items. *)

\* What the selectors of a list find: the first of them that finds something.
Found(ways, content) ==
    LET some == {i \in DOMAIN ways : Finds[ways[i]][content] # <<>>}
    IN  IF some = {} THEN <<>>
        ELSE Finds[ways[CHOOSE i \in some : \A j \in some : i <= j]][content]

\* A script sees what its runtime keeps.
Run(item, value) == item \o <<"by">> \o value

\* A template joins the items of the rule within, by a line end where something comes before.
OneText(items) ==
    FlattenSeq([i \in DOMAIN items |->
                    IF \A j \in 1 .. i - 1 : items[j] = Empty THEN items[i] ELSE <<"nl">> \o items[i]])

\* applyRegexReplace: no item is lost, even if nothing is left of it.
Redacted(items, pattern) ==
    IF pattern \in {NoPattern, Bad} THEN items ELSE [i \in DOMAIN items |-> Append(items[i], pattern)]

\* %%: the first items of all parts, then the second ones; a list that has ended gives none.
Woven(lists) ==
    LET nth(l, i) == IF i <= Len(l) THEN <<l[i]>> ELSE <<>>
        row(i) == FlattenSeq([k \in DOMAIN lists |-> nth(lists[k], i)])
    IN  FlattenSeq([i \in 1 .. Len(FlattenSeq(lists)) |-> row(i)])

-----------------------------------------------------------------------------
(* The calls. *)

Depth(t) == Len(calls[t])
Now(t) == calls[t][Depth(t)]
Body(rule) == IF rule.is = "redact" THEN rule.of ELSE rule
Pattern(rule) == IF rule.is = "redact" THEN rule.pattern ELSE NoPattern

\* Faulty variant of the next operator, no specification uses it: the key is the rule alone.
KeyOfRule(call) == [rule |-> Body(call.rule), content |-> CHOOSE c \in Contents : TRUE]

Key(call) == [rule |-> Body(call.rule), content |-> call.content]

\* The call at work goes on as "call".
Goes(t, call) == calls' = [calls EXCEPT ![t][Depth(t)] = call]

\* It calls for another rule, and goes on as "call" afterwards.
Calls(t, call, rule) ==
    calls' = [calls EXCEPT ![t] = Append(SubSeq(@, 1, Depth(t) - 1), call)
                                  \o <<Call(rule, call.content)>>]

\* A call that waited has been given another list.
Resumed(call, items) == [call EXCEPT !.at = "back", !.lists = Append(@, items)]

\* It returns: to the call that made it, or as the answer.
Returns(t, items) ==
    LET below == Depth(t) - 1
    IN  /\ calls' = [calls EXCEPT ![t] =
                        IF below = 0 THEN <<>>
                        ELSE [SubSeq(calls[t], 1, below) EXCEPT ![below] = Resumed(calls[t][below], items)]]
        /\ answers' = IF below = 0 THEN [answers EXCEPT ![t].items = items] ELSE answers

\* A thread begins its next job.
Begin(t) ==
    /\ calls[t] = <<>> /\ jobs[t] # <<>>
    /\ LET first == jobs[t][1]
       IN  /\ calls' = [calls EXCEPT ![t] = <<Call(first.rule, first.content)>>]
           /\ answers' = [answers EXCEPT ![t] = [rule |-> first.rule, content |-> first.content,
                                                 kept |-> kept[t], items |-> <<>>]]
    /\ jobs' = [jobs EXCEPT ![t] = Tail(@)]
    /\ UNCHANGED <<ruleCache, regexCache, kept>>

\* A rule that is a script is run on the content, and never cached.
Whole(t) ==
    /\ calls[t] # <<>> /\ Now(t).at = "enter" /\ Now(t).rule.is = "script"
    /\ Returns(t, <<Run(<<Now(t).content>>, kept[t])>>)
    /\ UNCHANGED <<ruleCache, regexCache, kept, jobs>>

\* @put: and {{ }}: the rule within comes first.
Inner(t) ==
    /\ calls[t] # <<>> /\ Now(t).at = "enter" /\ Body(Now(t).rule).is \in {"put", "template"}
    /\ Calls(t, Now(t), Body(Now(t).rule).of)
    /\ UNCHANGED <<ruleCache, regexCache, kept, jobs, answers>>

\* @get: and nothing else: what is kept is the answer.
Kept(t) ==
    /\ calls[t] # <<>> /\ Now(t).at = "enter" /\ Now(t).rule.is = "get"
    /\ Returns(t, IF kept[t] = Empty THEN <<>> ELSE <<kept[t]>>)
    /\ UNCHANGED <<ruleCache, regexCache, kept, jobs>>

\* The first item is kept and the rest of the rule comes next.
PutDone(t) ==
    /\ calls[t] # <<>> /\ Now(t).at = "back" /\ Now(t).rule.is = "put"
    /\ LET items == Now(t).lists[1]
       IN  kept' = [kept EXCEPT ![t] = IF items = <<>> THEN Empty ELSE items[1]]
    /\ Goes(t, Call(Now(t).rule.rest, Now(t).content))
    /\ UNCHANGED <<ruleCache, regexCache, jobs, answers>>

\* What the template becomes is not a selector any more; its pattern is not cached.
TemplateDone(t) ==
    /\ calls[t] # <<>> /\ Now(t).at = "back" /\ Body(Now(t).rule).is = "template"
    /\ LET text == OneText(Now(t).lists[1])
       IN  Returns(t, IF text = Empty THEN <<>> ELSE Redacted(<<text>>, Pattern(Now(t).rule)))
    /\ UNCHANGED <<ruleCache, regexCache, kept, jobs>>

Plain(rule) == Body(rule).is \in {"select", "chain", "join"}

\* The cache is asked, with what comes before ## and the content for a key.
Look(t) ==
    /\ calls[t] # <<>> /\ Now(t).at = "enter" /\ Plain(Now(t).rule)
    /\ LET key == Key(Now(t))
           hit == Place(ruleCache, key) # {}
       IN  /\ ruleCache' = IF hit THEN Touched(ruleCache, key) ELSE ruleCache
           /\ Goes(t, IF hit THEN [Now(t) EXCEPT !.at = "redact",
                                                 !.items = Touched(ruleCache, key)[1].value]
                      ELSE [Now(t) EXCEPT !.at = "work"])
    /\ UNCHANGED <<regexCache, kept, jobs, answers>>

\* A single rule: its selectors, and the script of a chain on each item.
Apply(t) ==
    /\ calls[t] # <<>> /\ Now(t).at = "work" /\ Body(Now(t).rule).is \in {"select", "chain"}
    /\ LET rule == Body(Now(t).rule)
           found == Found(rule.ways, Now(t).content)
       IN  Goes(t, [Now(t) EXCEPT !.at = "store",
                        !.items = IF rule.is = "select" THEN found
                                  ELSE [i \in DOMAIN found |-> Run(found[i], kept[t])]])
    /\ UNCHANGED <<ruleCache, regexCache, kept, jobs, answers>>

\* The next part of a joint rule.
Part(t) ==
    /\ calls[t] # <<>> /\ Now(t).at = "work" /\ Body(Now(t).rule).is = "join"
    /\ Calls(t, Now(t), Body(Now(t).rule).parts[Now(t).part])
    /\ UNCHANGED <<ruleCache, regexCache, kept, jobs, answers>>

\* A part is done: || is content with the first that found something, && lines them up, and
\* %% weaves them into each other.
PartDone(t) ==
    /\ calls[t] # <<>> /\ Now(t).at = "back" /\ Body(Now(t).rule).is = "join"
    /\ LET rule == Body(Now(t).rule)
           lists == Now(t).lists
           last == Now(t).part = Len(rule.parts)
           items == IF rule.type = "||" THEN lists[Len(lists)]
                    ELSE IF rule.type = "%%" THEN Woven(lists)
                    ELSE FlattenSeq(lists)
       IN  Goes(t, IF last \/ (rule.type = "||" /\ lists[Len(lists)] # <<>>)
                   THEN [Now(t) EXCEPT !.at = "store", !.items = items]
                   ELSE [Now(t) EXCEPT !.at = "work", !.part = @ + 1])
    /\ UNCHANGED <<ruleCache, regexCache, kept, jobs, answers>>

-----------------------------------------------------------------------------
(* Faulty variants of operations defined below; no specification uses them. *)

\* What is cached has been redacted already.
StoreRedacted(t) ==
    /\ calls[t] # <<>> /\ Now(t).at = "store"
    /\ ruleCache' = IF Now(t).items = <<>> THEN ruleCache
                    ELSE PutLast(ruleCache, Key(Now(t)),
                                 Redacted(Now(t).items, Pattern(Now(t).rule)), RuleCapacity)
    /\ Goes(t, [Now(t) EXCEPT !.at = "redact"])
    /\ UNCHANGED <<regexCache, kept, jobs, answers>>

\* What was found is cached before ## is applied, unless nothing was found.
Store(t) ==
    /\ calls[t] # <<>> /\ Now(t).at = "store"
    /\ ruleCache' = IF Now(t).items = <<>> THEN ruleCache
                    ELSE PutLast(ruleCache, Key(Now(t)), Now(t).items, RuleCapacity)
    /\ Goes(t, [Now(t) EXCEPT !.at = "redact"])
    /\ UNCHANGED <<regexCache, kept, jobs, answers>>

\* ## and what follows; a pattern that does not compile changes nothing.
Finish(t) ==
    /\ calls[t] # <<>> /\ Now(t).at = "redact"
    /\ LET pattern == Pattern(Now(t).rule)
       IN  /\ Returns(t, Redacted(Now(t).items, pattern))
           /\ regexCache' = IF Now(t).items = <<>> \/ pattern \in {NoPattern, Bad} THEN regexCache
                            ELSE PutLast(regexCache, pattern, TRUE, RegexCapacity)
    /\ UNCHANGED <<ruleCache, kept, jobs>>

RuleNext ==
    \E t \in Appliers :
        \/ Begin(t) \/ Whole(t) \/ Inner(t) \/ Kept(t) \/ PutDone(t) \/ TemplateDone(t)
        \/ Look(t) \/ Apply(t) \/ Part(t) \/ PartDone(t) \/ Store(t) \/ Finish(t)

RuleSpec == RuleInit /\ [][RuleNext]_ruleVars

-----------------------------------------------------------------------------
(* Properties. *)

\* What a rule says of a content without any cache, and what the runtime keeps afterwards, if
\* "value" is kept before and its inner rules say what "says" gives.
Said(says, rule, content, value) ==
    CASE rule.is = "script" -> [items |-> <<Run(<<content>>, value)>>, kept |-> value]
      [] rule.is = "get" -> [items |-> IF value = Empty THEN <<>> ELSE <<value>>, kept |-> value]
      [] rule.is = "select" -> [items |-> Found(rule.ways, content), kept |-> value]
      [] rule.is = "chain" ->
            [items |-> LET found == Found(rule.ways, content)
                       IN  [i \in DOMAIN found |-> Run(found[i], value)], kept |-> value]
      [] rule.is = "put" ->
            LET inner == says[rule.of][content][value].items
            IN  says[rule.rest][content][IF inner = <<>> THEN Empty ELSE inner[1]]
      [] rule.is = "template" ->
            LET inner == says[rule.of][content][value]
            IN  [items |-> IF OneText(inner.items) = Empty THEN <<>> ELSE <<OneText(inner.items)>>,
                 kept |-> inner.kept]
      [] rule.is = "redact" ->
            LET inner == says[rule.of][content][value]
            IN  [items |-> Redacted(inner.items, rule.pattern), kept |-> inner.kept]
      [] rule.is = "join" ->
            LET all == [i \in DOMAIN rule.parts |-> says[rule.parts[i]][content][value].items]
                some == {i \in DOMAIN all : all[i] # <<>>}
            IN  [items |-> IF rule.type = "&&" THEN FlattenSeq(all)
                           ELSE IF rule.type = "%%" THEN Woven(all)
                           ELSE IF some = {} THEN <<>>
                           ELSE all[CHOOSE i \in some : \A j \in some : i <= j],
                 kept |-> value]
Says[rule \in Phrases] ==
    [content \in Contents |-> [value \in Texts |-> Said(Says, rule, content, value)]]

\* Rules whose answer depends on what a runtime keeps, by way of the cache.
Chained[rule \in Phrases] ==
    \/ rule.is = "chain"
    \/ rule.is = "join" /\ \E part \in Inners(rule) : part.is = "script"
    \/ \E inner \in Inners(rule) : Chained[inner]

\* An answer is what the rule says of this content, whatever was cached by whom for other
\* rules, other contents and other patterns after ## (engine_utils.cpp:875).  A script after
\* a selector may have run for another thread, see README.
AnswersMatchRules ==
    \A t \in Appliers :
        (calls[t] = <<>> /\ answers[t] # NoAnswer /\ ~Chained[answers[t].rule]) =>
            answers[t].items = Says[answers[t].rule][answers[t].content][answers[t].kept].items

\* The caches stay within their capacity, with one entry for a key, never an empty one
\* (rule_cache.h:47): no answer is cached that a page without results would keep forever.
CachesAreSound ==
    /\ Len(ruleCache) <= RuleCapacity /\ Len(regexCache) <= RegexCapacity
    /\ \A i, j \in DOMAIN ruleCache : ruleCache[i].key = ruleCache[j].key => i = j
    /\ \A i, j \in DOMAIN regexCache : regexCache[i].key = regexCache[j].key => i = j
    /\ \A i \in DOMAIN ruleCache :
        /\ ruleCache[i].value # <<>>
        /\ ~Chained[ruleCache[i].key.rule] =>
            ruleCache[i].value = Says[ruleCache[i].key.rule][ruleCache[i].key.content][Empty].items
=============================================================================
