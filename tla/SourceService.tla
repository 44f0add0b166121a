---------------------------- MODULE SourceService ----------------------------
(***************************************************************************)
(* What is done with book sources: the requests on the source list, a      *)
(* validation and a streamed search next to each other, which share the    *)
(* list, the table and the selection; and apart from these what they do    *)
(* with one source: grade it, read its rules, apply them; and a search for *)
(* other sources of a book, on a list nobody changes.                      *)
(*                                                                         *)
(* The parts of the second kind share no state with anything here, so a    *)
(* behaviour is that of one part, next to the others at rest.              *)
(***************************************************************************)
EXTENDS ListService, SourceGrade, RuleText, RuleEngine, NodeSteps, JsonPath,
        AlternativeSources

VARIABLE side  \* the part at work

serviceVars == <<side, listServiceVars, gradeVars, textVars, ruleVars, cssVars, stepVars,
                 jsonVars, seekVars>>

ServiceTypeOK ==
    /\ ListTypeOK /\ ValidationTypeOK /\ StreamTypeOK
    /\ GradeTypeOK /\ TextTypeOK /\ RuleTypeOK /\ CssTypeOK /\ StepTypeOK
    /\ JsonTypeOK /\ SeekTypeOK

ListAtRest ==
    ListStart([k \in Kinds |-> 0]) /\ ValidationInit /\ StreamInit
TextAtRest == SplitStart(<<>>, "idle") /\ IndexStart(NoList, 0, "idle")
CssAtRest == CssStart([parent |-> <<0>>, labels |-> <<{}>>], <<>>, "idle")
StepsAtRest == StepStart([parent |-> <<0>>, labels |-> <<{}>>], <<>>, "idle")
SeekAtRest == SeekStart([author |-> FALSE, sources |-> <<>>], "closed")

ServiceInit ==
    /\ side \in {"list", "grade", "text", "rules", "css", "steps", "json", "seek"}
    /\ IF side = "list" THEN ListServiceInit ELSE ListAtRest
    /\ IF side = "grade" THEN GradeInit ELSE GradeStart({}, 0)
    /\ IF side = "text" THEN TextInit ELSE TextAtRest
    /\ IF side = "rules" THEN RuleInit ELSE RuleStart([t \in Appliers |-> <<>>])
    /\ IF side = "css" THEN CssInit ELSE CssAtRest
    /\ IF side = "steps" THEN StepInit ELSE StepsAtRest
    /\ IF side = "json" THEN JsonInit ELSE JsonStart(Null, <<>>, "idle")
    /\ IF side = "seek" THEN SeekInit ELSE SeekAtRest

ServiceNext ==
    /\ UNCHANGED side
    /\ \/ side = "list" /\ ListServiceNext
          /\ UNCHANGED <<gradeVars, textVars, ruleVars, cssVars, stepVars, jsonVars, seekVars>>
       \/ side = "grade" /\ GradeNext
          /\ UNCHANGED <<listServiceVars, textVars, ruleVars, cssVars, stepVars, jsonVars, seekVars>>
       \/ side = "text" /\ TextNext
          /\ UNCHANGED <<listServiceVars, gradeVars, ruleVars, cssVars, stepVars, jsonVars, seekVars>>
       \/ side = "rules" /\ RuleNext
          /\ UNCHANGED <<listServiceVars, gradeVars, textVars, cssVars, stepVars, jsonVars, seekVars>>
       \/ side = "css" /\ CssNext
          /\ UNCHANGED <<listServiceVars, gradeVars, textVars, ruleVars, stepVars, jsonVars, seekVars>>
       \/ side = "steps" /\ StepNext
          /\ UNCHANGED <<listServiceVars, gradeVars, textVars, ruleVars, cssVars, jsonVars, seekVars>>
       \/ side = "json" /\ JsonNext
          /\ UNCHANGED <<listServiceVars, gradeVars, textVars, ruleVars, cssVars, stepVars, seekVars>>
       \/ side = "seek" /\ SeekNext
          /\ UNCHANGED <<listServiceVars, gradeVars, textVars, ruleVars, cssVars, stepVars, jsonVars>>

ServiceSpec ==
    ServiceInit /\ [][ServiceNext]_serviceVars /\ ValidationFairness /\ StreamFairness

-----------------------------------------------------------------------------
(* Properties. *)

\* A validation and a stream end whatever else happens to the list, if every request they
\* make comes back; an event was then written for every source that was searched.
ServiceEnds == ValidationEnds /\ StreamIsAnswered

\* A rule finds what it says: it is read as it was written, selectors find what they mean, and
\* the caches change nothing (rule_analyzer.h:29, css_engine.h:27, engine_utils.cpp:875).
RulesAreFollowed ==
    /\ SplitsAtSeparators /\ IndexesAreRead
    /\ FindsWhatIsDecided /\ PathsAreFollowed /\ SingleStepsAreExact
    /\ JsonPathsAreFollowed /\ AnswersMatchRules /\ CachesAreSound
=============================================================================
