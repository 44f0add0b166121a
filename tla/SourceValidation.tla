-------------------------- MODULE SourceValidation --------------------------
(***************************************************************************)
(* validateSourcesConcurrent (src/engine/engine_validate.cpp): the         *)
(* searchable sources are graded by several threads at once, and each      *)
(* result is stored in the list by the index the source had when the       *)
(* validation began, in the table by its url, and reported to the caller.  *)
(* After a cancellation or the total deadline the sources that are still   *)
(* without a grade are graded invalid.                                     *)
(*                                                                         *)
(* The executor is that of ParallelForEach: its tasks are claimed in order *)
(* and it returns when nothing runs and everything was claimed or the      *)
(* predicate turned true.  A step is one critical section of sourcesMutex, *)
(* one SQL statement or one callback.                                      *)
(***************************************************************************)
EXTENDS SourceList, Ascending

CONSTANTS Concurrency,   \* worker threads of a validation
          Outcomes       \* bound: the grades that a validation finds

ASSUME ValidationConstants ==
    Concurrency \in Nat \ {0} /\ Outcomes \subseteq Grades \ {"unknown"} /\ "invalid" \in Outcomes

VARIABLES
    vpc,        \* the validating request: "idle", "running", "force", "forcerow", "ended"
    tasks,      \* SourceTask: the index and the url of each source to be graded
    phase,      \* per task: "pending", "grading", "graded", "listed", "stored", "done"
    verdict,    \* per task: the grade found
    forcing,    \* position of the final loop in tasks
    valid,      \* validCount
    invalid,    \* invalidCount
    reports,    \* the callbacks: task and grade
    cut,        \* cancelled, or the deadline has passed
    vshifts     \* history: "shifts" when the validation began

validationVars == <<vpc, tasks, phase, verdict, forcing, valid, invalid, reports, cut, vshifts>>

listRest == <<cur, holder, pc, job, broken, history>>

Phases == {"pending", "grading", "graded", "listed", "stored", "done"}

ValidationTypeOK ==
    /\ vpc \in {"idle", "running", "force", "forcerow", "ended"}
    /\ tasks \in Seq([index : Nat, url : Urls \union {Temp}])
    /\ phase \in [DOMAIN tasks -> Phases]
    /\ verdict \in [DOMAIN tasks -> Grades]
    /\ forcing \in 1 .. Len(tasks) + 1
    /\ valid \in Nat /\ invalid \in Nat /\ vshifts \in Nat
    /\ reports \in Seq([task : DOMAIN tasks, grade : Grades])
    /\ cut \in BOOLEAN

ValidationInit ==
    /\ vpc = "idle" /\ tasks = <<>> /\ phase = <<>> /\ verdict = <<>>
    /\ forcing = 1 /\ valid = 0 /\ invalid = 0 /\ reports = <<>>
    /\ cut = FALSE /\ vshifts = 0

\* UPDATE book_sources ... WHERE url.
RowGraded(url, g) == [u \in DOMAIN table |-> IF u = url THEN g ELSE table[u]]

-----------------------------------------------------------------------------
(* Faulty variants of operations defined below; no specification uses them. *)

\* The final loop does not ask whether the source already has a grade.
ForceAll ==
    /\ vpc = "force" /\ forcing <= Len(tasks)
    /\ LET i == tasks[forcing].index
       IN  IF InRange(i)
           THEN /\ sources' = [sources EXCEPT ![i + 1].grade = "invalid"]
                /\ vpc' = "forcerow" /\ UNCHANGED forcing
           ELSE forcing' = forcing + 1 /\ UNCHANGED <<sources, vpc>>
    /\ UNCHANGED <<listRest, table, quota, tasks, phase, verdict, valid, invalid, reports,
                   cut, vshifts>>

\* A result is counted as valid whatever it is.
Miscounted(i) ==
    /\ phase[i] = "grading"
    /\ \E g \in Outcomes : verdict' = [verdict EXCEPT ![i] = g]
    /\ valid' = valid + 1
    /\ phase' = [phase EXCEPT ![i] = "graded"]
    /\ UNCHANGED <<listRest, data, quota, vpc, tasks, forcing, invalid, reports, cut, vshifts>>

-----------------------------------------------------------------------------

ValidateStart ==
    /\ vpc = "idle" /\ Ask("validate")
    /\ LET searchable == {i \in DOMAIN sources : sources[i].searchable}
           order == InTurn(searchable)
       IN  /\ tasks' = [k \in DOMAIN order |-> [index |-> order[k] - 1,
                                                url |-> sources[order[k]].url]]
           /\ vpc' = IF searchable = {} THEN "ended" ELSE "running"
    /\ phase' = [i \in DOMAIN tasks' |-> "pending"]
    /\ verdict' = [i \in DOMAIN tasks' |-> "unknown"]
    /\ vshifts' = shifts
    /\ UNCHANGED <<listRest, data, forcing, valid, invalid, reports, cut>>

\* The cancel token or the total deadline.
Cut ==
    /\ vpc = "running" /\ ~cut
    /\ cut' = TRUE
    /\ UNCHANGED <<listRest, data, quota, vpc, tasks, phase, verdict, forcing, valid, invalid,
                   reports, vshifts>>

\* A worker that asked the predicate before it turned true may still claim.
Claim(i) ==
    /\ vpc = "running" /\ phase[i] = "pending"
    /\ \A j \in 1 .. i - 1 : phase[j] # "pending"
    /\ Cardinality({j \in DOMAIN tasks : phase[j] \notin {"pending", "done"}}) < Concurrency
    /\ phase' = [phase EXCEPT ![i] = "grading"]
    /\ UNCHANGED <<listRest, data, quota, vpc, tasks, verdict, forcing, valid, invalid, reports,
                   cut, vshifts>>

\* gradeOneSource returns a grade, or throws, which counts as invalid.
Grade(i) ==
    /\ phase[i] = "grading"
    /\ \E g \in Outcomes :
        /\ verdict' = [verdict EXCEPT ![i] = g]
        /\ IF g = "invalid" THEN invalid' = invalid + 1 /\ UNCHANGED valid
                            ELSE valid' = valid + 1 /\ UNCHANGED invalid
    /\ phase' = [phase EXCEPT ![i] = "graded"]
    /\ UNCHANGED <<listRest, data, quota, vpc, tasks, forcing, reports, cut, vshifts>>

\* commitSourceResult: the list under sourcesMutex, by index ...
CommitList(i) ==
    /\ phase[i] = "graded"
    /\ sources' = IF InRange(tasks[i].index)
                  THEN [sources EXCEPT ![tasks[i].index + 1].grade = verdict[i]] ELSE sources
    /\ phase' = [phase EXCEPT ![i] = "listed"]
    /\ UNCHANGED <<listRest, table, quota, vpc, tasks, verdict, forcing, valid, invalid, reports,
                   cut, vshifts>>

\* ... the row, by url ...
CommitRow(i) ==
    /\ phase[i] = "listed"
    /\ table' = RowGraded(tasks[i].url, verdict[i])
    /\ phase' = [phase EXCEPT ![i] = "stored"]
    /\ UNCHANGED <<listRest, sources, quota, vpc, tasks, verdict, forcing, valid, invalid,
                   reports, cut, vshifts>>

\* ... and the callback under its mutex; then CompleteGuard counts the task.
Report(i) ==
    /\ phase[i] = "stored"
    /\ reports' = Append(reports, [task |-> i, grade |-> verdict[i]])
    /\ phase' = [phase EXCEPT ![i] = "done"]
    /\ UNCHANGED <<listRest, data, quota, vpc, tasks, verdict, forcing, valid, invalid, cut,
                   vshifts>>

\* parallelForEach returns; completedCount tells whether the final loop is needed.
Join ==
    /\ vpc = "running"
    /\ \A i \in DOMAIN tasks : phase[i] = "done" \/ (phase[i] = "pending" /\ cut)
    /\ vpc' = IF \E i \in DOMAIN tasks : phase[i] # "done" THEN "force" ELSE "ended"
    /\ UNCHANGED <<listRest, data, quota, tasks, phase, verdict, forcing, valid, invalid,
                   reports, cut, vshifts>>

\* A source that still has no grade is graded invalid in the list ...
ForceList ==
    /\ vpc = "force" /\ forcing <= Len(tasks)
    /\ LET i == tasks[forcing].index
       IN  IF InRange(i) /\ sources[i + 1].grade = "unknown"
           THEN /\ sources' = [sources EXCEPT ![i + 1].grade = "invalid"]
                /\ vpc' = "forcerow" /\ UNCHANGED forcing
           ELSE forcing' = forcing + 1 /\ UNCHANGED <<sources, vpc>>
    /\ UNCHANGED <<listRest, table, quota, tasks, phase, verdict, valid, invalid, reports,
                   cut, vshifts>>

\* ... and in the table, counted and reported.
ForceRow ==
    /\ vpc = "forcerow"
    /\ table' = RowGraded(tasks[forcing].url, "invalid")
    /\ invalid' = invalid + 1
    /\ reports' = Append(reports, [task |-> forcing, grade |-> "invalid"])
    /\ forcing' = forcing + 1
    /\ vpc' = "force"
    /\ UNCHANGED <<listRest, sources, quota, tasks, phase, verdict, valid, cut, vshifts>>

\* The done callback with the two counts.
ValidateEnds ==
    /\ vpc = "force" /\ forcing > Len(tasks)
    /\ vpc' = "ended"
    /\ UNCHANGED <<listRest, data, quota, tasks, phase, verdict, forcing, valid, invalid,
                   reports, cut, vshifts>>

Work(i) == Claim(i) \/ Grade(i) \/ CommitList(i) \/ CommitRow(i) \/ Report(i)

ValidationNext ==
    ~broken /\ \/ ValidateStart \/ Cut \/ Join \/ ForceList \/ ForceRow \/ ValidateEnds
               \/ \E i \in DOMAIN tasks : Work(i)

ValidationFairness ==
    /\ WF_<<listVars, validationVars>>(~broken /\ (Join \/ ForceList \/ ForceRow \/ ValidateEnds))
    /\ WF_<<listVars, validationVars>>(~broken /\ \E i \in DOMAIN tasks : Work(i))

-----------------------------------------------------------------------------
(* Properties. *)

\* Unless sources left the list meanwhile or two changes overlapped, every source of a
\* finished validation has a grade, and list and table hold the grade that was reported
\* (commitSourceResult and the final loop, engine_validate.cpp:567, 747).
ReportedGradeIsStored ==
    vpc = "ended" /\ shifts = vshifts /\ ~overlap =>
        /\ \A i \in DOMAIN tasks : sources[tasks[i].index + 1].grade # "unknown"
        /\ \A r \in ToSet(reports) :
              /\ sources[tasks[r.task].index + 1].grade = r.grade
              /\ tasks[r.task].url \in DOMAIN table => table[tasks[r.task].url] = r.grade

\* The two counts of the done callback are those of the reports, and unless sources left
\* the list no source is reported twice (engine_validate.cpp:777).
CountsAreReports ==
    vpc = "ended" =>
        LET bad == {k \in DOMAIN reports : reports[k].grade = "invalid"}
        IN  /\ invalid = Cardinality(bad) /\ valid + invalid = Len(reports)
            /\ shifts = vshifts => \A k, l \in DOMAIN reports :
                                      reports[k].task = reports[l].task => k = l

\* What a validation says of the sources is what it keeps: its reports are the stored grades
\* and its counts are those of its reports.
ReportsAreTrue == ReportedGradeIsStored /\ CountsAreReports

\* A validation ends, whatever else happens to the list, as long as each request it makes
\* comes back.
ValidationEnds == vpc # "idle" ~> vpc = "ended" \/ broken
=============================================================================
