------------------------------ MODULE Pipeline ------------------------------
(***************************************************************************)
(* dags/aftermerge_pipeline.py: once an hour the rollups are refreshed,    *)
(* `aftermerge dq` judges the data, `detect` may open an incident, and     *)
(* `investigate` writes the report if the audit trail shows a recent one.  *)
(* A task that fails is tried again, a task that keeps failing ends the    *)
(* run. Any try may die: before its commit, or after it, when what it did  *)
(* stays and the scheduler sees a failure.                                 *)
(*                                                                         *)
(* The quality checks (dataquality/) are operators on what the warehouse   *)
(* shows. Time is in ticks; every tick is due for a run.                   *)
(***************************************************************************)
EXTENDS Naturals, Sequences, FiniteSets

CONSTANTS
    Telemetries,   \* what the warehouse may show
    KNOWN_STATUS_CODES,  \* the vocabularies of the two
    KNOWN_SPAN_KINDS,    \* watched columns
    Catalogs,      \* the literals the queries of the catalog may filter on, by column
    Window,        \* INCIDENT_WINDOW_MINUTES, in ticks
    Retries,       \* DEFAULT_ARGS["retries"]
    MaxLag,        \* bound on the ticks a run takes
    MaxTicks,      \* bound on the clock
    MaxDeploys,    \* bound on the deploys
    MaxIncidents,  \* bound on the incidents
    None           \* Python's None

\* The newest span is within detect's lookback, within the gate's, or older than
\* both; the aggregate of an empty table is NULL or, by default, the epoch.
Ages == {"new", "aging", "old", "null"}

COLUMN_VOCABULARIES == [StatusCode |-> KNOWN_STATUS_CODES, SpanKind |-> KNOWN_SPAN_KINDS]
WATCHED_FILTER_COLUMNS == DOMAIN COLUMN_VOCABULARIES

Telemetry == [age       : Ages,
              versions  : 0..2,                            \* in the gate's lookback
              emitted   : [WATCHED_FILTER_COLUMNS -> SUBSET STRING],
              urls      : {"none", "gaps", "complete"},    \* of the server spans
              regressed : BOOLEAN]                         \* the rules fire on it

ASSUME PipelineAssumption ==
    /\ Window \in Nat /\ Retries \in Nat /\ MaxTicks \in Nat
    /\ MaxDeploys \in Nat /\ MaxIncidents \in Nat
    \* The tasks of a run take minutes and wait two minutes between tries.
    /\ MaxLag \in Nat /\ MaxLag <= Window
    /\ None \notin Telemetry

\* A lookback that holds no span holds no version and no URL; the rules need
\* samples of both versions.
ASSUME TelemetryAssumption ==
    /\ Telemetries \subseteq Telemetry
    /\ \A t \in Telemetries :
          /\ t.age \in {"old", "null"} => t.versions = 0 /\ t.urls = "none"
          /\ t.age \in {"new", "aging"} => t.versions > 0
          /\ t.regressed => t.age = "new"

Ticks == 0..MaxTicks
Tasks == {"refresh_rollups", "data_quality", "detect", "incident_opened", "investigate"}

Incident == [at : Ticks, scheduled : BOOLEAN]

\* `gate` is what the quality gate accepted, None when it saw no warehouse; `opened`
\* are the incidents of the run's own detection, `read` how many the branch found.
DagRun == [task : Tasks, tries : 0..Retries, began : Ticks,
           gate : Telemetries \cup {None},
           opened : SUBSET (1..MaxIncidents), read : 0..MaxIncidents]

Report == [about : 1..MaxIncidents, written : Ticks]
Ended  == [success : BOOLEAN, at : Ticks, opened : SUBSET (1..MaxIncidents),
           read : 0..MaxIncidents]

ASSUME NoneAssumption == None \notin DagRun /\ None \notin Report /\ None \notin Ended

VARIABLES
    now,         \* the clock
    due,         \* an hour has come whose run has not started
    telemetry,   \* what the warehouse shows
    catalog,     \* literals the queries filter on
    deploys,     \* deploys recorded
    comparable,  \* the latest one replaced another commit
    incidents,   \* table incidents, by detected_at
    run,         \* the active DagRun, None when there is none
    report,      \* incident-report.md, None until it is written
    last         \* how the last DagRun ended

vars == <<now, due, telemetry, catalog, deploys, comparable, incidents, run, report, last>>
world == <<telemetry, catalog, deploys, comparable>>

TypeOK ==
    /\ now \in Ticks
    /\ due \in BOOLEAN
    /\ telemetry \in Telemetries
    /\ catalog \in Catalogs
    /\ deploys \in 0..MaxDeploys
    /\ comparable \in BOOLEAN
    /\ incidents \in Seq(Incident)
    /\ Len(incidents) <= MaxIncidents
    /\ run \in DagRun \cup {None}
    /\ report \in Report \cup {None}
    /\ last \in Ended \cup {None}

Init ==
    /\ now = 0
    /\ due = TRUE
    /\ telemetry \in Telemetries
    /\ catalog \in Catalogs
    /\ deploys = 0
    /\ comparable = FALSE
    /\ incidents = <<>>
    /\ run = None
    /\ report = None
    /\ last = None

-----------------------------------------------------------------------------
(* dataquality/: a check passes, fails or is skipped, and a failure blocks *)
(* unless it is advisory.                                                  *)

Passed  == "passed"
Skipped == "skipped"
Blocks  == "failed, blocking"
Advises == "failed, advisory"

check_freshness(t) ==
    CASE t.age = "null" -> Skipped
      [] t.age = "old"  -> Blocks
      [] OTHER          -> Passed

Impossible(literals) ==
    \E c \in WATCHED_FILTER_COLUMNS : ~(literals[c] \subseteq COLUMN_VOCABULARIES[c])
Absent(t, literals) ==
    \E c \in WATCHED_FILTER_COLUMNS : ~(literals[c] \subseteq t.emitted[c])

\* Mutated: every finding about a literal is advisory.
AdviseOnLiterals(t, literals) ==
    IF Impossible(literals) \/ Absent(t, literals) THEN Advises ELSE Passed
check_filter_literals(t, literals) ==
    CASE \A c \in WATCHED_FILTER_COLUMNS : literals[c] = {} -> Skipped
      [] Impossible(literals)                               -> Blocks
      [] ~Impossible(literals) /\ Absent(t, literals)       -> Advises
      [] OTHER                                              -> Passed

\* The span kinds of the data are not looked at.
check_status_code_domain(t) ==
    CASE t.emitted["StatusCode"] = {}                               -> Skipped
      [] ~(t.emitted["StatusCode"] \subseteq KNOWN_STATUS_CODES)  -> Blocks
      [] OTHER                                                     -> Passed

check_version_cardinality(t) ==
    CASE t.versions = 0 -> Skipped
      [] t.versions = 1 -> Blocks
      [] OTHER          -> Passed

check_url_completeness(t) ==
    CASE t.urls = "none" -> Skipped
      [] t.urls = "gaps" -> Blocks
      [] OTHER           -> Passed

\* With no warehouse one check stands for its five, and it is skipped.
warehouse_checks(reached, t, literals) ==
    IF ~reached THEN {Skipped}
    ELSE {check_freshness(t), check_filter_literals(t, literals),
          check_status_code_domain(t), check_version_cardinality(t), check_url_completeness(t)}

\* `orphans`: rows of the audit trail that cite what is not there.
run_all(reached, t, literals, orphans) ==
    warehouse_checks(reached, t, literals) \cup {IF orphans THEN Blocks ELSE Passed}

\* DataQualityReport.passed: the exit code is 0.
Accepts(results) == Passed \in results /\ Blocks \notin results

-----------------------------------------------------------------------------
(* The world the schedule runs in.                                         *)

\* A run is over before MaxLag ticks have passed.
Tick ==
    /\ now < MaxTicks
    /\ run # None => now - run.began < MaxLag
    /\ now' = now + 1
    /\ due' = TRUE
    /\ UNCHANGED <<world, incidents, run, report, last>>

Traffic ==
    /\ telemetry' \in Telemetries
    /\ UNCHANGED <<now, due, catalog, deploys, comparable, incidents, run, report, last>>

\* deploy.sh records a deploy; one that has no predecessor or brings the same
\* commit again has nothing to be compared with.
Deploy ==
    /\ deploys < MaxDeploys
    /\ deploys' = deploys + 1
    /\ comparable' \in BOOLEAN
    /\ UNCHANGED <<now, due, telemetry, catalog, incidents, run, report, last>>

\* IncidentRepository.open and the commit.
Open(scheduled) == incidents' = Append(incidents, [at |-> now, scheduled |-> scheduled])

\* The rules fire, MaxIncidents times at most.
Triggers == comparable /\ telemetry.regressed /\ Len(incidents) < MaxIncidents

\* Somebody runs `aftermerge detect`.
DetectByHand ==
    /\ Triggers
    /\ Open(FALSE)
    /\ UNCHANGED <<now, due, world, run, report, last>>

-----------------------------------------------------------------------------
(* The DagRun.                                                             *)

\* max_active_runs and catchup: one run at a time, missed hours are not made up.
StartRun ==
    /\ due
    /\ run = None
    /\ due' = FALSE
    /\ run' = [task |-> "refresh_rollups", tries |-> 0, began |-> now, gate |-> None,
               opened |-> {}, read |-> 0]
    /\ UNCHANGED <<now, world, incidents, report, last>>

On(task) == run # None /\ run.task = task

\* The next task starts with its first try.
Proceed(r, task) == run' = [r EXCEPT !.task = task, !.tries = 0] /\ UNCHANGED last

End(r, success) ==
    /\ run' = None
    /\ last' = [success |-> success, at |-> now, opened |-> r.opened, read |-> r.read]

\* The try failed: the task is tried again, or the run fails.
FailTry(r) ==
    \/ /\ r.tries < Retries
       /\ run' = [r EXCEPT !.tries = @ + 1]
       /\ UNCHANGED last
    \/ /\ r.tries = Retries
       /\ End(r, FALSE)

\* A store is down, or the process is killed, before the task has any effect.
TaskFails ==
    /\ run # None
    /\ FailTry(run)
    /\ UNCHANGED <<now, due, world, incidents, report>>

\* RollupRefresh is about what it does. detect reads the spans, not the rollups.
Refresh ==
    /\ On("refresh_rollups")
    /\ Proceed(run, "data_quality")
    /\ UNCHANGED <<now, due, world, incidents, report>>

\* The gate's engine connects when the first query runs: without Postgres the
\* command raises, and the try fails.
CheckQuality ==
    /\ On("data_quality")
    /\ \E reached, orphans \in BOOLEAN :
          LET exit_0 == Accepts(run_all(reached, telemetry, catalog, orphans))
          IN  \/ /\ exit_0
                 /\ Proceed([run EXCEPT !.gate = IF reached THEN telemetry ELSE None],
                            "detect")
              \/ ~exit_0 /\ FailTry(run)
    /\ UNCHANGED <<now, due, world, incidents, report>>

\* NoComparisonAvailable: exit 2.
CannotCompare ==
    /\ On("detect")
    /\ ~comparable
    /\ FailTry(run)
    /\ UNCHANGED <<now, due, world, incidents, report>>

\* Exit 0 whether an incident was opened or not.
FindNothing ==
    /\ On("detect")
    /\ comparable /\ ~Triggers
    /\ Proceed(run, "incident_opened")
    /\ UNCHANGED <<now, due, world, incidents, report>>

\* The incident is committed; what follows only prints, but may still die.
FindRegression ==
    /\ On("detect")
    /\ Triggers
    /\ Open(TRUE)
    /\ LET r == [run EXCEPT !.opened = @ \cup {Len(incidents) + 1}]
       IN  Proceed(r, "incident_opened") \/ FailTry(r)
    /\ UNCHANGED <<now, due, world, report>>

\* list_recent(limit=5), and those of the window among them.
list_recent == {i \in 1..Len(incidents) : i + 5 > Len(incidents)}
\* Mutated: the cutoff itself is outside the window.
IsMoreRecent(i) == now - incidents[i].at < Window
\* Mutated: any incident counts as this run's.
IsAny(i) == TRUE
IsRecent(i) == now - incidents[i].at <= Window

incident_was_opened == \E i \in list_recent : IsRecent(i)

\* Mutated: a sensor instead of a branch waits for an incident.
BranchOrWait ==
    /\ On("incident_opened")
    /\ incident_was_opened
    /\ Proceed([run EXCEPT !.read = Len(incidents)], "investigate")
    /\ UNCHANGED <<now, due, world, incidents, report>>
\* ShortCircuitOperator: with no recent incident the rest of the run is skipped.
Branch ==
    /\ On("incident_opened")
    /\ LET r == [run EXCEPT !.read = Len(incidents)]
       IN  \/ incident_was_opened /\ Proceed(r, "investigate")
           \/ ~incident_was_opened /\ End(r, TRUE)
    /\ UNCHANGED <<now, due, world, incidents, report>>

\* The latest incident, list_recent(limit=1), whoever opened it. AuditTrail is about
\* what the investigation records.
Investigate ==
    /\ On("investigate")
    /\ report' = [about |-> Len(incidents), written |-> now]
    /\ End(run, TRUE) \/ FailTry(run)
    /\ UNCHANGED <<now, due, world, incidents>>

Work == \/ Refresh \/ CheckQuality \/ CannotCompare \/ FindNothing \/ FindRegression
        \/ Branch \/ Investigate

Next == Tick \/ Traffic \/ Deploy \/ DetectByHand \/ StartRun \/ Work \/ TaskFails

Spec == Init /\ [][Next]_vars
\* The scheduler starts what is due, and every try of a task ends.
FairSpec == Spec /\ WF_vars(StartRun) /\ WF_vars(Work)

-----------------------------------------------------------------------------
(* Properties.                                                             *)

\* What the gate rules out before anything is concluded from the data: spans nobody emits
\* any more, one version only, requests that cannot be rebuilt, statuses the exporter is
\* not known to use, and filters that can never match. A span kind that is not known is
\* not among it, though a query that filters on a known one would miss those spans.
Fit(t) ==
    /\ t.age \in {"new", "aging"}
    /\ t.versions = 2
    /\ t.urls # "gaps"
    /\ t.emitted["StatusCode"] \subseteq KNOWN_STATUS_CODES
    /\ ~Impossible(catalog)

\* The gate saw no span: there was no warehouse, or an empty one that says NULL.
SawNothing(gate) == gate = None \/ gate.age = "null"

\* An incident that the schedule opens was found by a run whose gate held fit data in
\* its hands, or none at all: no other combination of checks that pass, fail, advise
\* and are skipped lets a run through, in whichever try (dataquality/checks.py:75).
AnalysedWasChecked ==
    [][incidents' # incidents /\ incidents'[Len(incidents')].scheduled
          => SawNothing(run.gate) \/ Fit(run.gate)]_vars

\* A run that succeeds has told of everything it should have: incident-report.md is
\* about the incidents its own detection opened, in any of its tries, or about a newer
\* one; and about what an earlier run found and failed to report, or a user found, as
\* long as the window holds it (incident_was_opened, dags/aftermerge_pipeline.py:45).
GreenMeansTold ==
    last # None /\ last.success =>
        \A i \in 1..last.read :
            i \in last.opened \/ last.at - incidents[i].at <= Window
               => report # None /\ report.about >= i

\* The report is not about old news: quiet hours repeat an incident until the window
\* and the lag of a run have passed, and never after.
NoOldNews ==
    report # None => report.written - incidents[report.about].at <= Window + MaxLag

\* Every hour is followed by a run, whatever fails: a run that failed or found nothing
\* has not kept the schedule (max_active_runs=1) waiting.
EveryHourIsRun == due ~> ~due

-----------------------------------------------------------------------------
(* What the comments say and the code does not do.                         *)

\* aftermerge_pipeline.py:30-33: a retried run sees the incident its first attempt
\* opened, "rather than opening a duplicate". The window is read after detection.
RetriesDoNotDuplicate == run # None => Cardinality(run.opened) <= 1

\* docs/airflow.md:65: in a quiet hour "detection finds nothing, the branch
\* short-circuits". The incident of an earlier hour counts as this run's.
QuietHoursAreSkipped ==
    On("investigate") => run.opened # {}

\* cli.py:1442: dq "exits 0 when the data is trustworthy". With the warehouse out of
\* reach the check of the audit trail is enough.
ExitZeroIsTrustworthy ==
    run # None /\ run.task \in {"detect", "incident_opened", "investigate"}
        => run.gate # None /\ Fit(run.gate)
=============================================================================
