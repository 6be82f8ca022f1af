--------------------------- MODULE PipelineProofs ---------------------------
(***************************************************************************)
(* Theorems about Pipeline, for any window, number of retries, clock and   *)
(* telemetry: the types, what the gate lets through, and what a run that   *)
(* succeeds has told.                                                      *)
(***************************************************************************)
EXTENDS Pipeline, TLAPS

\* The incidents are in the order of their detection, none of the future.
InOrder ==
    /\ \A i \in 1..Len(incidents) : incidents[i].at <= now
    /\ \A i, j \in 1..Len(incidents) : i <= j => incidents[i].at <= incidents[j].at

\* What a run knows of itself and of the incidents.
RunIsSane ==
    run # None =>
        /\ run.began <= now
        /\ now <= run.began + MaxLag
        /\ run.read <= Len(incidents)
        /\ \A i \in run.opened : i <= Len(incidents) /\ run.began <= incidents[i].at
        /\ run.task = "detect" => SawNothing(run.gate) \/ Fit(run.gate)
        /\ run.task = "investigate" =>
              /\ Len(incidents) > 0
              /\ run.began <= incidents[Len(incidents)].at + Window

\* What is written is about incidents that are there.
RecordsAreSane ==
    /\ report # None => report.about <= Len(incidents)
    /\ last # None => last.read <= Len(incidents)

IInv == TypeOK /\ InOrder /\ RunIsSane /\ RecordsAreSane /\ GreenMeansTold /\ NoOldNews

-----------------------------------------------------------------------------

\* The fields of a DagRun, and None is not one.
LEMMA DagRunFields ==
    ASSUME NEW r \in DagRun
    PROVE  /\ r # None
           /\ r.task \in Tasks /\ r.tries \in 0..Retries /\ r.began \in Ticks
           /\ r.gate \in Telemetries \cup {None}
           /\ r.opened \in SUBSET (1..MaxIncidents) /\ r.read \in 0..MaxIncidents
  BY NoneAssumption DEF DagRun

LEMMA EndTypes ==
    ASSUME NEW r \in DagRun, NEW success \in BOOLEAN, End(r, success), TypeOK
    PROVE  run' = None /\ last' \in Ended
  BY DagRunFields DEF Ended, End, TypeOK

\* One more try, or the end of a run that failed.
LEMMA FailTryTypes ==
    ASSUME NEW r \in DagRun, FailTry(r), TypeOK
    PROVE  /\ run' \in DagRun \cup {None}
           /\ last' \in Ended \cup {None}
  <1>0. Retries \in Nat /\ now \in Ticks /\ last \in Ended \cup {None}
    BY PipelineAssumption DEF TypeOK
  <1>1. CASE r.tries < Retries /\ run' = [r EXCEPT !.tries = @ + 1] /\ last' = last
    BY <1>0, <1>1 DEF DagRun
  <1>2. CASE r.tries = Retries /\ End(r, FALSE)
    BY <1>2, EndTypes
  <1> QED BY <1>1, <1>2 DEF FailTry

LEMMA ProceedTypes ==
    ASSUME NEW r \in DagRun, NEW task \in Tasks, Proceed(r, task), TypeOK
    PROVE  /\ run' \in DagRun
           /\ last' \in Ended \cup {None}
  <1>1. Retries \in Nat /\ last \in Ended \cup {None} /\ 0 \in 0..Retries
    BY PipelineAssumption DEF TypeOK
  <1>2. run' = [r EXCEPT !.task = task, !.tries = 0] /\ last' = last
    BY DEF Proceed
  <1>3. run' \in DagRun
    BY <1>1, <1>2 DEF DagRun
  <1> QED BY <1>1, <1>2, <1>3

\* A new incident keeps the table well-typed and in order.
LEMMA OpenTypes ==
    ASSUME TypeOK, NEW scheduled \in BOOLEAN, Open(scheduled),
           Len(incidents) < MaxIncidents
    PROVE  /\ incidents' \in Seq(Incident)
           /\ Len(incidents') = Len(incidents) + 1
           /\ Len(incidents') <= MaxIncidents
           /\ \A i \in 1..Len(incidents) : incidents'[i] = incidents[i]
           /\ incidents'[Len(incidents')].at = now
           /\ incidents'[Len(incidents')].scheduled = scheduled
  <1>1. [at |-> now, scheduled |-> scheduled] \in Incident
    BY DEF TypeOK, Incident
  <1>2. incidents \in Seq(Incident) /\ MaxIncidents \in Nat
    BY PipelineAssumption DEF TypeOK
  <1> QED BY <1>1, <1>2 DEF Open

LEMMA TypeInit == Init => TypeOK
  <1> SUFFICES ASSUME Init PROVE TypeOK
    OBVIOUS
  <1>1. 0 \in Ticks /\ 0 \in 0..MaxDeploys /\ MaxIncidents \in Nat
    BY PipelineAssumption DEF Ticks
  <1>2. incidents \in Seq(Incident) /\ Len(incidents) <= MaxIncidents
    BY <1>1 DEF Init
  <1>3. /\ run \in DagRun \cup {None}
        /\ report \in Report \cup {None}
        /\ last \in Ended \cup {None}
    BY DEF Init
  <1>4. now \in Ticks /\ deploys \in 0..MaxDeploys /\ telemetry \in Telemetries
    BY <1>1 DEF Init
  <1>5. catalog \in Catalogs /\ due \in BOOLEAN /\ comparable \in BOOLEAN
    BY Zenon DEF Init
  <1> QED BY <1>2, <1>3, <1>4, <1>5 DEF TypeOK

\* The report is about an incident because the branch found one.
LEMMA TypeStep == TypeOK /\ RunIsSane /\ [Next]_vars => TypeOK'
  <1> SUFFICES ASSUME TypeOK, RunIsSane, [Next]_vars PROVE TypeOK'
    OBVIOUS
  <1>a. run # None => run \in DagRun
    BY DEF TypeOK
  <1>1. CASE Tick
    BY <1>1, PipelineAssumption DEF Tick, TypeOK, world, Ticks
  <1>2. CASE Traffic
    BY <1>2 DEF Traffic, TypeOK
  <1>3. CASE Deploy
    BY <1>3, PipelineAssumption DEF Deploy, TypeOK
  <1>4. CASE DetectByHand
    BY <1>4, OpenTypes DEF DetectByHand, TypeOK, world, Triggers
  <1>5. CASE StartRun
    <2>1. run' \in DagRun
      BY <1>5, PipelineAssumption DEF StartRun, TypeOK, DagRun, Tasks
    <2> QED BY <1>5, <2>1 DEF StartRun, TypeOK, world
  <1>6. CASE TaskFails
    BY <1>6, <1>a, FailTryTypes DEF TaskFails, TypeOK, world
  <1>7. CASE Refresh
    BY <1>7, <1>a, ProceedTypes DEF Refresh, On, TypeOK, world, Tasks
  <1>8. CASE CheckQuality
    <2>1. run \in DagRun
      BY <1>8, <1>a DEF CheckQuality, On
    <2>2. PICK reached \in BOOLEAN, orphans \in BOOLEAN :
             \/ Proceed([run EXCEPT !.gate = IF reached THEN telemetry ELSE None], "detect")
             \/ FailTry(run)
      BY <1>8 DEF CheckQuality
    <2>3. [run EXCEPT !.gate = IF reached THEN telemetry ELSE None] \in DagRun
      BY <2>1 DEF DagRun, TypeOK
    <2>4. run' \in DagRun \cup {None} /\ last' \in Ended \cup {None}
      BY <2>1, <2>2, <2>3, ProceedTypes, FailTryTypes DEF Tasks
    <2> QED BY <1>8, <2>4 DEF CheckQuality, TypeOK, world
  <1>9. CASE CannotCompare
    BY <1>9, <1>a, FailTryTypes DEF CannotCompare, On, TypeOK, world
  <1>10. CASE FindNothing
    BY <1>10, <1>a, ProceedTypes DEF FindNothing, On, TypeOK, world, Tasks
  <1>11. CASE FindRegression
    <2> DEFINE r == [run EXCEPT !.opened = @ \cup {Len(incidents) + 1}]
    <2>1. run \in DagRun /\ Open(TRUE) /\ Len(incidents) < MaxIncidents
      BY <1>11, <1>a DEF FindRegression, On, Triggers
    <2>2. Len(incidents) \in Nat /\ MaxIncidents \in Nat
      BY PipelineAssumption DEF TypeOK
    <2>3. r \in DagRun
      BY <2>1, <2>2 DEF DagRun
    <2>4. Proceed(r, "incident_opened") \/ FailTry(r)
      BY <1>11 DEF FindRegression
    <2>5. run' \in DagRun \cup {None} /\ last' \in Ended \cup {None}
      BY <2>3, <2>4, ProceedTypes, FailTryTypes DEF Tasks
    <2> QED BY <1>11, <2>1, <2>5, OpenTypes DEF FindRegression, TypeOK, world
  <1>12. CASE Branch
    <2> DEFINE r == [run EXCEPT !.read = Len(incidents)]
    <2>1. run \in DagRun
      BY <1>12, <1>a DEF Branch, On
    <2>2. Len(incidents) \in 0..MaxIncidents
      BY PipelineAssumption DEF TypeOK
    <2>3. r \in DagRun
      BY <2>1, <2>2 DEF DagRun
    <2>4. Proceed(r, "investigate") \/ End(r, TRUE)
      BY <1>12 DEF Branch
    <2>5. End(r, TRUE) => run' = None /\ last' \in Ended
      BY <2>3, EndTypes
    <2>6. run' \in DagRun \cup {None} /\ last' \in Ended \cup {None}
      BY <2>3, <2>4, <2>5, ProceedTypes DEF Tasks
    <2> QED BY <1>12, <2>6 DEF Branch, TypeOK, world
  <1>13. CASE Investigate
    <2>1. run \in DagRun
      BY <1>13, <1>a DEF Investigate, On
    <2>2. Len(incidents) \in 1..MaxIncidents
      BY <1>13, PipelineAssumption DEF Investigate, On, RunIsSane, TypeOK
    <2>3. report' \in Report
      BY <1>13, <2>2 DEF Investigate, Report, TypeOK
    <2>4. run' \in DagRun \cup {None} /\ last' \in Ended \cup {None}
      BY <1>13, <2>1, EndTypes, FailTryTypes DEF Investigate
    <2> QED BY <1>13, <2>3, <2>4 DEF Investigate, TypeOK, world
  <1>14. CASE UNCHANGED vars
    BY <1>14 DEF vars, TypeOK
  <1> QED BY <1>1, <1>2, <1>3, <1>4, <1>5, <1>6, <1>7, <1>8, <1>9, <1>10, <1>11,
             <1>12, <1>13, <1>14 DEF Next, Work

-----------------------------------------------------------------------------
(* The quality gate.                                                       *)

\* The reports that let a run through are those of fit data, when the warehouse was
\* there and had a span to show.
LEMMA AcceptedIsFit ==
    ASSUME TypeOK, NEW orphans \in BOOLEAN,
           Accepts(run_all(TRUE, telemetry, catalog, orphans)),
           telemetry.age # "null"
    PROVE  Fit(telemetry)
  <1> DEFINE results == run_all(TRUE, telemetry, catalog, orphans)
  <1>1. telemetry \in Telemetry
    BY TelemetryAssumption DEF TypeOK
  <1>2. Blocks \notin results
    BY DEF Accepts
  <1>3. /\ check_freshness(telemetry) # Blocks
        /\ check_filter_literals(telemetry, catalog) # Blocks
        /\ check_status_code_domain(telemetry) # Blocks
        /\ check_version_cardinality(telemetry) # Blocks
        /\ check_url_completeness(telemetry) # Blocks
    BY <1>2 DEF run_all, warehouse_checks
  <1>4. telemetry.age \in {"new", "aging"}
    BY <1>1, <1>3 DEF check_freshness, Telemetry, Ages
  <1>5. telemetry.versions = 2
    BY <1>1, <1>3, <1>4, TelemetryAssumption DEF TypeOK, check_version_cardinality, Telemetry
  <1>6. telemetry.urls # "gaps"
    BY <1>3 DEF check_url_completeness
  <1>7. telemetry.emitted["StatusCode"] \subseteq KNOWN_STATUS_CODES
    BY <1>3 DEF check_status_code_domain
  <1>8. ~Impossible(catalog)
    <2> SUFFICES ASSUME Impossible(catalog) PROVE FALSE
      OBVIOUS
    <2>1. ~(\A c \in WATCHED_FILTER_COLUMNS : catalog[c] = {})
      BY DEF Impossible
    <2>2. check_filter_literals(telemetry, catalog) = Blocks
      BY <2>1 DEF check_filter_literals
    <2> QED BY <1>3, <2>2
  <1> QED BY <1>4, <1>5, <1>6, <1>7, <1>8 DEF Fit

\* A run reaches detection with what the gate accepted.
LEMMA GateHolds ==
    ASSUME TypeOK, CheckQuality
    PROVE  run' # None /\ run'.task = "detect"
              => SawNothing(run'.gate) \/ Fit(run'.gate)
  <1> SUFFICES ASSUME run' # None, run'.task = "detect"
               PROVE  SawNothing(run'.gate) \/ Fit(run'.gate)
    OBVIOUS
  <1>1. run \in DagRun /\ run.task = "data_quality"
    BY DEF CheckQuality, On, TypeOK
  <1>2. ~FailTry(run)
    BY <1>1 DEF FailTry, End, DagRun
  <1>3. PICK reached \in BOOLEAN, orphans \in BOOLEAN :
           /\ Accepts(run_all(reached, telemetry, catalog, orphans))
           /\ Proceed([run EXCEPT !.gate = IF reached THEN telemetry ELSE None], "detect")
    BY <1>2 DEF CheckQuality
  <1>4. run'.gate = IF reached THEN telemetry ELSE None
    BY <1>1, <1>3 DEF Proceed, DagRun
  <1>5. CASE reached
    BY <1>3, <1>4, <1>5, AcceptedIsFit DEF SawNothing
  <1>6. CASE ~reached
    BY <1>4, <1>6 DEF SawNothing
  <1> QED BY <1>5, <1>6

-----------------------------------------------------------------------------
(* What a run tells.                                                       *)

LEMMA IncidentFields ==
    ASSUME TypeOK, NEW i \in 1..Len(incidents)
    PROVE  incidents[i].at \in Nat /\ incidents[i].at \in Ticks
  <1>1. incidents \in Seq(Incident)
    BY DEF TypeOK
  <1>2. incidents[i] \in Incident
    BY <1>1
  <1> QED BY <1>2, PipelineAssumption DEF Incident, Ticks

\* A new incident is the latest, and leaves the order as it was.
LEMMA OrderKept ==
    ASSUME TypeOK, InOrder, NEW scheduled \in BOOLEAN, Open(scheduled),
           Len(incidents) < MaxIncidents, now' = now
    PROVE  InOrder'
  <1> DEFINE n == Len(incidents)
  <1>1. /\ n \in Nat
        /\ Len(incidents') = n + 1
        /\ \A i \in 1..n : incidents'[i] = incidents[i]
        /\ incidents'[n + 1].at = now
        /\ now \in Nat
    BY OpenTypes DEF TypeOK, Ticks
  <1>2. ASSUME NEW i \in 1..Len(incidents')
        PROVE  incidents'[i].at <= now
    <2>1. i \in 1..n \/ i = n + 1
      BY <1>1
    <2> QED BY <1>1, <2>1 DEF InOrder
  <1>3. ASSUME NEW i \in 1..Len(incidents'), NEW j \in 1..Len(incidents'), i <= j
        PROVE  incidents'[i].at <= incidents'[j].at
    <2>1. CASE j = n + 1
      BY <1>1, <1>2, <2>1
    <2>2. CASE i \in 1..n /\ j \in 1..n
      BY <1>1, <1>3, <2>2 DEF InOrder
    <2> QED BY <1>1, <1>3, <2>1, <2>2
  <1> QED BY <1>2, <1>3 DEF InOrder

\* Branch skips the report only if neither the run's own incidents nor any of the
\* window are there.
LEMMA SkipIsRight ==
    ASSUME TypeOK, InOrder, RunIsSane, run # None, ~incident_was_opened,
           NEW i \in 1..Len(incidents)
    PROVE  i \notin run.opened /\ ~(now - incidents[i].at <= Window)
  <1> DEFINE n == Len(incidents)
  <1>1. n \in Nat /\ n \in 1..n /\ i <= n
    BY DEF TypeOK
  <1>2. n \in list_recent
    BY <1>1 DEF list_recent
  <1>3. ~(now - incidents[n].at <= Window)
    BY <1>2 DEF incident_was_opened, IsRecent
  <1>4. /\ incidents[i].at <= incidents[n].at
        /\ incidents[i].at \in Nat /\ incidents[n].at \in Nat
        /\ now \in Nat /\ Window \in Nat /\ MaxLag \in Nat /\ MaxLag <= Window
    BY <1>1, IncidentFields, PipelineAssumption DEF InOrder, TypeOK, Ticks
  <1>5. ~(now - incidents[i].at <= Window)
    BY <1>3, <1>4
  <1>6. ASSUME i \in run.opened PROVE FALSE
    <2>1. run.began <= incidents[i].at /\ now <= run.began + MaxLag /\ run.began \in Nat
      BY <1>6 DEF RunIsSane, TypeOK, DagRun, Ticks
    <2> QED BY <2>1, <1>4, <1>5
  <1> QED BY <1>5, <1>6

-----------------------------------------------------------------------------
(* The steps preserve the invariant.                                       *)

\* Incidents are only added, and a step of a run takes no time.
LEMMA IncidentsStay ==
    ASSUME TypeOK, [Next]_vars
    PROVE  /\ Len(incidents) <= Len(incidents')
           /\ \A i \in 1..Len(incidents) : incidents'[i] = incidents[i]
           /\ now <= now'
  <1>1. Len(incidents) \in Nat /\ now \in Nat
    BY DEF TypeOK, Ticks
  <1>2. CASE incidents' = incidents /\ now' \in {now, now + 1}
    BY <1>1, <1>2
  <1>3. CASE DetectByHand
    <2>1. Open(FALSE) /\ Len(incidents) < MaxIncidents /\ now' = now
      BY <1>3 DEF DetectByHand, Triggers
    <2>2. /\ Len(incidents') = Len(incidents) + 1
          /\ \A i \in 1..Len(incidents) : incidents'[i] = incidents[i]
      BY <2>1, OpenTypes
    <2> QED BY <1>1, <2>1, <2>2
  <1>4. CASE FindRegression
    <2>1. Open(TRUE) /\ Len(incidents) < MaxIncidents /\ now' = now
      BY <1>4 DEF FindRegression, Triggers
    <2>2. /\ Len(incidents') = Len(incidents) + 1
          /\ \A i \in 1..Len(incidents) : incidents'[i] = incidents[i]
      BY <2>1, OpenTypes
    <2> QED BY <1>1, <2>1, <2>2
  <1>5. CASE Tick \/ Traffic \/ Deploy \/ StartRun \/ TaskFails \/ UNCHANGED vars
    BY <1>2, <1>5 DEF Tick, Traffic, Deploy, StartRun, TaskFails, vars
  <1>6. CASE Refresh \/ CheckQuality \/ CannotCompare \/ FindNothing \/ Branch \/ Investigate
    BY <1>2, <1>6
       DEF Refresh, CheckQuality, CannotCompare, FindNothing, Branch, Investigate
  <1> QED BY <1>3, <1>4, <1>5, <1>6 DEF Next, Work

LEMMA InOrderStep == TypeOK /\ TypeOK' /\ InOrder /\ [Next]_vars => InOrder'
  <1> SUFFICES ASSUME TypeOK, TypeOK', InOrder, [Next]_vars PROVE InOrder'
    OBVIOUS
  <1>1. CASE DetectByHand
    BY <1>1, OrderKept DEF DetectByHand, Triggers
  <1>2. CASE FindRegression
    BY <1>2, OrderKept DEF FindRegression, Triggers
  <1>3. CASE incidents' = incidents
    <2>1. now <= now' /\ now \in Nat /\ now' \in Nat
      BY IncidentsStay DEF TypeOK, Ticks
    <2> QED BY <1>3, <2>1, IncidentFields DEF InOrder
  <1>4. incidents' = incidents \/ DetectByHand \/ FindRegression
    BY DEF Next, Work, Tick, Traffic, Deploy, StartRun, TaskFails, Refresh, CheckQuality,
           CannotCompare, FindNothing, Branch, Investigate, vars
  <1> QED BY <1>1, <1>2, <1>3, <1>4

\* What the next try and the next task remember of the run.
LEMMA NextTry ==
    ASSUME NEW r \in DagRun, NEW task \in Tasks, FailTry(r) \/ Proceed(r, task), run' # None
    PROVE  /\ run'.began = r.began /\ run'.gate = r.gate
           /\ run'.opened = r.opened /\ run'.read = r.read
           /\ run'.task \in {r.task, task}
           /\ FailTry(r) => run'.task = r.task
           /\ Proceed(r, task) => run'.task = task
  BY DEF FailTry, Proceed, End, DagRun

\* A run that goes on with what it knew, on a table that only grew.
LEMMA SaneKept ==
    ASSUME TypeOK, TypeOK', RunIsSane, [Next]_vars, run # None, now' = now,
           run' # None,
           run'.began = run.began, run'.gate = run.gate, run'.opened = run.opened,
           run'.read = run.read, catalog' = catalog,
           run'.task = run.task \/ run'.task \notin {"detect", "investigate"},
           run.task # "investigate" \/ incidents' = incidents
    PROVE  RunIsSane'
  <1>1. /\ Len(incidents) <= Len(incidents')
        /\ \A i \in 1..Len(incidents) : incidents'[i] = incidents[i]
        /\ Len(incidents) \in Nat /\ Len(incidents') \in Nat
        /\ run.read \in Nat /\ run.opened \subseteq Nat \ {0}
    <2>1. run \in DagRun
      BY DEF TypeOK
    <2>2. run.read \in Nat /\ run.opened \subseteq Nat \ {0}
      BY <2>1, DagRunFields
    <2>3. incidents \in Seq(Incident) /\ incidents' \in Seq(Incident)
      BY DEF TypeOK
    <2> QED BY <2>2, <2>3, IncidentsStay
  <1>2. run'.read <= Len(incidents')
    BY <1>1 DEF RunIsSane
  <1>3. \A i \in run'.opened : i <= Len(incidents') /\ run'.began <= incidents'[i].at
    <2> TAKE i \in run'.opened
    <2>1. i \in 1..Len(incidents)
      BY <1>1 DEF RunIsSane
    <2> QED BY <1>1, <2>1 DEF RunIsSane
  <1>4. (run.task = "detect" => SawNothing(run.gate) \/ Fit(run.gate))'
    BY DEF RunIsSane, SawNothing, Fit
  <1>5. run'.task = "investigate" =>
           /\ Len(incidents') > 0
           /\ run'.began <= incidents'[Len(incidents')].at + Window
    BY DEF RunIsSane
  <1> QED BY <1>2, <1>3, <1>4, <1>5 DEF RunIsSane

LEMMA RunIsSaneStep ==
    TypeOK /\ TypeOK' /\ InOrder /\ InOrder' /\ RunIsSane /\ [Next]_vars => RunIsSane'
  <1> SUFFICES ASSUME TypeOK, TypeOK', InOrder, InOrder', RunIsSane, [Next]_vars,
                      run' # None
               PROVE  RunIsSane'
    BY DEF RunIsSane
  <1>a. run # None => run \in DagRun
    BY DEF TypeOK
  <1>b. /\ now \in Nat /\ now' \in Nat /\ MaxLag \in Nat /\ Window \in Nat
        /\ Len(incidents) \in Nat
    BY PipelineAssumption DEF TypeOK, Ticks
  <1>1. CASE Tick
    <2>1. run' = run /\ incidents' = incidents /\ catalog' = catalog /\ now' = now + 1
      BY <1>1 DEF Tick, world
    <2>2. run.began \in Nat /\ run.began <= now /\ now - run.began < MaxLag
      BY <1>1, <2>1, <1>a DEF Tick, RunIsSane, DagRun, Ticks
    <2>3. run'.began <= now' /\ now' <= run'.began + MaxLag
      BY <2>1, <2>2, <1>b
    <2> QED BY <2>1, <2>3 DEF RunIsSane, SawNothing, Fit
  <1>2. CASE Traffic \/ Deploy
    BY <1>2 DEF Traffic, Deploy, RunIsSane, SawNothing, Fit
  <1>3. CASE DetectByHand
    <2>1. run' = run /\ now' = now /\ catalog' = catalog /\ Open(FALSE)
          /\ Len(incidents) < MaxIncidents
      BY <1>3 DEF DetectByHand, world, Triggers
    <2>2. CASE run.task # "investigate"
      BY <2>1, <2>2, SaneKept
    <2>3. CASE run.task = "investigate"
      <3>1. /\ Len(incidents') = Len(incidents) + 1
            /\ \A i \in 1..Len(incidents) : incidents'[i] = incidents[i]
            /\ incidents'[Len(incidents')].at = now
        BY <2>1, OpenTypes
      <3>2. /\ run'.began <= now' /\ now' <= run'.began + MaxLag
            /\ run'.read <= Len(incidents')
        BY <2>1, <3>1, <1>a, <1>b DEF RunIsSane, DagRun
      <3>3. \A i \in run'.opened : i <= Len(incidents') /\ run'.began <= incidents'[i].at
        <4> TAKE i \in run'.opened
        <4>1. i \in 1..Len(incidents) /\ run.began <= incidents[i].at
          BY <2>1, <1>a DEF RunIsSane, DagRun
        <4> QED BY <2>1, <3>1, <4>1, <1>b
      <3>4. Len(incidents') > 0 /\ run'.began <= incidents'[Len(incidents')].at + Window
        BY <2>1, <3>1, <3>2, <1>a, <1>b DEF DagRun, Ticks
      <3> QED BY <2>1, <2>3, <3>2, <3>3, <3>4 DEF RunIsSane
    <2> QED BY <2>2, <2>3
  <1>4. CASE StartRun
    BY <1>4, <1>b DEF StartRun, RunIsSane
  <1>5. CASE TaskFails
    <2>1. run # None /\ FailTry(run) /\ UNCHANGED <<now, catalog, incidents>>
      BY <1>5 DEF TaskFails, world
    <2> QED BY <2>1, <1>a, NextTry, SaneKept DEF Tasks
  <1>6. CASE Refresh
    <2>1. /\ run # None /\ Proceed(run, "data_quality")
          /\ UNCHANGED <<now, catalog, incidents>> /\ run.task = "refresh_rollups"
      BY <1>6 DEF Refresh, On, world
    <2> QED BY <2>1, <1>a, NextTry, SaneKept DEF Tasks
  <1>7. CASE CheckQuality
    <2>1. run # None /\ run.task = "data_quality" /\ UNCHANGED <<now, catalog, incidents>>
      BY <1>7 DEF CheckQuality, On, world
    <2>2. PICK gate : LET r == [run EXCEPT !.gate = gate]
                      IN  Proceed(r, "detect") \/ FailTry(run)
      BY <1>7 DEF CheckQuality
    <2>3. /\ run'.began = run.began /\ run'.opened = run.opened /\ run'.read = run.read
          /\ run'.task \in {"data_quality", "detect"}
      BY <2>1, <2>2, <1>a DEF Proceed, FailTry, End, DagRun
    <2>4. run'.task = "detect" => SawNothing(run'.gate) \/ Fit(run'.gate)
      BY <1>7, GateHolds
    <2> QED BY <2>1, <2>3, <2>4 DEF RunIsSane, SawNothing, Fit
  <1>8. CASE CannotCompare
    <2>1. run # None /\ FailTry(run) /\ UNCHANGED <<now, catalog, incidents>>
      BY <1>8 DEF CannotCompare, On, world
    <2> QED BY <2>1, <1>a, NextTry, SaneKept DEF Tasks
  <1>9. CASE FindNothing
    <2>1. /\ run # None /\ Proceed(run, "incident_opened")
          /\ UNCHANGED <<now, catalog, incidents>> /\ run.task = "detect"
      BY <1>9 DEF FindNothing, On, world
    <2> QED BY <2>1, <1>a, NextTry, SaneKept DEF Tasks
  <1>10. CASE FindRegression
    <2> DEFINE r == [run EXCEPT !.opened = @ \cup {Len(incidents) + 1}]
    <2>1. /\ run \in DagRun /\ run.task = "detect" /\ Open(TRUE)
          /\ Len(incidents) < MaxIncidents
          /\ UNCHANGED <<now, catalog>>
          /\ Proceed(r, "incident_opened") \/ FailTry(r)
      BY <1>10, <1>a DEF FindRegression, On, Triggers, world
    <2>2. /\ r \in DagRun
          /\ r.began = run.began /\ r.gate = run.gate /\ r.read = run.read
          /\ r.task = "detect" /\ r.opened = run.opened \cup {Len(incidents) + 1}
      BY <2>1, <1>b, PipelineAssumption DEF DagRun
    <2> HIDE DEF r
    <2>3. /\ run'.began = run.began /\ run'.gate = run.gate /\ run'.read = run.read
          /\ run'.opened = run.opened \cup {Len(incidents) + 1}
          /\ run'.task \in {"detect", "incident_opened"}
      BY <2>1, <2>2, NextTry DEF Tasks
    <2>4. /\ Len(incidents') = Len(incidents) + 1
          /\ \A i \in 1..Len(incidents) : incidents'[i] = incidents[i]
          /\ incidents'[Len(incidents')].at = now
      BY <2>1, OpenTypes
    <2>5. /\ run'.began <= now' /\ now' <= run'.began + MaxLag
          /\ run'.read <= Len(incidents')
      <3>1. /\ run.began <= now /\ now <= run.began + MaxLag
            /\ run.read <= Len(incidents) /\ run.read \in Nat
        BY <2>1, DagRunFields DEF RunIsSane
      <3> QED BY <2>1, <2>3, <2>4, <1>b, <3>1
    <2>6. \A i \in run'.opened : i <= Len(incidents') /\ run'.began <= incidents'[i].at
      <3> TAKE i \in run'.opened
      <3>1. CASE i = Len(incidents) + 1
        BY <2>1, <2>4, <2>5, <3>1, <1>b
      <3>2. CASE i \in run.opened
        <4>1. i \in 1..Len(incidents) /\ run.began <= incidents[i].at
          BY <2>1, <3>2, DagRunFields DEF RunIsSane
        <4> QED BY <2>3, <2>4, <4>1, <1>b
      <3> QED BY <2>3, <3>1, <3>2
    <2>7. SawNothing(run.gate) \/ Fit(run.gate)
      BY <2>1, DagRunFields DEF RunIsSane
    <2> QED BY <2>1, <2>3, <2>5, <2>6, <2>7 DEF RunIsSane, SawNothing, Fit
  <1>11. CASE Branch
    <2> DEFINE r == [run EXCEPT !.read = Len(incidents)]
    <2>1. /\ run \in DagRun /\ run # None /\ UNCHANGED <<now, catalog, incidents>>
          /\ incident_was_opened
          /\ Proceed(r, "investigate")
      BY <1>11, <1>a DEF Branch, On, End, world
    <2>2. /\ r \in DagRun /\ r.began = run.began /\ r.read = Len(incidents)
          /\ r.opened = run.opened
      <3>1. Len(incidents) \in 0..MaxIncidents
        BY <1>b, PipelineAssumption DEF TypeOK
      <3> QED BY <2>1, <3>1 DEF DagRun
    <2> HIDE DEF r
    <2>3. /\ run'.began = run.began /\ run'.read = Len(incidents)
          /\ run'.opened = run.opened /\ run'.task = "investigate"
      BY <2>1, <2>2, NextTry DEF Tasks
    <2>4. PICK i \in 1..Len(incidents) : now - incidents[i].at <= Window
      BY <2>1 DEF incident_was_opened, list_recent, IsRecent
    <2>5. /\ Len(incidents) > 0 /\ Len(incidents) \in 1..Len(incidents)
          /\ incidents[i].at <= incidents[Len(incidents)].at
      BY <2>4, <1>b DEF InOrder
    <2>6. run.began <= incidents[Len(incidents)].at + Window
      <3>1. run.began <= now /\ run.began \in Nat
        BY <2>1, DagRunFields DEF RunIsSane, Ticks
      <3>2. incidents[i].at \in Nat /\ incidents[Len(incidents)].at \in Nat
        BY <2>4, <2>5, IncidentFields
      <3>3. now \in Nat /\ Window \in Nat
        BY <1>b
      <3>4. now <= incidents[i].at + Window
        BY <2>4, <3>2, <3>3
      <3> QED BY <2>5, <3>1, <3>2, <3>3, <3>4
    <2>7. run'.began <= now' /\ now' <= run'.began + MaxLag
      BY <2>1, <2>3 DEF RunIsSane
    <2>8. \A o \in run'.opened : o <= Len(incidents') /\ run'.began <= incidents'[o].at
      BY <2>1, <2>3 DEF RunIsSane
    <2>9. /\ run'.read <= Len(incidents') /\ Len(incidents') > 0
          /\ run'.began <= incidents'[Len(incidents')].at + Window
      BY <2>1, <2>3, <2>5, <2>6, <1>b
    <2> QED BY <2>3, <2>7, <2>8, <2>9 DEF RunIsSane
  <1>12. CASE Investigate
    <2>1. run # None /\ FailTry(run) /\ UNCHANGED <<now, catalog, incidents>>
      BY <1>12 DEF Investigate, On, End, world
    <2> QED BY <2>1, <1>a, NextTry, SaneKept DEF Tasks
  <1>13. CASE UNCHANGED vars
    BY <1>13 DEF vars, RunIsSane, SawNothing, Fit
  <1> QED BY <1>1, <1>2, <1>3, <1>4, <1>5, <1>6, <1>7, <1>8, <1>9, <1>10, <1>11, <1>12,
             <1>13 DEF Next, Work

\* A step that neither reports nor ends a run successfully.
LEMMA RecordsKept ==
    ASSUME TypeOK, RecordsAreSane, GreenMeansTold, NoOldNews, [Next]_vars,
           report' = report, last' = last \/ (last' # None /\ ~last'.success),
           last' # None => last'.read <= Len(incidents')
    PROVE  (RecordsAreSane /\ GreenMeansTold /\ NoOldNews)'
  <1>1. /\ Len(incidents) \in Nat /\ Len(incidents') \in Nat
        /\ Len(incidents) <= Len(incidents')
        /\ \A i \in 1..Len(incidents) : incidents'[i] = incidents[i]
    BY IncidentsStay DEF TypeOK
  <1>2. report # None => report.about \in 1..Len(incidents)
    BY <1>1 DEF RecordsAreSane, TypeOK, Report
  <1>3. RecordsAreSane'
    BY <1>1, <1>2 DEF RecordsAreSane
  <1>4. NoOldNews'
    BY <1>1, <1>2 DEF NoOldNews
  <1>5. GreenMeansTold'
    <2>1. CASE last' = last
      <3>1. last # None => \A i \in 1..last.read : i \in 1..Len(incidents)
        BY <1>1 DEF RecordsAreSane, TypeOK, Ended
      <3> QED BY <1>1, <2>1, <3>1 DEF GreenMeansTold
    <2>2. CASE last' # None /\ ~last'.success
      BY <2>2 DEF GreenMeansTold
    <2> QED BY <2>1, <2>2
  <1> QED BY <1>3, <1>4, <1>5

\* A try that fails says nothing.
LEMMA FailureIsSilent ==
    ASSUME TypeOK, NEW r \in DagRun, FailTry(r)
    PROVE  last' = last \/ (last' # None /\ ~last'.success /\ last'.read = r.read)
  <1>1. CASE r.tries = Retries /\ End(r, FALSE)
    <2>1. last' \in Ended /\ last'.success = FALSE /\ last'.read = r.read
      BY <1>1, EndTypes DEF End
    <2> QED BY <2>1, NoneAssumption
  <1> QED BY <1>1 DEF FailTry

LEMMA RecordsStep ==
    TypeOK /\ TypeOK' /\ InOrder /\ RunIsSane /\ RecordsAreSane /\ GreenMeansTold
      /\ NoOldNews /\ [Next]_vars
    => (RecordsAreSane /\ GreenMeansTold /\ NoOldNews)'
  <1> SUFFICES ASSUME TypeOK, TypeOK', InOrder, RunIsSane, RecordsAreSane, GreenMeansTold,
                      NoOldNews, [Next]_vars
               PROVE  (RecordsAreSane /\ GreenMeansTold /\ NoOldNews)'
    OBVIOUS
  <1>a. run # None => run \in DagRun /\ run.read <= Len(incidents)
    BY DEF TypeOK, RunIsSane
  <1>b. /\ Len(incidents) \in Nat /\ Len(incidents') \in Nat
        /\ Len(incidents) <= Len(incidents') /\ now \in Nat
        /\ MaxLag \in Nat /\ Window \in Nat
    BY IncidentsStay, PipelineAssumption DEF TypeOK, Ticks
  <1>c. last # None => last.read \in Nat /\ last.read <= Len(incidents')
    BY <1>b DEF RecordsAreSane, TypeOK, Ended
  <1>1. CASE report' = report /\ last' = last
    BY <1>1, <1>c, RecordsKept
  <1>2. CASE \E r \in DagRun : FailTry(r) /\ r.read <= Len(incidents) /\ report' = report
    <2>1. PICK r \in DagRun : FailTry(r) /\ r.read <= Len(incidents) /\ report' = report
      BY <1>2
    <2>2. r.read \in Nat
      BY DagRunFields
    <2> QED BY <2>1, <2>2, <1>b, <1>c, FailureIsSilent, RecordsKept
  <1>3. CASE CheckQuality
    <2>1. run \in DagRun /\ report' = report
      BY <1>3, <1>a DEF CheckQuality, On
    <2>2. FailTry(run) \/ last' = last
      BY <1>3 DEF CheckQuality, Proceed
    <2>3. run.read <= Len(incidents)
      BY <1>a, <2>1, DagRunFields
    <2> QED BY <1>1, <1>2, <2>1, <2>2, <2>3
  <1>4. CASE FindRegression
    <2> DEFINE r == [run EXCEPT !.opened = @ \cup {Len(incidents) + 1}]
    <2>1. run \in DagRun /\ report' = report /\ Len(incidents) < MaxIncidents
          /\ (Proceed(r, "incident_opened") \/ FailTry(r))
      BY <1>4, <1>a DEF FindRegression, On, Triggers
    <2>2. r \in DagRun /\ r.read <= Len(incidents)
      <3>1. Len(incidents) + 1 \in 1..MaxIncidents
        BY <2>1, <1>b, PipelineAssumption
      <3>2. run.read <= Len(incidents)
        BY <1>a, <2>1, DagRunFields
      <3> QED BY <2>1, <3>1, <3>2 DEF DagRun
    <2> HIDE DEF r
    <2> QED BY <1>1, <1>2, <2>1, <2>2 DEF Proceed
  <1>5. CASE Branch
    <2> DEFINE r == [run EXCEPT !.read = Len(incidents)]
    <2>1. /\ run \in DagRun /\ run # None /\ report' = report /\ incidents' = incidents
          /\ \/ Proceed(r, "investigate")
             \/ ~incident_was_opened /\ End(r, TRUE)
      BY <1>5, <1>a DEF Branch, On
    <2>2. CASE Proceed(r, "investigate")
      BY <1>1, <2>1, <2>2 DEF Proceed
    <2>3. CASE ~incident_was_opened /\ End(r, TRUE)
      <3>1. /\ last'.at = now /\ last'.opened = run.opened
            /\ last'.read = Len(incidents)
        BY <2>1, <2>3 DEF End, DagRun
      <3>2. GreenMeansTold'
        BY <2>1, <2>3, <3>1, SkipIsRight DEF GreenMeansTold
      <3>3. RecordsAreSane'
        BY <2>1, <3>1, <1>b DEF RecordsAreSane
      <3>4. NoOldNews'
        BY <2>1 DEF NoOldNews
      <3> QED BY <3>2, <3>3, <3>4
    <2> QED BY <2>1, <2>2, <2>3
  <1>6. CASE Investigate
    <2>1. /\ run \in DagRun /\ run # None /\ run.task = "investigate"
          /\ incidents' = incidents
          /\ report' = [about |-> Len(incidents), written |-> now]
          /\ End(run, TRUE) \/ FailTry(run)
      BY <1>6, <1>a DEF Investigate, On
    <2>2. report' # None /\ report'.about = Len(incidents) /\ report'.written = now
      <3>1. Len(incidents) \in 1..MaxIncidents
        BY <2>1, PipelineAssumption, <1>b DEF RunIsSane, TypeOK
      <3>2. report' \in Report
        BY <2>1, <3>1 DEF Report, TypeOK
      <3> QED BY <2>1, <3>2, NoneAssumption
    <2>3. last' # None => last'.read <= Len(incidents)
      BY <2>1, <1>a, <1>b, <1>c, FailureIsSilent DEF End
    <2>4. RecordsAreSane'
      BY <2>1, <2>2, <2>3, <1>b DEF RecordsAreSane
    <2>5. last' # None => last'.read \in Nat
      BY DEF TypeOK, Ended
    <2>6. GreenMeansTold'
      <3> SUFFICES ASSUME last' # None, NEW i \in 1..last'.read
                   PROVE  report' # None /\ report'.about >= i
        BY DEF GreenMeansTold
      <3> QED BY <2>2, <2>3, <2>5, <1>b
    <2>7. NoOldNews'
      <3>1. /\ run.began <= incidents[Len(incidents)].at + Window
            /\ now <= run.began + MaxLag /\ run.began \in Nat
            /\ Len(incidents) \in 1..Len(incidents)
        BY <2>1, <1>b DEF RunIsSane, DagRun, Ticks
      <3>2. incidents[Len(incidents)].at \in Nat
        BY <3>1, IncidentFields
      <3>3. now - incidents[Len(incidents)].at <= Window + MaxLag
        BY SMTT(30), <3>1, <3>2, <1>b
      <3> QED BY <2>1, <2>2, <3>3 DEF NoOldNews
    <2> QED BY <2>4, <2>6, <2>7
  <1>7. CASE Tick \/ Traffic \/ Deploy \/ DetectByHand \/ StartRun \/ Refresh \/ FindNothing
             \/ UNCHANGED vars
    BY <1>1, <1>7 DEF Tick, Traffic, Deploy, DetectByHand, StartRun, Refresh, FindNothing,
                      Proceed, vars
  <1>8. CASE TaskFails \/ CannotCompare
    BY <1>2, <1>8, <1>a DEF TaskFails, CannotCompare, On
  <1> QED BY <1>3, <1>4, <1>5, <1>6, <1>7, <1>8 DEF Next, Work

-----------------------------------------------------------------------------
(* The theorems.                                                           *)

\* The invariant holds from the start on, of every schedule.
LEMMA Invariance == Spec => []IInv
<1>1. Init => IInv
  <2> SUFFICES ASSUME Init PROVE IInv
    OBVIOUS
  <2>1. TypeOK
    BY TypeInit
  <2>2. InOrder /\ RunIsSane /\ RecordsAreSane /\ GreenMeansTold /\ NoOldNews
    BY DEF Init, InOrder, RunIsSane, RecordsAreSane, GreenMeansTold, NoOldNews
  <2> QED BY <2>1, <2>2 DEF IInv
<1>2. IInv /\ [Next]_vars => IInv'
  BY TypeStep, InOrderStep, RunIsSaneStep, RecordsStep DEF IInv
<1> QED BY <1>1, <1>2, PTL DEF Spec

\* Every variable keeps its type: the tries stay within the retries and the report is
\* about an incident there is.
THEOREM TypeCorrect == Spec => []TypeOK
<1>1. IInv => TypeOK
  BY DEF IInv
<1> QED BY <1>1, Invariance, PTL

\* A run that succeeds has reported its own incidents and those the window holds,
\* whatever failed before and whoever opened them (incident_was_opened).
THEOREM SuccessTells == Spec => []GreenMeansTold
<1>1. IInv => GreenMeansTold
  BY DEF IInv
<1> QED BY <1>1, Invariance, PTL

\* The report never goes back to an incident that the window has let go.
THEOREM ReportsAreRecent == Spec => []NoOldNews
<1>1. IInv => NoOldNews
  BY DEF IInv
<1> QED BY <1>1, Invariance, PTL

\* The schedule opens incidents on data that its gate found fit, or on data its gate
\* did not see (`aftermerge dq` before `aftermerge detect`).
THEOREM GateGuards == Spec => AnalysedWasChecked
<1>1. IInv /\ [Next]_vars
        => [incidents' # incidents /\ incidents'[Len(incidents')].scheduled
              => SawNothing(run.gate) \/ Fit(run.gate)]_vars
  <2> SUFFICES ASSUME IInv, [Next]_vars, incidents' # incidents,
                      incidents'[Len(incidents')].scheduled
               PROVE  SawNothing(run.gate) \/ Fit(run.gate)
    OBVIOUS
  <2>1. DetectByHand \/ FindRegression
    BY DEF Next, Work, Tick, Traffic, Deploy, StartRun, TaskFails, Refresh, CheckQuality,
           CannotCompare, FindNothing, Branch, Investigate, vars
  <2>2. CASE DetectByHand
    <3>1. TypeOK /\ Open(FALSE) /\ Len(incidents) < MaxIncidents /\ FALSE \in BOOLEAN
      BY <2>2 DEF IInv, DetectByHand, Triggers
    <3>2. incidents'[Len(incidents')].scheduled = FALSE
      BY <3>1, OpenTypes
    <3> QED BY <3>2
  <2>3. CASE FindRegression
    BY <2>3 DEF FindRegression, On, IInv, RunIsSane
  <2> QED BY <2>1, <2>2, <2>3
<1> QED BY <1>1, Invariance, PTL DEF Spec, AnalysedWasChecked

-----------------------------------------------------------------------------
(* A run is bounded: the tries that it still has.                          *)

\* The tasks from this one to the end of the DAG.
TasksLeft(task) ==
    CASE task = "refresh_rollups" -> 5
      [] task = "data_quality"    -> 4
      [] task = "detect"          -> 3
      [] task = "incident_opened" -> 2
      [] OTHER                    -> 1

\* The tries left of this task, and all those of the tasks after it.
TriesOf(r) == (TasksLeft(r.task) - 1) * (Retries + 1) + (Retries - r.tries) + 1
TriesLeft == IF run = None THEN 0 ELSE TriesOf(run)

\* A run never gains a try, and every step of one costs a try.
RunsAdvance ==
    [][run # None => /\ TriesLeft' <= TriesLeft
                     /\ Work \/ TaskFails => TriesLeft' < TriesLeft]_vars

LEMMA TriesType ==
    ASSUME NEW r \in DagRun
    PROVE  /\ TriesOf(r) \in 1..(5 * (Retries + 1))
           /\ TasksLeft(r.task) \in 1..5
  <1>1. r.task \in Tasks /\ r.tries \in 0..Retries /\ Retries \in Nat
    BY DagRunFields, PipelineAssumption
  <1>2. CASE r.task = "refresh_rollups"
    BY <1>1, <1>2 DEF TriesOf, TasksLeft
  <1>3. CASE r.task = "data_quality"
    BY <1>1, <1>3 DEF TriesOf, TasksLeft
  <1>4. CASE r.task = "detect"
    BY <1>1, <1>4 DEF TriesOf, TasksLeft
  <1>5. CASE r.task = "incident_opened"
    BY <1>1, <1>5 DEF TriesOf, TasksLeft
  <1>6. CASE r.task = "investigate"
    BY <1>1, <1>6 DEF TriesOf, TasksLeft
  <1> QED BY <1>1, <1>2, <1>3, <1>4, <1>5, <1>6 DEF Tasks

\* A try that fails is gone, whatever the run has learnt in it.
LEMMA FailTrySpends ==
    ASSUME NEW r \in DagRun, FailTry(r)
    PROVE  run' = None \/ (run' \in DagRun /\ TriesOf(run') = TriesOf(r) - 1)
  <1>1. /\ r.tries \in Nat /\ Retries \in Nat /\ TasksLeft(r.task) \in 1..5
    BY DagRunFields, TriesType, PipelineAssumption
  <1>2. CASE r.tries < Retries /\ run' = [r EXCEPT !.tries = @ + 1]
    <2>1. run' \in DagRun /\ run'.task = r.task /\ run'.tries = r.tries + 1
      BY <1>1, <1>2 DEF DagRun
    <2>2. Retries - run'.tries = (Retries - r.tries) - 1
      BY <1>1, <2>1
    <2>3. (TasksLeft(r.task) - 1) * (Retries + 1) \in Nat
      BY <1>1
    <2> QED BY <1>1, <2>1, <2>2, <2>3 DEF TriesOf
  <1>3. CASE End(r, FALSE)
    BY <1>3 DEF End
  <1> QED BY <1>2, <1>3 DEF FailTry

\* The tries of a later task are among those that were left.
LEMMA ProceedSpends ==
    ASSUME NEW r \in DagRun, NEW task \in Tasks, Proceed(r, task),
           TasksLeft(r.task) = TasksLeft(task) + 1
    PROVE  run' \in DagRun /\ TriesOf(run') < TriesOf(r)
  <1>1. r.tries \in 0..Retries /\ Retries \in Nat /\ TasksLeft(task) \in {1, 2, 3, 4, 5}
    BY DagRunFields, PipelineAssumption DEF TasksLeft
  <1>2. run' \in DagRun /\ run'.task = task /\ run'.tries = 0
    <2>1. run' = [r EXCEPT !.task = task, !.tries = 0] /\ 0 \in 0..Retries
      BY <1>1 DEF Proceed
    <2> QED BY <2>1 DEF DagRun
  <1>3. TriesOf(run') = (TasksLeft(task) - 1) * (Retries + 1) + Retries + 1
    BY <1>1, <1>2 DEF TriesOf
  <1>4. TriesOf(r) = TasksLeft(task) * (Retries + 1) + (Retries - r.tries) + 1
    BY <1>1 DEF TriesOf
  <1>5. CASE TasksLeft(task) = 1
    BY <1>1, <1>2, <1>3, <1>4, <1>5
  <1>6. CASE TasksLeft(task) = 2
    BY <1>1, <1>2, <1>3, <1>4, <1>6
  <1>7. CASE TasksLeft(task) = 3
    BY <1>1, <1>2, <1>3, <1>4, <1>7
  <1>8. CASE TasksLeft(task) \in {4, 5}
    BY <1>1, <1>2, <1>3, <1>4, <1>8
  <1> QED BY <1>1, <1>2, <1>5, <1>6, <1>7, <1>8

\* How a step of a run leaves it: the try failed, the next task begins, or the run ends.
LEMMA WorkMoves ==
    ASSUME TypeOK, TypeOK', Work \/ TaskFails
    PROVE  /\ run \in DagRun
           /\ \/ run' = None
              \/ \E r \in DagRun :
                    /\ r.task = run.task /\ r.tries = run.tries
                    /\ \/ FailTry(r)
                       \/ \E task \in Tasks : /\ TasksLeft(r.task) = TasksLeft(task) + 1
                                               /\ Proceed(r, task)
  <1>1. run \in DagRun
    BY DEF Work, TaskFails, On, Refresh, CheckQuality, CannotCompare, FindNothing,
           FindRegression, Branch, Investigate, TypeOK
  <1>2. CASE FailTry(run)
    BY <1>1, <1>2
  <1>3. CASE Refresh
    <2>1. run.task = "refresh_rollups" /\ Proceed(run, "data_quality")
      BY <1>3 DEF Refresh, On
    <2> QED BY <1>1, <2>1 DEF Tasks, TasksLeft
  <1>4. CASE CheckQuality
    <2>1. run.task = "data_quality"
      BY <1>4 DEF CheckQuality, On
    <2>2. PICK reached \in BOOLEAN :
             \/ Proceed([run EXCEPT !.gate = IF reached THEN telemetry ELSE None], "detect")
             \/ FailTry(run)
      BY <1>4 DEF CheckQuality
    <2> DEFINE r == [run EXCEPT !.gate = IF reached THEN telemetry ELSE None]
    <2>3. r \in DagRun /\ r.task = run.task /\ r.tries = run.tries
      BY <1>1 DEF DagRun, TypeOK
    <2>4. "detect" \in Tasks /\ TasksLeft(r.task) = TasksLeft("detect") + 1
      BY <2>1, <2>3 DEF Tasks, TasksLeft
    <2> HIDE DEF r
    <2>5. CASE Proceed(r, "detect")
      <3>1. \E task \in Tasks : TasksLeft(r.task) = TasksLeft(task) + 1 /\ Proceed(r, task)
        BY <2>4, <2>5
      <3> QED BY <1>1, <2>3, <3>1
    <2>6. Proceed(r, "detect") \/ FailTry(run)
      BY <2>2 DEF r
    <2> QED BY <1>2, <2>5, <2>6
  <1>5. CASE FindNothing
    <2>1. run.task = "detect" /\ Proceed(run, "incident_opened")
      BY <1>5 DEF FindNothing, On
    <2> QED BY <1>1, <2>1 DEF Tasks, TasksLeft
  <1>6. CASE FindRegression
    <2> DEFINE r == [run EXCEPT !.opened = @ \cup {Len(incidents) + 1}]
    <2>1. run.task = "detect" /\ (Proceed(r, "incident_opened") \/ FailTry(r))
      BY <1>6 DEF FindRegression, On
    <2>2. Len(incidents) \in Nat /\ MaxIncidents \in Nat /\ Len(incidents) < MaxIncidents
      BY <1>6, PipelineAssumption DEF FindRegression, Triggers, TypeOK
    <2>3. r \in DagRun /\ r.task = run.task /\ r.tries = run.tries
      BY <1>1, <2>2 DEF DagRun
    <2>4. "incident_opened" \in Tasks /\ TasksLeft(r.task) = TasksLeft("incident_opened") + 1
      BY <2>1, <2>3 DEF Tasks, TasksLeft
    <2> HIDE DEF r
    <2>5. CASE Proceed(r, "incident_opened")
      <3>1. \E task \in Tasks : TasksLeft(r.task) = TasksLeft(task) + 1 /\ Proceed(r, task)
        BY <2>4, <2>5
      <3> QED BY <1>1, <2>3, <3>1
    <2>6. CASE FailTry(r)
      BY <1>1, <2>3, <2>6
    <2> QED BY <2>1, <2>5, <2>6
  <1>7. CASE Branch
    <2> DEFINE r == [run EXCEPT !.read = Len(incidents)]
    <2>1. run.task = "incident_opened" /\ (Proceed(r, "investigate") \/ End(r, TRUE))
      BY <1>7 DEF Branch, On
    <2>2. Len(incidents) \in 0..MaxIncidents
      BY PipelineAssumption DEF TypeOK
    <2>3. r \in DagRun /\ r.task = run.task /\ r.tries = run.tries
      BY <1>1, <2>2 DEF DagRun
    <2>4. "investigate" \in Tasks /\ TasksLeft(r.task) = TasksLeft("investigate") + 1
      BY <2>1, <2>3 DEF Tasks, TasksLeft
    <2>5. End(r, TRUE) => run' = None
      BY DEF End
    <2> HIDE DEF r
    <2>6. CASE Proceed(r, "investigate")
      <3>1. \E task \in Tasks : TasksLeft(r.task) = TasksLeft(task) + 1 /\ Proceed(r, task)
        BY <2>4, <2>6
      <3> QED BY <1>1, <2>3, <3>1
    <2> QED BY <1>1, <2>1, <2>5, <2>6
  <1>8. CASE Investigate /\ ~FailTry(run)
    <2>1. End(run, TRUE)
      BY <1>8 DEF Investigate
    <2>2. run' = None
      BY <2>1 DEF End
    <2> QED BY <1>1, <2>2
  <1>9. CASE CannotCompare \/ TaskFails
    BY <1>2, <1>9 DEF CannotCompare, TaskFails
  <1> QED BY <1>1, <1>2, <1>3, <1>4, <1>5, <1>6, <1>7, <1>8, <1>9 DEF Work

\* A run is over, or has a try less, after every step: the next task (aftermerge_pipeline
\* has five, in a row) never comes back to an earlier one, and nothing but a new try
\* repeats a task. What a deploy, a detection by hand or the clock does, leaves it alone.
THEOREM RunsAreBounded ==
    Spec => /\ [](TriesLeft \in 0..(5 * (Retries + 1)))
            /\ [](TriesLeft = 0 <=> run = None)
            /\ RunsAdvance
<1>1. TypeOK => TriesLeft \in 0..(5 * (Retries + 1)) /\ (TriesLeft = 0 <=> run = None)
  <2>1. CASE run = None
    BY <2>1, PipelineAssumption DEF TriesLeft
  <2>2. CASE TypeOK /\ run # None
    <3>1. run \in DagRun
      BY <2>2 DEF TypeOK
    <3>2. TriesOf(run) \in 1..(5 * (Retries + 1)) /\ TriesLeft = TriesOf(run)
      BY <2>2, <3>1, TriesType DEF TriesLeft
    <3> QED BY <2>2, <3>2, PipelineAssumption
  <2> QED BY <2>1, <2>2
<1>2. TypeOK /\ TypeOK' /\ [Next]_vars
        => [run # None => /\ TriesLeft' <= TriesLeft
                          /\ Work \/ TaskFails => TriesLeft' < TriesLeft]_vars
  <2> SUFFICES ASSUME TypeOK, TypeOK', Next, run # None
               PROVE  /\ TriesLeft' <= TriesLeft
                      /\ Work \/ TaskFails => TriesLeft' < TriesLeft
    BY DEF vars
  <2>1. run \in DagRun /\ TriesLeft = TriesOf(run) /\ TriesOf(run) \in Nat \ {0}
    <3>1. run \in DagRun
      BY DEF TypeOK
    <3>2. TriesOf(run) \in 1..(5 * (Retries + 1)) /\ 5 * (Retries + 1) \in Nat
      BY <3>1, TriesType, PipelineAssumption
    <3> QED BY <3>1, <3>2 DEF TriesLeft
  <2>2. CASE Work \/ TaskFails
    <3>1. CASE run' = None
      BY <2>1, <3>1 DEF TriesLeft
    <3>2. CASE run' # None
      <4>1. PICK r \in DagRun :
               /\ r.task = run.task /\ r.tries = run.tries
               /\ \/ FailTry(r)
                  \/ \E task \in Tasks : /\ TasksLeft(r.task) = TasksLeft(task) + 1
                                          /\ Proceed(r, task)
        BY <2>2, <3>2, WorkMoves
      <4>2. TriesOf(r) = TriesOf(run)
        BY <4>1 DEF TriesOf
      <4>3. TriesLeft' = TriesOf(run')
        BY <3>2 DEF TriesLeft
      <4>4. CASE FailTry(r)
        <5>1. TriesOf(run') = TriesOf(r) - 1
          BY <3>2, <4>4, FailTrySpends
        <5> QED BY <2>1, <4>2, <4>3, <5>1
      <4>5. CASE ~FailTry(r)
        <5>1. TriesOf(run') < TriesOf(r) /\ run' \in DagRun
          BY <4>1, <4>5, ProceedSpends
        <5>2. TriesOf(run') \in 1..(5 * (Retries + 1)) /\ 5 * (Retries + 1) \in Nat
          BY <5>1, TriesType, PipelineAssumption
        <5> QED BY <2>1, <4>2, <4>3, <5>1, <5>2
      <4> QED BY <4>4, <4>5
    <3> QED BY <3>1, <3>2
  <2>3. CASE ~(Work \/ TaskFails)
    <3>1. run' = run
      BY <2>3 DEF Next, Tick, Traffic, Deploy, DetectByHand, StartRun
    <3>2. TriesLeft' = TriesLeft
      BY <3>1 DEF TriesLeft
    <3> QED BY <2>1, <2>3, <3>2
  <2> QED BY <2>2, <2>3
<1> QED BY <1>1, <1>2, TypeCorrect, PTL DEF Spec, RunsAdvance
=============================================================================
