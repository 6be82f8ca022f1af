# A verification project for AfterMerge

AfterMerge watches what a deploy does to production and closes the loop:
detect a regression, investigate it against the commit, reproduce it in
isolation, write a test, propose a patch, open a pull request. Beside that loop
it keeps daily rollups of its telemetry, serves them over a cached HTTP API,
watches a Kafka topic during a rollout, and runs on an hourly schedule.

The TLA+ here models the parts of it whose correctness depends on the order in
which things happen: what concurrent and interrupted commands do to the audit
trail, what late and lost spans do to a measurement, what failures, kills and
neighbours do to the sandboxes it is made in, what retries do to the hourly
pipeline, what concurrent requests do to the metric cache, what failing and
retried refreshes do to the rollups, what restarts do to the stream consumer,
and what interrupted and interleaved loops do to the tests and patches they
write. TLC checks each model on small instances; TLAPS proves of each model what
matters most, for every value of the constants.

Paths below are relative to the repository root; the Python package is
`src/aftermerge/` (in `PROJECT.json`, under `src/`).

## 1. Inventory

| Component | State it keeps | Operations | Talks to | Hard because |
|---|---|---|---|---|
| Audit trail store (`store/`) | Postgres tables `deployments`, `incidents`, `facts`, `hypotheses`, `captured_requests`, `verifications` | `session_scope`, the repositories | every CLI command | READ COMMITTED transactions of independent processes, no row locks, no unique constraint on a claim; a killed command rolls back |
| Detector (`detector/`) | none | `detect`: window, three queries, `evaluate`, open, gather | telemetry in ClickHouse, the trail | telemetry moves between the queries; a version may have no rows |
| Investigator (`investigator/`) | none | `gather`, `correlate`, `investigate` | the trail, git | select-then-write of a hypothesis; missing baseline; missing commits |
| Capture, replay, verify (`reproducer/` without the sandboxes) | the trace table of a sandbox | `capture`, `replay`, `verify` (which runs `replay` as a subprocess) | the trail, sandboxes | the subprocess reads the trail for itself; its exit code is the evidence; the spans it counts arrive late, in any order, and not only from its own requests |
| Sandboxes and worktrees (`reproducer/sandbox.py`, `worktree.py`) | containers, databases, worktrees, images | create, use, tear down; patched commits in scratch worktrees | docker, git, ClickHouse | partial failure, sharing of worktrees and images by commit, kills that skip every `finally` |
| Test generation and gate (`testgen/`) | one test file per service and route | write, gate at both commits, keep or unlink | sandboxes, pytest, a model | an uncertified file left behind; what an exit code of pytest means |
| Patching (`patcher/`, `report/pull_request.py`) | `candidate.patch`, branches | propose, guard, validate, `pr` | sandboxes, git, a model | retries; subprocesses that read the latest incident for themselves; what `pr` trusts |
| Evaluation harness (`evaluation/`, `evaluate` in `cli.py`) | the two files above, for its time | one run per model and task, restore | both loops | a run judged by what the run before it left; the files put back |
| Metrics API and cache (`api/`) | `TTLCache`: entries, in-flight futures | `get_or_load` | ClickHouse | asyncio tasks, cancellation, failure, expiry, eviction |
| Rollup warehouse (`warehouse/`) | ClickHouse rollup tables by day | `refresh` | raw spans | no transaction over DROP and INSERT; late spans; retries |
| Streaming detection (`streaming/`) | windows in memory; the group's offset in Kafka | `consume` | Kafka | at-least-once delivery, restarts, malformed messages |
| Scheduled pipeline (`dags/`) | Airflow's task states | refresh, dq, detect, branch, investigate | all of the above | retries of tasks that are not idempotent; a branch on what the trail shows, not on what the run did |
| Data quality (`dataquality/`) | none | six checks, one exit code | telemetry, the trail | checks that pass, fail, advise or are skipped, combined |
| Natural language to SQL (`nl2sql/`), reports, telemetry client, model client | none worth a model | | | text generation, SQL parsing, read-only queries |

What makes each correct, in a sentence: the *trail* holds only whole, cited,
permanent evidence, at most one current claim per incident, and confirmations
only of regressions that exist; the *cache* runs one load per key and strands
nobody; the *rollups* come to agree with the raw spans and never count one
twice; the *consumer* leaves no message out and tells the verdict its windows
give; a *candidate* test or patch is used only when the gate passed it; a
*measurement* counts the spans of its own requests, and all that arrive within
the time it allows them; a *sandbox*
runs the commit it was asked for and leaves nothing behind; the *pipeline*
analyses only data that was checked, and a run that succeeds has told of the
regressions it found.

`PROJECT.json` lists the hazards of the code line by line, with the properties
that would catch each going wrong, and where they do not reach. Several of them
the code does meet; the configuration that shows it is named there and in
section 3.

## 2. Modules

| Module | Models | Uses |
|---|---|---|
| `AuditTrail` | the trail and the commands `deployments record` (through `scripts/deploy.sh`), `detect`, `investigate`, `capture`, `replay`, `verify` | |
| `Measurement` | `replay()`, the waits and counts of a sandbox, and the three judgements made of two measurements | |
| `Sandbox` | `sandbox()`, `ensure_worktree`, `ensure_image`, `patched_commit` and their teardown | |
| `Pipeline` | the DAG with its retries, `dq`'s checks, detection by hand, the branch | |
| `CandidateLoop` | `certify`, `testgen`, `fix` with `validate`, `evaluate` and `pr` over the test, the patch and the rows they share | |
| `SharedLoad` | what a cache with coalesced loads promises its callers: the abstract specification | |
| `TTLCache` | `get_or_load` with the tasks that call it | instantiates `SharedLoad` |
| `RollupRefresh` | `aftermerge warehouse refresh` and the server that runs its INSERTs | |
| `AtLeastOnce` | what a consumer group promises about its topic: the abstract specification | |
| `StreamConsumer` | `aftermerge stream`, its windows, the topic and the group's offset | instantiates `AtLeastOnce` |
| `MC...` | instances for TLC | one per module above, but the two abstract ones |
| `...Proofs` | the theorems about a module | extends it, and `TLAPS` |

The modules meet where one component's promise is another's step. A replay of
`AuditTrail` ends in a measurement that is true of its two commits, or fails:
`Measurement` shows when that is so, and that the exporters' delays do not
guarantee it. It takes place in a sandbox of its own at
the commit: `Sandbox`. A gate or a validation of `CandidateLoop` is pytest or
`validate` over such sandboxes. `Pipeline` runs the refresh that `RollupRefresh`
is about, and the detection and investigation that `AuditTrail` is about, as
tasks that succeed or fail; `RollupRefresh`'s fairness is its schedule.

An operator whose comment begins with *Mutated:* is not part of a model. It is
a plausible bug in the operator it precedes (a dropped guard, an off-by-one, a
swapped order); substituting it there makes one property fail, which shows that
the property speaks about that code.

### 2.1 AuditTrail

State: one variable per table; `shipped`, the versions that served; `opened`,
how many `detected_at` instants were handed out; `job`, the local variables of
each running command. `about` and `outcome` of a verification are not columns;
they remember what the replay really measured, so that properties can compare
it with what was recorded.

A command runs in one transaction. Its reads are actions of their own where
another session can commit in between; its writes happen in the action that
commits. `Crash` ends a command anywhere without a trace. The actions are:

| Action | Code |
|---|---|
| `Deploy` | `deploy.sh`: the previous version comes from `/health` and may be unknown; a record that cannot be written is only a warning |
| `Detect` | window from the last deployment row; the duration samples, span counts and quantiles are three queries, each finding the versions it finds; `evaluate`; `IncidentRepository.open` |
| `CommitDetection` | `gather` queries again, and passes the duration samples through; commit. From `investigate`, which detects when there is no incident, the hypothesis commits with it |
| `StartInvestigate`, `SelectExisting`, `CommitInvestigation`, `GitUnavailable` | `list_recent(1)`; the SELECT of `supersede`; its insert or its attribute-wise update; the commits git cannot resolve |
| `StartCapture`, `CommitCapture` | `candidate_from_row`: requests with bodies are captured, and flagged |
| `StartVerify`, `StartReplay`, `FinishReplay`, `RecordVerification` | `verify` reads the latest incident and its highest-scored claim; the subprocess reads the latest incident again; outcome, exit code, verdict |

Abstractions. One service and one route, by which every query filters. The
telemetry of a version is its true database work per request, whether it is
slow, whether it fails; a query finds enough samples of a version or none. The
statistics of `detector/stats.py` reduce to "the candidate breaches". `gather`'s
three queries share one choice of what they find, since only the span counts
are read later. The diff and the code map enter as the share of the new work
they explain, 0 or 100 percent. Captured rows are a set: two equal requests are
one. Scores are integers in percent.

### 2.2 Measurement

State: which experiment this is, which of its two replays runs and at what step;
the requests sent and failed; the spans on their way and the spans in the
sandbox's `otel_traces`; the local variables of the waits; the readings made.
A span is a triple of replay, request and operation, operation 0 being the
root, so that a reading can be compared with what it should have counted.

| Action | Code |
|---|---|
| `Arrive`, `Lose` | the batch processors and exporters: one span reaches the table, or never will |
| `Second` | a second of a wait, in which nothing need arrive |
| `Reset` | `reset_traces`, whose exit code nobody reads |
| `Send`, `BeginWait` | the requests of `replay`; one that fails may leave no span, its root, or all |
| `AwaitRoots` | `wait_for_traces(delivered)` |
| `AwaitSpans`, `PollSpans` | `wait_until_quiet(minimum=delivered)`, which begins with `wait_for_spans` |
| `Measure` | the named query `span_count_per_trace`; the next replay begins, in the same sandbox or in another |
| `GiveUp` | the deadline of any wait |

Nothing bounds the pause between two arrivals. Every demo service exports with a
`BatchSpanProcessor` of its own (`common/telemetry.py`, 39-47), whose default
delay is five seconds, and the sandbox's collector batches for another; a count
settles after `settle_polls` = 3 polls of a second each. So the database spans of
a request may follow its root by more than the settling time. Two history
variables, which no action reads, record what the waits cannot make up for:
`paused`, that operations of the replay stayed away for `Settle` seconds when
its roots were in, and `disturbed`, that an operation was lost, or left in the
table by a reset that failed. Late roots of readiness polls are neither: the
properties hold in spite of them.

`Verdict` is what is concluded of two readings: a differential
(`run_differential`), a generated scaling test, which replays at two page sizes
against one sandbox, or the work check of `validate`, which alone does not ask
whether its replays were clean. The readiness polls of
`_await_version` leave root spans of their own, which may still be on their way
when the first replay resets the table; whoever counts roots counts those too.
A docker command that fails makes a count 0. A wait's poll takes a second; the
time the counting itself takes is part of it. Spans of no operation other than
roots and database calls are left out: no count looks at them apart from the
settling one, which they only prolong (the minimum it begins with is met by the
roots).

### 2.3 Sandbox

State: the commits of the object database; per commit the worktree
`.worktrees/<sha>` and the image `shopdemo:<sha>`, absent, partial or whole; the
`git worktree add` commands under way; per run the scratch worktree, the compose
project, the collector that has not created its database yet, the trace
database; the local variables of each process; who was killed, and whose
teardown commands failed.

| Action | Code |
|---|---|
| `Begin`, `ApplyPatch`, `RemoveScratch` | `sandbox()` at a commit, or inside `patched_commit` |
| `FindImage`, `FindTree`, `AddTree`, `TreeAdded`, `Build` | `ensure_image` and `ensure_worktree`, each checking for what it caches before it makes it |
| `Up`, `CollectorStarts`, `Await`, `EndBody` | `docker compose up`, the clickhouse exporter's `create_schema`, `_await_version`, the caller's use |
| `Down`, `Drop` | the `finally`: `compose down -v`, and the database unless `keep_traces` |
| `Kill` | a parent's `subprocess.run(timeout=...)` kills the process; commands it waited for go on |

Every step of a run may fail, and goes where the nesting of `try` and `finally`
sends it. A build that is not given a whole tree makes a partial image: that a
missing file may also break the build is its failure. The first `docker compose
up` of a run makes its containers at once; ports, seeds and compose's own order
are left out.

### 2.4 Pipeline

State: the clock and whether an hour is due; what the telemetry shows, the
literals the queries filter on; the deploys; the incidents; the active DagRun
with its task and tries; the report; how the last run ended. The actions are
`Tick`, `Traffic`, `Deploy`, `DetectByHand` around the DAG, `StartRun`, one per
task and outcome (`Refresh`, `CheckQuality`, `CannotCompare`, `FindNothing`,
`FindRegression`, `Branch`, `Investigate`), and `TaskFails`, a try that dies
before it had an effect. A try that dies after its effect is a disjunct of the
task: `FindRegression` and `Investigate` have committed or written by then.

The six checks are operators on a record of what the warehouse shows, with the
order of their tests and their severities; `Accepts` is the exit code. Filter
literals are judged per column: one that is not in the vocabulary of its own
column blocks, one that is and that no span has advises. Of the spans themselves
only the status codes are held against a vocabulary: a span kind nobody knows is
let through, in the model as in the code. A gate
without a warehouse has one skipped check and the audit trail's; one without
Postgres raises. `CheckQuality` reads the telemetry once: the checks run one
after the other, a moment apart. `Triggers` abstracts the detector to
"comparable, and regressed"; `AuditTrail` has its detail. An incident's time is
its tick, so `Window` counts ticks.

### 2.5 TTLCache and SharedLoad

State: the clock, `_entries`, `_inflight`, the futures (named after the task
that created them) and the tasks. The lock of `get_or_load` is never held over
an await, and the event loop runs one task at a time, so the code between two
awaits is one action: `Hit`, `Join` and `Lead` are the first block,
`LoadDone`/`LoadRaises` what follows `await load()`, `Wake`/`CancelWaiter` what
can happen at `await asyncio.shield(waiter)`. A leader can be cancelled like
any task; its waiters then receive its `CancelledError`, which the code does
not promise otherwise and the model has as an outcome. The value of a load is
the instant at which the warehouse was read, some time between the start and
the end of the load, so that freshness can be stated.

Each caller asks once; asking again is another caller. The counters of
`CacheStats` are left out, and `clear()`, which the application never calls.

`SharedLoad` has neither entries nor time: callers, loads and answers. It says
that a load for a key starts only when none is pending, that everyone who
shares a load meets its end, that giving up concerns nobody else, and that an
answer without a load is the value of some load of that key that succeeded.
`TTLCache` instantiates it with a refinement mapping from tasks and futures
(`Promise`); `SharesLoads` is the abstract specification as a property.

### 2.6 RollupRefresh

State: the calendar; the spans that ever arrived (`ever`), those that
`otel_traces` still has (`raw`) and those a rollup counts, per table and day; the
INSERTs the server is executing; the local variables of each refresh.
`Expire` is the TTL of 72 hours with which the collector creates `otel_traces`
(`infra/otel-collector.yaml`, 41): `Retention` days after its own the spans of a
day begin to go, one by one.
`ListDays` takes the days from the watermark of the table, `DropPartition`,
`StartInsert` and `FinishInsert` load one, `NextTable` goes on, `Fail` ends the
refresh anywhere. An INSERT counts the spans there are when it starts and adds
its rows when it ends; AggregatingMergeTree adds, it does not replace. With
`Lingers`, an INSERT may go on after its client died, which ClickHouse does
unless told otherwise. Two history variables say which days a property cannot
speak of: `overtaken`, those whose INSERT still ran when a later refresh listed
the days of its table, and `unbuilt`, those that a `--full` dropped and nothing
has filled since.

A table's rows for a day are the number of spans they aggregate: the columns
and the query of the load are left out, since all of them come from the same
spans. The constants keep `MaxLate` and `Lookback` apart: how late a span
arrives is a fact about production, how far a refresh looks back is an option.

### 2.7 StreamConsumer and AtLeastOnce

State: the deployed versions, the topic, the group's committed offset, the
local variables of `consume`, the windows with their `last_seen`, and the set of
offsets ever folded in (for the properties only). A window holds the offsets of
its spans, which stand for what the code keeps of them; `last_seen`, a reading of
the monotonic clock, is the offset after which it was taken. `Fold` is a poll with
the decoding and observing of its message; `Commit`, `Evaluate`, `End`
(`max_messages` reached, or nothing for `idle_timeout`) and `Stop` (killed,
Ctrl-C, a broker error) follow. `Start` begins at the committed offset, or where
`auto.offset.reset` says, with empty windows.

The topic has one partition. A message holds one span. Everything `decode`
drops is "malformed"; everything it trips over (JSON that is no object, a kind
that is no number) is "not_an_object". `db_trace_ids` holds sixty times
`max_samples`: it does not fill up within the bounds of the run, and may in the
proof.

`AtLeastOnce` has no processes: the topic grows, the message at the group's
offset is handled (wherever the group joins, before it has an offset), and the
offset passes a message that was handled. `StreamConsumer` instantiates it with
the topic's length, the offsets ever folded and the committed offset;
`DeliversInOrder` is the abstract specification as a property. Whatever a stop
undoes in the consumer (its windows, its position, its counters) is a stutter
there.

### 2.8 CandidateLoop

State: how many incidents were detected, and which have a captured request; the
two files, whose names hold neither incident nor commit; the verifications of
gates and validations; the branches of `pr`; the local variables of the command
each shell is running; the faults so far. The actions are:

| Action | Code |
|---|---|
| `Begin`, `Testgen`, `ReadEvidence` | what each command asks for before it starts: a captured request of the latest incident, evidence that can discriminate, a patch on disk and a `patch_validation` row |
| `WriteTest`, `GateBad`, `GateGood`, `AcceptTest`, `RejectTest`, `RecordTest` | `certify()`: write, one pytest process per commit, the good one only after the bad one failed by an assertion, keep or unlink, record |
| `WritePatch`, `Unusable`, `Validate`, `Checks`, `AcceptPatch`, `RejectPatch`, `RecordPatch` | `propose_fix()`, and `validate`, a process of its own that reads the latest incident and the files for itself |
| `BenchmarkTest`, `BenchmarkPatch`, `Restore` | `evaluate` |
| `Branch` | `create_branch()` and the refusal of a branch that exists |
| `GenerationFails`, `Expire`, `Kill`, and the failing sandbox in `Pytest` | the exceptions no loop catches, and a kill |
| the fault *short* in `Checks` | a patched replay whose requests failed half way, or whose spans were lost or late, counts less than the build did |

Abstractions. Incidents are of one service and route, so there is one test path;
other routes have files of their own. What a candidate does is a constant of it:
a test has its two exit codes, a patch whether it strays, its work and whether
its responses are the same; run against the commits of another incident it may
do anything. Work is counted in halves of an operation, because a validation
tolerates half as much again. `Unusable` is every reason for which `to_patch()`
refuses. The suite of `validate` may pass, fail or be absent. The loops of a
benchmark make one attempt. What happens inside a gate or a validation is in
`Measurement` and `Sandbox`; what remains of it is `Readings`: the work that a
validation compares is what its replays counted, which is the build's or, with
the fault, anything less, since `validate` never asks whether a replay was clean
(`validate.py`, 164-175). `SoundDespite` says what may be claimed of a patch in
spite of the faults so far: its scope and its responses always, its work only if
no replay counted short. Seeds, base branches, pushing and the text of the pull
request are left out.

## 3. What TLC checks

| Run | Question | Properties | Instance |
|---|---|---|---|
| `trail_concurrent` | What can two sessions do to each other's rows? | `EvidenceIsWhole`, `CitesOwnEvidence`, `ScoreIsEarned`, `ConfirmedIsReal`, `NeverAboutOlder`, `TrailOnlyGrows` | 2 processes, 2 commits (2 and 6 operations), 2 deploys, 2 incidents, 2 hypotheses, 1 verification |
| `trail_serial` | Do repeated and killed commands, one at a time, keep verdicts reproducible and claims single? | `LatencyIsReproducible`, `OneClaimPerIncident`, `SendsOnlySafeRequests` | 1 process, 3 commits (one slow and failing with no more work), GET and POST |
| `measurement_experiments` | Does a replay count its own requests only, a clean one all of them, and are the verdicts true of the builds? | `MeasuresItsOwn`, `VerdictIsTrue`, `EveryExperimentEnds` | 2 replays of 2 requests, works 0 and 1, one of each judgement, 1 readiness poll on its way, 1 failing request, 1 lost span or failing command, pauses of any length |
| `sandbox_teardown` | Does a sandbox run its commit, and leave nothing behind? | `RunsTheCommit`, `NothingIsLeftBehind`, `StacksGoDown` | 2 processes with 2 sandboxes each, a commit they share and one that a patch makes, 1 kill, 1 failing teardown command, any failing step |
| `pipeline_hourly` | Does a green run mean that what it found was told, of data that was checked? | `GreenMeansTold`, `NoOldNews`, `AnalysedWasChecked`, `EveryHourIsRun` | 3 ticks, a window of 1, 1 retry, 1 deploy, 2 incidents, 7 telemetries, of which 5 have one thing each to be refused or skipped for, 2 catalogs |
| `loop_shell` | Does what is kept, recorded and published rest on an examination that took place? | `CertifiedUnlessBroken`, `EvidenceIsSound`, `CitesItsOwnIncident`, `PublishedUnlessInterrupted`, `JudgedByTheCertified`, `NothingRejectedIsKept`, `EveryCommandEnds` | 1 shell, 2 incidents, 2 tests, 3 repairs, 2 attempts, 2 benchmark runs, 1 fault of any of 5 kinds |
| `cache_requests` | Do concurrent requests share loads, and does each end? | `NobodyIsStranded`, `HitsAreFresh`, `SharesLoads`, `EveryCallerReturns` | 3 callers, 2 keys, 1 entry |
| `rollup_scheduled` | Does a failing hourly refresh lose or double days? | `LagIsReachable`, `NeverOverstates`, `CompletedRefreshIsUpToDate`, `AgreesAgain` | 2 tables, 3 days, 2 spans up to a day late, a lookback of a day, `--full` or not, INSERTs that outlive their client, spans that expire from the second day after their own, 2 failures |
| `stream_restarted` | What do stops and restarts do to the windows, the offset and the verdict? | `NothingIsSkipped`, `DeliversInOrder`, `WindowsAreExact`, `NewestLast`, `FinalVerdictIsTold`, `KeepsUp` | 4 messages, 2 versions, 2 starts, windows of 1 |

Type correctness is proved where there is a proof of it (section 4), and is not
run again. Three runs show a property of the documentation that the code does
not have:

| Run | Property | What happens |
|---|---|---|
| `sandbox_collision` | `SameCommitNeverCollides` | the second of two commands at one commit finds the worktree that the first one's git is still filling, takes it for a whole one and builds the image of that commit from it |
| `pipeline_duplicate` | `RetriesDoNotDuplicate` | an attempt of `detect` commits its incident and dies; the retry opens another. The window the comment trusts is read after detection |
| `loop_vacuous` | `CertifiedDiscriminates` | a sandbox that fails to start raises in the fixture of the test; pytest exits 1, as it does for a failed assertion, and the gate takes that for the test detecting the regression |

More configurations are kept for reference. They show how far the passing
properties go, and TLC finds each property violated:

| Configuration | Property | What happens |
|---|---|---|
| `MCAuditTrail_stacked.cfg` | `OneClaimPerIncident` | two investigations of one incident both find no hypothesis, and both insert |
| `MCAuditTrail_harness.cfg` | `BrokenRunIsErrored` | `verify` runs `replay`; a replay that raised ends with Python's exit code 1, and one whose requests failed does not reproduce and exits 1 too; 1 is recorded as *refuted*, and only 2 as *errored* |
| `MCAuditTrail_moved.cfg` | `EvidenceIsAboutItsHypothesis` | `detect` commits a newer incident after `verify` read the latest; the subprocess replays the newer one, and the result is attached to the older one's hypothesis |
| `MCAuditTrail_no_baseline.cfg` | `MechanicalClaimHasNewWork` | a baseline without rows counts as zero work, so a candidate that does no more work gets a mechanical claim |
| `MCAuditTrail_requeried.cfg` | `WorkIsReproducible` | the span counts recorded are not the ones that opened the incident |
| `MCMeasurement_roots.cfg` | `RootsAreAccountedFor` | the root of a readiness poll that arrives after the reset counts as that of a request, so the wait for roots (`sandbox.py`, 164: "known exactly") ends one short |
| `MCMeasurement_paused.cfg` | `NothingIsMissed` | the roots of a replay are in, its database spans wait for another service's exporter, and the count has settled before they come: a clean replay counts too few |
| `MCMeasurement_unclean.cfg` | `ConclusionsAreTrustworthy` | `validate` does not ask whether its replays were clean: where a replay's requests failed half-way, a patch with three times the work is restored |
| `MCSandbox_crashed.cfg` | `CrashedRunsLeaveNothing` | `docs/slice-2.md`, 64, counts on the `finally` for a crashed run; one whose parent kills it does not get there |
| `MCSandbox_unclaimed.cfg` | `UnclaimedIsCollectable` | the sandbox of a patched commit leaves `.worktrees/<sha>`, which keeps the commit that `tree.py` (8-10) leaves to the object database's collection |
| `MCPipeline_quiet.cfg` | `QuietHoursAreSkipped` | an incident of an earlier hour is within the window, so an hour that found nothing investigates it again (`docs/airflow.md`, 65, says the branch short-circuits) |
| `MCPipeline_unchecked.cfg` | `ExitZeroIsTrustworthy` | with the warehouse out of reach, the check of the audit trail alone passes and `dq` exits 0 |
| `MCRollupRefresh_retried.cfg` | `SafeToRerun` | `load_day` calls dropping first "safe to re-run ... when it retries a failed task" (`rollup.py`, 263-266); the retry of a failed refresh reloads a day while the first attempt's INSERT is still running on the server, which adds its rows too |
| `MCRollupRefresh_full.cfg` | `BringsUpToDate` | `--full` fails between a DROP and its INSERT, on a day far behind the watermark; the incremental refresh that completes next does not reload it |
| `MCStreamConsumer_poison.cfg` | `MalformedStopsNobody` | JSON that is no object ends `consume` with an exception before its offset is committed |
| `MCStreamConsumer_latest.cfg` | `NothingIsSkipped` | without `--from-beginning`, a group that stops before its first commit starts again at the new end |
| `MCStreamConsumer_rollout.cfg` | `CandidateIsLive` | while a rollout serves both versions, the one active last need not be the one deployed last |
| `MCCandidateLoop_published.cfg` | `PublishedIsSound` | a validation that times out raises out of `propose_fix`, so its patch stays at `candidate.patch`; `pr` publishes it with the validation recorded for the patch before it. With `Faults = {"short"}` instead, a patch that fixes nothing is validated by a replay that counted too few operations, and published, with nothing interrupted |
| `MCCandidateLoop_examiner.cfg` | `ExaminerDiscriminates` | `validate` asks of the test only that there is a file at its path: one of `testgen`, gated by nobody, or of an older incident will do |
| `MCCandidateLoop_benchmark.cfg` | `BenchmarkLeavesNoTrace` | `evaluate` restores a test it found, and leaves the last model's test where there was none |

Notes on what the runs show:

- `WindowsAreExact` says of each window that it lists the last `max_samples`
  offsets that this process has read of its version, each once and in order. It
  holds although messages are delivered again: a message is folded twice only by
  two processes, and the windows die with the first. The
  price is the other way round: a restarted consumer has committed past the
  messages its windows held and starts from empty ones.
- `EvidenceIsSound` does not depend on the test: whatever file examined the
  patch, the checks of work and response are `validate`'s own. Of the work they
  are the replays' word: once one has counted short, which `validate` cannot
  tell, the property claims scope and responses only. Nor does it bound the work
  on evidence that has a page size, or is too small to certify a threshold test,
  below the regression: where 1 operation became 2, 2 count as restored. It
  speaks of validations at the incident the patch was made for. `fix` reads the
  latest incident once and `validate` again for each attempt, so a row may also
  be about a newer incident's commits; `CitesItsOwnIncident` shows that `pr`,
  which reads the latest once more, never cites such a row.
- `CertifiedUnlessBroken` is `CertifiedDiscriminates` without the one fault that
  breaks it, under all the others. `PublishedUnlessInterrupted` is the violated
  `PublishedIsSound` without kills and timeouts, and with no claim about the work
  once a replay counted short.
- `SharesLoads` includes that a key has one load at a time: the abstract cache
  starts none while another is pending. `SingleFlight` says the same of the
  code's own variables and is proved on the way to the refinement.
- `DeliversInOrder` is what a batch or a skipped commit would break: a commit of
  anything but the message folded last is no step of `AtLeastOnce`, and neither
  is folding a message other than the one at the group's offset.
- `LagIsReachable` needs `MaxLate <= Lookback`: later spans are never counted. It
  is about what the raw table still has: a day whose spans expired before a
  refresh counted them lags behind nothing that could be reloaded.
- The four properties of the rollups hold with INSERTs that outlive their client,
  which is what ClickHouse does by default, and with `--full`; each exempts the
  days, or the tables, that those can break. `NeverOverstates` exempts the day whose INSERT
  still ran when the next refresh listed the days of the table, since that refresh
  may drop it too early (`SafeToRerun` is the property without the exemption, and
  is violated). The other three exempt the tables with such a day, because its
  rows can raise the watermark, and the days that a `--full` dropped and has not
  refilled, which no incremental refresh need come back to (`BringsUpToDate` is
  violated for that). An INSERT that is left behind and ends before the next
  refresh lists its table's days is not exempt.
- `MeasuresItsOwn` says in its first half that no count is too large in a sandbox
  of its own, whatever is late, lost or failing. In its second half it shows
  which of the two waits carries a measurement: the roots say that every request
  has arrived, the settling that nothing follows for as long as it lasts. So a
  clean replay counted everything, unless an operation was lost, left behind by a
  failed reset, or away for the settling time (`disturbed`, `paused`): the code
  waits for no more, and the services' exporters do not promise to be quicker
  (`NothingIsMissed` is violated). A readiness poll's root that arrives late is no
  exemption: the count of roots ends one short, and the settling makes up for it.
  Nor is a docker command that fails while settling: it feigns a change, or a
  quiet table if it fails more often than the settling has polls, of which the
  property makes a premise (`faults <= Settle`).
- `VerdictIsTrue` has two halves of the same kind. A reading that is too small
  can hide a regression, or restore a patch that is not one; what it cannot do,
  over a good build that was counted exactly, is make a differential claim an
  amplification.
- `KeepsUp` has no excuse but a stop from outside or the end of the consumer's own
  work: a consumer that raised has not kept up. It speaks of the messages before
  the first that `decode` trips over; that one, and all behind it, wait for good
  (`MalformedStopsNobody`).
- `RunsTheCommit` speaks of commits that one process brings up, while nobody is
  killed: a killed process leaves a partial worktree as a neighbour does.
- `GreenMeansTold` and `NoOldNews` pull the window in two directions: it must not
  be shorter than a run, or a run that was retried forgets what its first attempt
  found; it repeats an incident for as long as it is.
- `AnalysedWasChecked` admits one gate that is not fit: an empty warehouse, whose
  freshness check is skipped because the newest span is NULL.

### Bounds

The bounds are constants named `Max...`, in the guards. They are chosen to be
the smallest at which the case a property is about occurs. Two deploys are one
comparison; two incidents make an "older" and a "latest"; two processes are what
a race needs, and an incident committed while a command runs is one. Two keys
and one entry make every store evict; three callers are a leader, a waiter and a
leader of the other key, or a leader and two waiters; the clock runs past the
expiry of what was stored first. Three days with a lookback of one make the
oldest day unreachable, and a retention of two makes it expire, two tables make
a failure between tables; two failures make a retry that fails. Four messages
with a verdict every two spans and an end after three make a final partial
round, and two starts a replay. Windows of one sample make every second sample
of a version fall out. In the loops, two incidents make an older and a latest
one, of which one is bounded by a threshold (1 operation became 4) and one has a
page size (1 became 2); two tests are one that discriminates and one that breaks
at the bad commit, three repairs a fix, a patch that fixes nothing and one that
changes the response; two attempts make a retry, two benchmark runs a run that
meets what the one before it left. Two requests of works 0 and 1 make a span
that can be missing from one of two requests and a baseline of nothing; the
allowance of a scaling test is scaled down with the works, from 1 to 0; with two
polls to settle a pause can be shorter or as long, and four seconds of patience
let a wait end either way. Two processes with a commit in common are what a
collision needs; two sandboxes each meet what the first one left. A window of
one tick and three ticks make an incident that is in the window of the next run
and out of that of the one after; one retry makes a second attempt, two
incidents a duplicate. In the loops one fault happens, of any of the kinds;
the proofs have no such bound.

`CHECK_DEADLOCK FALSE` is set where the bounds make the system stop: all
callers have asked and were answered, all deploys and incidents are used up,
the topic is full, every process has had its sandboxes. The rollups and the
pipeline never stop (the schedule goes on, and telemetry changes), nor does a
shell (there is always another command), nor an experiment before it is judged
or failed, and there deadlock is checked.

### Fairness

- `TTLCache`: weak fairness of the end of a load and of waking a waiter. The
  warehouse client sets `max_execution_time`, so a load ends; the event loop
  runs what is ready. No fairness for new requests, cancellations or the clock.
- `Measurement`: weak fairness of the replay's steps and of the arrival of spans
  that are not lost. Every wait has a deadline and every request a timeout; a
  batch processor exports at some time what it has not dropped. None for
  failures and losses, and no bound on how long an arrival takes.
- `Sandbox`: weak fairness of the steps of each process, and of git. Each step is
  a command that ends or a wait with a timeout. None for kills, for beginning a
  sandbox or for the collector's start.
- `Pipeline`: weak fairness of starting a run that is due and of a task's work.
  Airflow's scheduler starts what is due, and the statements, git and HTTP calls
  of a try end. No fairness for a try that dies, whose retries are bounded, for
  traffic, for deploys or for the clock.
- `RollupRefresh`: weak fairness of beginning a refresh and of its steps. The
  DAG runs every hour with `max_active_runs=1`, and a statement of ClickHouse
  ends. No fairness for failures, which are bounded; without that bound nothing
  would have to agree, and no scheduler could help.
- `StreamConsumer`: weak fairness of polling, committing and evaluating, and of
  leaving the loop when enough spans were seen. `poll` returns a message that is
  there. No fairness for starting or stopping.
- `CandidateLoop`: weak fairness of the steps of each running command. pytest,
  `validate` and the requests they make have timeouts, so an examiner ends; that
  a timeout itself ends the command is one of the faults, which get no fairness.
  None for beginning a command or for detecting an incident.

## 4. What is proved

All eight proof modules are checked by TLAPS, for every value of the constants
that the named `ASSUME`s of the modules admit: bounds that are naturals, sets of
the right shape, values distinct from the `None` beside them. Where a theorem
needs more, its own `ASSUME` says so, and the table does.

| Module | Theorems | Assuming |
|---|---|---|
| `AuditTrailProofs` | `TypeCorrect`, `MemoryIsValid`, and of the runs' properties `EvidenceIsWhole`, `LatencyIsReproducible`, `CitesOwnEvidence`, `ScoreIsEarned`, `ConfirmedIsReal`, `NeverAboutOlder`, `SendsOnlySafeRequests`, `TrailOnlyGrows` | any processes |
| | `OneClaimPerIncident` | one process |
| `MeasurementProofs` | `TypeCorrect`, `MeasuresItsOwn`, `VerdictIsTrue`, `ExperimentsAreBounded` | |
| `SandboxProofs` | `TypeCorrect`, `NothingIsLeftBehind`, `RunsTheCommit`, `SandboxesAreBounded` | |
| `PipelineProofs` | `TypeCorrect`, `GreenMeansTold`, `NoOldNews`, `AnalysedWasChecked`, `RunsAreBounded` | `MaxLag <= Window`, in `PipelineAssumption` |
| `TTLCacheProofs` | `TypeCorrect`, `SingleFlight`, `NobodyIsStranded`, `HitsAreFresh`, the refinement `SharesLoads` | |
| `RollupRefreshProofs` | `NeverOverstates`, `RefreshesAreBounded` | one process |
| | `LagIsReachable`, `CompletedRefreshIsUpToDate` | one process, `MaxLate <= Lookback` |
| `StreamConsumerProofs` | `TypeCorrect`, `WindowsAreExact`, `FullWindowsRecover`, `NewestLast`, `FinalVerdictIsTold`, `AtMostOneIsReplayed`, `OffsetOnlyAdvances`, the refinement `DeliversInOrder` | |
| | `NothingIsSkipped` | `FromBeginning` |
| `CandidateLoopProofs` | `TypeCorrect`, `CitesItsOwnIncident`, `CommandsAreBounded`, `RestoredBeatsTheRegression` | any shells |
| | `CertifiedUnlessBroken`, `EvidenceIsSound`, `PublishedUnlessInterrupted`, `JudgedByTheCertified`, `NothingRejectedIsKept` | one shell |

The assumptions on the number of processes are the ones without which TLC finds
the property violated, or, for the loops, the ones under which a file on disk is
the one the running command wrote.

### The audit trail

None of the invariants is inductive alone: a commit writes what
the command remembers, so it preserves the tables only if what was remembered
is still true, and that in turn depends on what other commands may do to the
tables. The inductive invariant is `IInv`, the conjunction of the invariants
above and

- `JobShape`: which local variables are set at which step;
- `TicksAreHandedOut`: an incident that exists, or is being opened, has an
  instant below the next one, so a new one is free and is the latest;
- `CapturesAreFlagged`: a captured row says whether its method is safe.

The core is `RememberedRowsStayValid`. It is preserved because incidents, facts
and captures are only ever added, with instants of their own, and because
`supersede` keeps the row and the incident of a hypothesis. `ScoreIsEarned` is
delicate at one place: `supersede` writes only the attributes that changed since
its SELECT, so a row rewritten in between keeps another command's score with
this one's citations; it survives because citations come from facts, all
commands derive them from the same facts of the same incident, and facts never
change. There is one lemma per group of actions, and the theorems combine them.

`OneClaimPerIncident` for one process adds that whatever `SelectExisting` found
is still all there is when `CommitInvestigation` writes.

### Measurements

`TypeOK` is inductive. `Placed` carries the half of `MeasuresItsOwn` that needs
no premise: a span is in one place, of a request already sent, and in a sandbox of
its own a replay meets no operation but its own. For the other half, three facts
are carried along while nothing has troubled the experiment (`Untroubled`): from
the reset to the measurement the operations of the requests sent are in the
table or on their way, and no others are (`Whereabouts`); while the count
settles, either nothing of the replay's own is on its way, or the polls that
found the count unchanged are no more than the seconds since the last arrival,
and a count of 0 that a failing command feigned repeats less often than commands
failed (`Quiet`); and the readings so far are right (`Accurate`). What closes the
argument is the definition of a pause: when as many polls as settle the count
found it unchanged and an operation is still out, it has been away for `Settle`
seconds after the roots, and that is `paused`. No bound on a pause is assumed.

`VerdictIsTrue` adds the arithmetic. An accurate reading is a set of pairs of a
request and an operation, so its quotient is the work of one request: the set has
`Repeat * work` members (`OperationsCount`, by a bijection with a product), and as
many requests as were sent, unless the work is 0 and there is nothing to divide
by (`RequestsCount`, `ReadingIsRate`). Comparing two quotients crosswise compares
the works (`RatesCompare`), so each of the three judgements is what it would be
of the works themselves (`JudgementOfRates`). For the half about a bad build that
was counted short, a reading that is a subset of the right one bounds its
quotient from above (`ReadingIsBounded`), and a differential that is amplified by
the smaller one is amplified by the work itself (`MissingIsHarmless`).

### Sandboxes

A run's number is above those of all runs before it, so its resources are its
own (`Numbered`). `Left` says of each resource at which steps its run may be,
which makes `NothingIsLeftBehind` inductive: every exit of a step with resources
leads to a step that removes them. `Made` says that for an undisputed commit the
only partial worktree is the one its own process is waiting for, and that an
image is as whole as the tree it was built from.

### The pipeline

Incidents are in the order of their ticks; what a run opened, and what its branch
read, are no older than the run's beginning or the window (`RunIsSane`). With
`MaxLag <= Window` an incident the run opened itself is still recent when the
branch looks, whichever try opened it. `list_recent(limit=5)` costs nothing: the
newest incident is always among the five, and one recent incident is enough.
`GateGuards` rests on the lemma that no combination of results accepts unfit data.

### The cache

`IInv` relates the three places in which the code keeps a load: the tasks that
load, `_inflight`, and the futures. A key is in flight when and because one task
loads it; a task that waits, waits for a future of its key that is pending or
resolved; a pending future is that of a task that is loading (`Loads`, `InFlight`,
`Futures`, `Waits`), and what is stored is the answer of some load (`Stores`).
From it `SingleFlight` and `NobodyIsStranded` follow, and each step of the cache
maps to a step of `SharedLoad` or to a stutter. `Lasts` bounds the age of an
entry for `HitsAreFresh`.

### The rollups

One process refreshes, and INSERTs may outlive its attempts. The invariant is
`Sound`. `Known` says that nothing is counted or kept of a day that has not come;
`Local`, that the day the process has just dropped is empty, unless an INSERT that
it overtook has ended since. `Inserting` has the argument: an INSERT of the
present attempt is the one its process waits for, alone; one that was left behind
belongs to a table whose days the process has not listed yet, or to a day that it
overtook (`Listed`); and on a table, those that were not overtaken are one at
most, over a day that is empty (`LoneInsert`). So what an INSERT adds is all the
day has.

`Reachable` is the strengthening for the other two theorems. No loaded day, and no
day an INSERT is loading, is more than the lookback ahead of one that lags
(`Lags`, `Reach`); the refresh has left out no day that its own would put out of
reach (`Past`); it drops none that is out of reach already, unless `--full`
rebuilds them all (`Window`); and a part that is already out of date is added to a
day within reach (`Recent`). Days are reloaded oldest first; that order is what
`Past` and `Window` rest on. `Rebuilt` says what the refresh owes to the spans
there were when it began: the raw table still has them, on each day that has not
begun to expire (`Retained`); its INSERTs count them; and every day of a table
that it has listed, but those it has yet to load, has them.

### The consumer

`Places` bounds the counters: the position lies between the start of the process
and the end of the topic, no more spans were seen than messages read, and the
offset is one of the topic. `Replays`, for a group that reads from the beginning,
adds that everything before the committed offset and before the position of a
running consumer was folded: `NothingIsSkipped`.

For a group that joins wherever it may, `Cursor` is the invariant. What was ever
folded lies below the offset, or is the one message at it; a running consumer is
at the offset, or one ahead of it between a fold and its commit, and nothing
further was folded. `AtMostOneIsReplayed` and `OffsetOnlyAdvances` follow. With
`Ready` (what is about to be committed was folded), each step of a consumer maps
to a step of `AtLeastOnce` or to a stutter (`GroupStep`): that is the refinement,
for any number of stops.

A deque with `maxlen` keeps the last ones: appending the next offset to a sequence
that lists the last n members of a set lists the last n members of the set with
that offset (`KeepLast`, about `AreLast`). What has been read grows by the folded
offset in exactly the window that takes it, so `WindowsAreExact` is inductive
beside `Places`. `last_seen` is one more than the last offset counted of its
version (`SeenIsLast`); two versions never have the same, because an offset is of
one version. The newest of a finite set of naturals exists because the order is
well-founded (`LeastOf`), and then the two versions that `Compare` takes are the
two with the largest last offsets: `NewestLast`.

`FinalVerdictIsTold` needs `FinalStep` alone: the one step that ends the loop
tells what the windows give, and no step after it touches them.

`FullWindowsRecover` compares a consumer with one that never stopped. A full
window lists the last `max_samples` of what this process has read, and what the
other has read besides is older than anything of that (`ReadIsRecent`), so it
would be the other's window too (`LastOfMore`): what a restart costs is the time
until the windows fill.

### The loops

`Typed` has, beside `TypeOK`, the shape of each command's local variables by
step and that a row's examination is no older than its incident. For the
citation, the incident `pr` read last is the one it cites (`Cited`), with any
number of shells. The other theorems are of one shell, and their invariant is
`Alone`: the file on disk is the draft being examined, a benchmark has put back
the test it found before it proposes a patch, and a rejected patch is gone
(`Undisturbed`); a test that passed its gate discriminates, unless a sandbox
failed under it (`Certified`); a row vouches for a patch that stays in scope,
keeps the responses and, unless a replay counted short, restores the work
(`Validated`); no row is of an incident later than the running command's
(`Latest`); what is published is vouched for, unless a loop was interrupted
(`Published`). A further fault takes nothing from a patch that was sound but its
work (`StaysSound`), so what was vouched for stays so.

`RestoredBeatsTheRegression`: for every baseline, regression and patched build,
when the evidence could certify a test on a threshold, a patched build whose work
`validate` accepts as restored does strictly less work than the regression. The
two bounds come from different files and formulas (a test allows twice the
baseline, or one operation above the baseline rounded up; a validation half as
much again, or one operation more), and the theorem compares them. On a route
with a page size it does not follow: where 1 operation became 2, a patched build
with 2 counts as restored, so the certified test alone stands in the way.

### What ends

The provers have no ENABLED, so that a command *does* end stays with TLC. What
can be proved is that it cannot go on for ever: for each component that runs a
command, a number of steps is left, it is bounded by the constants, it is 0
exactly when nothing runs, no step of anything else makes it grow, and each step
of the command makes it smaller. With the fairness above, what TLC adds is that a
step can always be taken.

- `ExperimentsAreBounded`: two replays of three waits, each of at most its
  deadline's polls, whatever is lost, late or failing (`StepsLeft`, `OneReplay`).
- `SandboxesAreBounded`: 15 steps. `ensure_worktree` is asked at most twice, for
  the image and for the sandbox; its wait for git is over when git is, and a
  neighbour's git never is what it waits for.
- `RunsAreBounded`: five tasks of one try and the retries each; no task is come
  back to, and nothing outside a run gives it a try.
- `CommandsAreBounded`: an attempt has five steps at most (`Stage`), a loop its
  attempts, and a benchmark a loop for each of its runs (`Round`). It holds for
  any number of shells, whatever they do to each other's files: no answer of an
  examiner sends a loop back without costing an attempt.
- `RefreshesAreBounded`: three steps per day and two per table, counting the
  refresh's own. The days of a table are listed once, so neither spans that keep
  arriving or expire nor an INSERT left behind prolong a refresh.

### Left to TLC

Every invariant, every action property and both refinements that a passing run
checks are stated by a theorem. What is left is liveness (`EveryExperimentEnds`,
`StacksGoDown`, `EveryHourIsRun`, `EveryCommandEnds`, `EveryCallerReturns`,
`AgreesAgain`, `KeepsUp`), for which the prover has no ENABLED. The statistics of
the detector are not modelled, so nothing is proved of them.

## 5. Not modelled

- The agent of `nl2sql`: one bounded sequential loop over a client that writes
  nothing. It ends at the first candidate its guards and EXPLAIN accept, or after
  its last attempt; what decides is parsing of SQL text, which a model would have
  to assume, and every property of the rest would hold by its shape.
- In the loops: the seed, which `certify` does not pass on (`cli.py`, 695) while
  `validate` measures with its own; a proposer that raises `PatchRejected` for a
  file the causing commit added, which is a generation fault of the model. A
  good build that counts short only lowers the ceiling of restored work, so the
  model has the fault for the patched one.
- The code map, diffs, prompts, templates, reports: text.
- `detector/stats.py`: floating-point statistics.
- `warehouse compare` and the catalog's queries over the rollups: they change
  nothing. A query between a DROP and its INSERT finds a day empty; the airflow
  document says so.
- Ports, seeds, compose's order of services and the contents of an image.
- Schema creation (`ensure_database`, `init_schema`): before the first command.
- The demo services and load scripts: the system under test.

## 6. Plan

Done, most important first: the audit trail, measurements, sandboxes, the
pipeline, the loops, the cache and the consumer with their refinements, the
rollups, proofs of every safety property the runs check, and bounds on what each
command does. What is left, in this order:

1. An abstract "publish only what passed" specification that `CandidateLoop`
   implements when nothing is interrupted, with the refinement proved.
2. The rollups' readers beside the refresh, to bound for how long a query may find
   a day empty.
