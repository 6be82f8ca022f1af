---------------------------- MODULE CandidateLoop ----------------------------
(***************************************************************************)
(* The loops that keep a candidate only if an examiner accepts it          *)
(* (testgen/, patcher/, evaluation/): `certify` writes a regression test   *)
(* and gates it at two commits, `fix` writes a patch and validates it,     *)
(* `evaluate` runs both loops as a benchmark, and `pr` publishes.          *)
(*                                                                         *)
(* They share two files: the test of the route, whose name holds neither   *)
(* incident nor commit, and .aftermerge/candidate.patch. Incidents are of  *)
(* one service and route, numbered as they were detected; incident i is    *)
(* the regression from its good commit to its bad one. A worker is a shell *)
(* that runs one command at a time.                                        *)
(*                                                                         *)
(* What a build does in a sandbox is a constant of the candidate: the exit *)
(* code of a test at either commit of its incident, the database work and  *)
(* the response of a patched build. Run against another incident's commits *)
(* a candidate may do anything. Work is counted in halves of an operation, *)
(* since WORK_TOLERANCE is 1.5.                                            *)
(***************************************************************************)
EXTENDS Naturals, FiniteSets

CONSTANTS
    Workers,        \* shells that run commands
    MaxIncidents,   \* bound on the incidents detected
    Spans,          \* [1..MaxIncidents -> [good, bad, sized]]: the evidence
    Outcomes,       \* [bad, good]: exit codes of pytest for a test at each commit
    Repairs,        \* [strays, work, same]: what a proposed patch is like
    MaxAttempts,    \* --max-attempts
    MaxRuns,        \* (model, task) pairs of a benchmark
    Faults,         \* the kinds of fault that happen, at most once each
    MaxFaults,      \* bound on the faults
    Nothing         \* no file, no row, no branch

Incidents == 1..MaxIncidents

\* 0 passed, 1 failed, 2 neither: pytest's 2 to 5, and the commands' "could not run".
Exits == 0..2

\* A process killed, an examiner that exceeds its timeout, a sandbox that fails
\* under a test, a generator or proposer that raises, a replay that counts less than
\* the build did.
AllFaults == {"kill", "expiry", "sandbox", "generation", "short"}

ASSUME CandidateAssumption ==
    /\ MaxIncidents \in Nat /\ MaxAttempts \in Nat \ {0} /\ MaxRuns \in Nat
    /\ Faults \subseteq AllFaults /\ MaxFaults \in Nat
    /\ Spans \in [Incidents -> [good : Nat, bad : Nat, sized : BOOLEAN]]
    /\ Outcomes \subseteq [bad : Exits, good : Exits]
    /\ Repairs \subseteq [strays : BOOLEAN, work : Nat, same : BOOLEAN]

\* A generated test, and a patch made against the bad commit of an incident.
TestCandidate == [incident : Incidents, exits : Outcomes]
Patch == [incident : Incidents, repair : Repairs]

\* A verification of method patch_validation: the patch the proposer made, and the
\* incident whose commits validate read.
Verification == [patch : Patch, examined : Incidents]

VARIABLES
    latest,     \* incidents detected; the last is the one every command reads
    captured,   \* incidents with a replayable captured request
    testFile,   \* tests/regression/test_<service>_<route>_regression.py
    patchFile,  \* .aftermerge/candidate.patch
    gated,      \* verifications of method regression_test_gate
    evidence,   \* the newest verification of each incident's hypothesis
    branches,   \* aftermerge/fix-<bad commit> of each incident
    jobs,       \* the command of each worker
    faults      \* faults so far

vars == <<latest, captured, testFile, patchFile, gated, evidence, branches, jobs, faults>>
files == <<testFile, patchFile>>
trail == <<gated, evidence, branches>>

\* The local variables of a command. `limit` is 1 for a deterministic generator
\* or proposer; `found` is what a benchmark read from the two files when it began.
Idle == [step |-> "idle"]
Job == [step : {"write_test", "gate_bad", "gate_good", "judge_test", "record_test",
                "write_patch", "validate", "checks", "judge_patch", "record_patch",
                "next_run", "branch"},
        cmd : {"certify", "fix", "evaluate", "pr"}, incident : Incidents,
        limit : 1..MaxAttempts, tries : 0..MaxAttempts - 1, exit : Exits,
        draft : TestCandidate \cup Patch \cup {Nothing},
        examined : Incidents \cup {Nothing}, examiner : TestCandidate \cup {Nothing},
        cited : Verification \cup {Nothing}, runs : 0..MaxRuns,
        found : [test : TestCandidate \cup {Nothing}, patch : Patch \cup {Nothing}]]

TypeOK ==
    /\ latest \in 0..MaxIncidents
    /\ captured \subseteq 1..latest
    /\ testFile \in TestCandidate \cup {Nothing}
    /\ patchFile \in Patch \cup {Nothing}
    /\ gated \subseteq [incident : Incidents, test : TestCandidate]
    /\ evidence \in [Incidents -> Verification \cup {Nothing}]
    /\ branches \in [Incidents -> [patch : Patch, cited : Verification] \cup {Nothing}]
    /\ jobs \in [Workers -> Job \cup {Idle}]
    /\ faults \subseteq Faults /\ Cardinality(faults) <= MaxFaults

Init ==
    /\ latest = 0
    /\ captured = {}
    /\ testFile = Nothing
    /\ patchFile = Nothing
    /\ gated = {}
    /\ evidence = [i \in Incidents |-> Nothing]
    /\ branches = [i \in Incidents |-> Nothing]
    /\ jobs = [w \in Workers |-> Idle]
    /\ faults = {}

-----------------------------------------------------------------------------
(* The thresholds of a test and of a validation.                           *)

Larger(a, b) == IF a >= b THEN a ELSE b

\* The most operations a test lets a build do: at least one above the baseline,
\* and twice it.
Threshold(spans) == Larger((spans.good + 1) \div 2 + 1, spans.good)

\* Could a test built from this evidence separate the two builds? A test on a
\* page size needs the work to have grown, one on a threshold a value between.
Discriminates(spans) ==
    IF spans.sized THEN 2 * spans.bad > 3 * spans.good
                   ELSE /\ spans.good <= 2 * Threshold(spans)
                        /\ 2 * Threshold(spans) < spans.bad

\* A patched build may do half as much again as the good one, or one operation more.
WorkRestored(good, work) == 2 * work <= Larger(3 * good, 2 * good + 4)

\* Neither outside the files the causing commit touched, nor the examining test.
InScope(repair) == ~repair.strays

\* The patched build answers what the good build answers.
Equivalent(repair) == repair.same

-----------------------------------------------------------------------------
(* The environment.                                                        *)

Detect ==
    /\ latest < MaxIncidents
    /\ latest' = latest + 1
    /\ UNCHANGED <<captured, files, trail, jobs, faults>>

Capture ==
    /\ latest > 0 /\ latest \notin captured
    /\ captured' = captured \cup {latest}
    /\ UNCHANGED <<latest, files, trail, jobs, faults>>

-----------------------------------------------------------------------------
(* Commands.                                                               *)

Become(w, job) == jobs' = [jobs EXCEPT ![w] = job]
At(w, step) == jobs[w].step = step

\* What every command but pr asks of the trail: exit 2 without it.
Replayable == latest \in captured

Command(cmd, step, limit) ==
    [step |-> step, cmd |-> cmd, incident |-> latest, limit |-> limit,
     tries |-> 0, exit |-> 1, draft |-> Nothing, examined |-> Nothing, examiner |-> Nothing,
     cited |-> Nothing, runs |-> IF cmd = "evaluate" THEN MaxRuns ELSE 0,
     found |-> IF cmd = "evaluate" THEN [test |-> testFile, patch |-> patchFile]
                                   ELSE [test |-> Nothing, patch |-> Nothing]]

\* A benchmark makes one attempt a run, its default.
Begin(w) ==
    /\ At(w, "idle") /\ Replayable
    /\ \/ /\ Discriminates(Spans[latest])
          /\ \E limit \in {1, MaxAttempts} : Become(w, Command("certify", "write_test", limit))
       \/ \E limit \in {1, MaxAttempts} : Become(w, Command("fix", "write_patch", limit))
       \/ Become(w, Command("evaluate", "next_run", 1))
    /\ UNCHANGED <<latest, captured, files, trail, faults>>

\* `testgen` writes a test and leaves gating it to its user.
Testgen(w) ==
    /\ At(w, "idle") /\ Replayable
    /\ Discriminates(Spans[latest])
    /\ \E exits \in Outcomes : testFile' = [incident |-> latest, exits |-> exits]
    /\ UNCHANGED <<latest, captured, patchFile, trail, jobs, faults>>

\* The variables of one attempt, as the next one finds them.
Afresh(job, step) ==
    [job EXCEPT !.step = step, !.exit = 1, !.examined = Nothing, !.examiner = Nothing]

\* The loop of a command is over: a benchmark goes on to its next run.
LoopEnds(w) ==
    Become(w, IF jobs[w].cmd = "evaluate"
              THEN [Afresh(jobs[w], "next_run") EXCEPT !.draft = Nothing, !.tries = 0]
              ELSE Idle)

\* Mutated: attempts are not counted.
RetryForever(w, step) == Become(w, Afresh(jobs[w], step))

\* An attempt was rejected: once more from `step`, unless it was the last.
Retry(w, step) ==
    IF jobs[w].tries + 1 < jobs[w].limit
    THEN Become(w, [Afresh(jobs[w], step) EXCEPT !.tries = @ + 1])
    ELSE LoopEnds(w)

-----------------------------------------------------------------------------
(* certify: write a test, gate it, keep it or delete it.                   *)

WriteTest(w) ==
    /\ At(w, "write_test")
    /\ \E exits \in Outcomes :
          LET test == [incident |-> jobs[w].incident, exits |-> exits]
          IN  /\ testFile' = test
              /\ Become(w, [jobs[w] EXCEPT !.step = "gate_bad", !.draft = test])
    /\ UNCHANGED <<latest, captured, patchFile, trail, faults>>

\* The exit codes pytest may give for the test on disk at a commit of incident i.
\* Without a file it collects nothing.
Codes(i, side) ==
    IF testFile = Nothing THEN {2}
    ELSE IF testFile.incident = i THEN {testFile.exits[side]} ELSE Exits

\* Mutated: whatever does not pass at the bad commit is taken to detect the fault.
AnyNonZero(code) == code # 0

\* GateRun.satisfied at the bad commit: only "tests ran and failed" counts.
DetectsFault(code) == code = 1

\* A sandbox that fails raises in the fixture of the test, and pytest exits 1:
\* to the gate the test ran and failed.
Strike(fault) ==
    /\ fault \in Faults \ faults /\ Cardinality(faults) < MaxFaults
    /\ faults' = faults \cup {fault}

\* pytest exits with `code` for the test on disk at one side of the gate.
Pytest(w, side, code) ==
    \/ code \in Codes(jobs[w].incident, side) /\ UNCHANGED faults
    \/ testFile # Nothing /\ code = 1 /\ Strike("sandbox")

\* The bad commit first; the good one is not run for a test that already lost.
GateBad(w) ==
    /\ At(w, "gate_bad")
    /\ \E code \in Exits :
          /\ Pytest(w, "bad", code)
          /\ Become(w, IF DetectsFault(code)
                       THEN [jobs[w] EXCEPT !.step = "gate_good"]
                       ELSE [jobs[w] EXCEPT !.step = "judge_test", !.exit = 1])
    /\ UNCHANGED <<latest, captured, files, trail>>

GateGood(w) ==
    /\ At(w, "gate_good")
    /\ \E code \in Exits :
          /\ Pytest(w, "good", code)
          /\ Become(w, [jobs[w] EXCEPT !.step = "judge_test",
                                       !.exit = IF code = 0 THEN 0 ELSE 1])
    /\ UNCHANGED <<latest, captured, files, trail>>

AcceptTest(w) ==
    /\ At(w, "judge_test") /\ jobs[w].exit = 0
    /\ IF jobs[w].cmd = "certify" THEN Become(w, [jobs[w] EXCEPT !.step = "record_test"])
                                  ELSE LoopEnds(w)
    /\ UNCHANGED <<latest, captured, files, trail, faults>>

\* Mutated: the rejected test is left where it is.
LeaveTest(w) ==
    /\ At(w, "judge_test") /\ jobs[w].exit # 0
    /\ Retry(w, "write_test")
    /\ UNCHANGED <<latest, captured, files, trail, faults>>

RejectTest(w) ==
    /\ At(w, "judge_test") /\ jobs[w].exit # 0
    /\ testFile' = Nothing
    /\ Retry(w, "write_test")
    /\ UNCHANGED <<latest, captured, patchFile, trail, faults>>

\* Without a hypothesis there is nothing to record the gate on.
RecordTest(w) ==
    /\ At(w, "record_test")
    /\ \/ gated' = gated \cup {[incident |-> jobs[w].incident, test |-> jobs[w].draft]}
       \/ UNCHANGED gated
    /\ Become(w, Idle)
    /\ UNCHANGED <<latest, captured, files, evidence, branches, faults>>

-----------------------------------------------------------------------------
(* fix: write a patch, have `validate` examine it, keep it or delete it.   *)

WritePatch(w) ==
    /\ At(w, "write_patch")
    /\ \E repair \in Repairs :
          LET patch == [incident |-> jobs[w].incident, repair |-> repair]
          IN  /\ patchFile' = patch
              /\ Become(w, [jobs[w] EXCEPT !.step = "validate", !.draft = patch])
    /\ UNCHANGED <<latest, captured, testFile, trail, faults>>

\* to_patch() refuses: no diff, a path outside the repository. The attempt failed,
\* and the file keeps what it held.
Unusable(w) ==
    /\ At(w, "write_patch")
    /\ Retry(w, "write_patch")
    /\ UNCHANGED <<latest, captured, files, trail, faults>>

\* `validate`, a process of its own, reads the latest incident by itself, and asks
\* of the test only that there is one. It exits 2 when it cannot run.
Validate(w) ==
    /\ At(w, "validate")
    /\ Become(w, IF Replayable /\ testFile # Nothing
                 THEN [jobs[w] EXCEPT !.step = "checks", !.examined = latest,
                                      !.examiner = testFile]
                 ELSE [jobs[w] EXCEPT !.step = "judge_patch", !.exit = 2])
    /\ UNCHANGED <<latest, captured, files, trail, faults>>

\* What the patch on disk does when applied to the bad commit of incident i: its
\* own, or any repair when it was made for another one.
Applied(i) == IF patchFile.incident = i THEN {patchFile.repair} ELSE Repairs

\* What a replay may count of the patched build's work. Requests that fail, time out
\* half way or lose their spans count for less, and validate does not ask whether any
\* did. Of the good build less only lowers the ceiling.
Readings(work, short) == IF short THEN 0..work ELSE {work}

\* Mutated: one check that passes is enough.
AnyPassed(i, repair, reading, test, suite) ==
    \/ test = "passed" \/ suite = "passed"
    \/ WorkRestored(Spans[i].good, reading)
    \/ Equivalent(repair)

\* ValidationResult.passed: regression test, suite (when there is one), work and
\* response. Two of them are always run, so some check passed when none failed.
AllPassed(i, repair, reading, test, suite) ==
    /\ test = "passed" /\ suite # "failed"
    /\ WorkRestored(Spans[i].good, reading)
    /\ Equivalent(repair)

\* The guards, the patched commit, and the checks on it.
Passes(i, short) ==
    /\ patchFile # Nothing
    /\ \E repair \in Applied(i), test \in {"passed", "failed"},
          suite \in {"passed", "failed", "skipped"} :
          /\ InScope(repair)
          /\ \E reading \in Readings(repair.work, short) :
                AllPassed(i, repair, reading, test, suite)

\* A missing file, a patch that does not apply and a sandbox that fails end `validate`
\* with exit 1 as a failed check does.
Checks(w) ==
    /\ At(w, "checks")
    /\ \E exit \in {0, 1}, short \in BOOLEAN :
          /\ IF short THEN Strike("short") ELSE UNCHANGED faults
          /\ exit = 0 => Passes(jobs[w].examined, short)
          /\ Become(w, [jobs[w] EXCEPT !.step = "judge_patch", !.exit = exit])
    /\ UNCHANGED <<latest, captured, files, trail>>

AcceptPatch(w) ==
    /\ At(w, "judge_patch") /\ jobs[w].exit = 0
    /\ IF jobs[w].cmd = "fix" THEN Become(w, [jobs[w] EXCEPT !.step = "record_patch"])
                              ELSE LoopEnds(w)
    /\ UNCHANGED <<latest, captured, files, trail, faults>>

\* Mutated: the rejected patch is left where it is.
LeavePatch(w) ==
    /\ At(w, "judge_patch") /\ jobs[w].exit # 0
    /\ Retry(w, "write_patch")
    /\ UNCHANGED <<latest, captured, files, trail, faults>>

RejectPatch(w) ==
    /\ At(w, "judge_patch") /\ jobs[w].exit # 0
    /\ patchFile' = Nothing
    /\ Retry(w, "write_patch")
    /\ UNCHANGED <<latest, captured, testFile, trail, faults>>

RecordPatch(w) ==
    /\ At(w, "record_patch")
    /\ \/ evidence' = [evidence EXCEPT ![jobs[w].incident] =
                           [patch |-> jobs[w].draft, examined |-> jobs[w].examined]]
       \/ UNCHANGED evidence
    /\ Become(w, Idle)
    /\ UNCHANGED <<latest, captured, files, gated, branches, faults>>

-----------------------------------------------------------------------------
(* evaluate: both loops once per model, and the files put back.            *)

BenchmarkTest(w) ==
    /\ At(w, "next_run") /\ jobs[w].runs > 0
    /\ Become(w, [jobs[w] EXCEPT !.step = "write_test", !.runs = @ - 1])
    /\ UNCHANGED <<latest, captured, files, trail, faults>>

\* Mutated: the patch task is judged by the test the last run left.
BenchmarkOnLeftover(w) ==
    /\ At(w, "next_run") /\ jobs[w].runs > 0
    /\ Become(w, [jobs[w] EXCEPT !.step = "write_patch", !.runs = @ - 1])
    /\ UNCHANGED <<latest, captured, files, trail, faults>>

\* The certified test is put back before a patch is judged by it.
BenchmarkPatch(w) ==
    /\ At(w, "next_run") /\ jobs[w].runs > 0
    /\ testFile' = IF jobs[w].found.test # Nothing THEN jobs[w].found.test ELSE testFile
    /\ Become(w, [jobs[w] EXCEPT !.step = "write_patch", !.runs = @ - 1])
    /\ UNCHANGED <<latest, captured, patchFile, trail, faults>>

\* Both originals are written back; a patch that was not there is removed, a test
\* that was not there is left.
Restore(w) ==
    /\ At(w, "next_run") /\ jobs[w].runs = 0
    /\ testFile' = IF jobs[w].found.test # Nothing THEN jobs[w].found.test ELSE testFile
    /\ patchFile' = jobs[w].found.patch
    /\ Become(w, Idle)
    /\ UNCHANGED <<latest, captured, trail, faults>>

-----------------------------------------------------------------------------
(* pr: publish the patch on disk with the evidence of the latest incident. *)

\* Mutated: evidence of any incident will do.
AnyEvidence(i) == {evidence[j] : j \in Incidents} \ {Nothing}

\* The newest patch_validation of the incident's hypothesis.
Evidence(i) == {evidence[i]} \ {Nothing}

ReadEvidence(w) ==
    /\ At(w, "idle") /\ latest > 0 /\ patchFile # Nothing
    /\ \E cited \in Evidence(latest) :
          Become(w, [Command("pr", "branch", 1) EXCEPT
                         !.draft = patchFile, !.cited = cited])
    /\ UNCHANGED <<latest, captured, files, trail, faults>>

\* create_branch() refuses a branch that exists; a patch that does not apply to
\* the bad commit ends the command.
Branch(w) ==
    /\ At(w, "branch")
    /\ LET i == jobs[w].incident IN
       \/ /\ branches[i] = Nothing
          /\ branches' = [branches EXCEPT ![i] = [patch |-> jobs[w].draft, cited |-> jobs[w].cited]]
       \/ /\ branches[i] # Nothing \/ jobs[w].draft.incident # i
          /\ UNCHANGED branches
    /\ Become(w, Idle)
    /\ UNCHANGED <<latest, captured, files, gated, evidence, faults>>

-----------------------------------------------------------------------------
(* Faults.                                                                 *)

\* generate() or propose() raises: no loop catches it, a benchmark's run does.
GenerationFails(w) ==
    /\ jobs[w].step \in {"write_test", "write_patch"}
    /\ Strike("generation")
    /\ LoopEnds(w)
    /\ UNCHANGED <<latest, captured, files, trail>>

\* subprocess.run() kills the examiner and raises TimeoutExpired: no loop catches
\* it, a benchmark's run does. The candidate stays on disk.
Expire(w) ==
    /\ jobs[w].step \in {"gate_bad", "gate_good", "validate", "checks"}
    /\ Strike("expiry")
    /\ LoopEnds(w)
    /\ UNCHANGED <<latest, captured, files, trail>>

Kill(w) ==
    /\ ~At(w, "idle")
    /\ Strike("kill")
    /\ Become(w, Idle)
    /\ UNCHANGED <<latest, captured, files, trail>>

-----------------------------------------------------------------------------
(* The specification.                                                      *)

Certify(w) == WriteTest(w) \/ GateBad(w) \/ GateGood(w) \/ AcceptTest(w)
                  \/ RejectTest(w) \/ RecordTest(w)

Fix(w) == WritePatch(w) \/ Unusable(w) \/ Validate(w) \/ Checks(w) \/ AcceptPatch(w)
              \/ RejectPatch(w) \/ RecordPatch(w)

Evaluate(w) == BenchmarkTest(w) \/ BenchmarkPatch(w) \/ Restore(w)

Step(w) == Certify(w) \/ Fix(w) \/ Evaluate(w) \/ Branch(w)

Fault(w) == GenerationFails(w) \/ Expire(w) \/ Kill(w)

Next ==
    \/ Detect
    \/ Capture
    \/ \E w \in Workers : Begin(w) \/ Testgen(w) \/ ReadEvidence(w) \/ Step(w) \/ Fault(w)

Spec == Init /\ [][Next]_vars

\* A command that runs goes on: its examiners have timeouts.
FairSpec == Spec /\ \A w \in Workers : WF_vars(Step(w))

-----------------------------------------------------------------------------
(* Properties.                                                             *)

\* The test fails at the bad commit of the incident, by an assertion, and passes
\* at the good one.
Discriminating(test, i) == test.incident = i /\ test.exits = [bad |-> 1, good |-> 0]

\* The patch stays within the causing diff and answers what the good build answers.
\* Unless a replay counted short, it also does the good build's work, within the
\* tolerance, and less than the bad build's where the evidence bounds that.
SoundDespite(fs, patch, i) ==
    /\ patch.incident = i
    /\ InScope(patch.repair) /\ Equivalent(patch.repair)
    /\ "short" \notin fs =>
          /\ WorkRestored(Spans[i].good, patch.repair.work)
          /\ Discriminates(Spans[i]) /\ ~Spans[i].sized => patch.repair.work < Spans[i].bad

\* A test recorded as certified discriminates between the two commits of its
\* incident: what gate.py promises of exit code 1.
CertifiedDiscriminates == \A row \in gated : Discriminating(row.test, row.incident)

\* It does as long as no sandbox failed under it: write, two runs in two processes,
\* judge and record never certify a test that broke, or passes at both commits.
CertifiedUnlessBroken == "sandbox" \notin faults => CertifiedDiscriminates

\* A recorded validation of a patch at its own incident means that the patch is
\* sound there, whatever test examined it and whatever was killed or timed out; of its
\* work it means no more than what the replays counted.
EvidenceIsSound ==
    \A i \in Incidents :
       evidence[i] # Nothing =>
          LET row == evidence[i]
          IN  row.patch.incident = row.examined => SoundDespite(faults, row.patch, row.examined)

\* The evidence a pull request cites was measured at the very commits of the
\* incident it is for, though fix reads the latest incident when it begins,
\* validate again for each attempt, and pr once more.
CitesItsOwnIncident ==
    \A i \in Incidents : branches[i] # Nothing => branches[i].cited.examined = i

\* What is published is sound: pr takes the file at candidate.patch for "a
\* validated fix", and create_branch says its branch holds the tree that was.
PublishedIsSound ==
    \A i \in Incidents : branches[i] # Nothing => SoundDespite({}, branches[i].patch, i)

\* It is, as far as the replays could tell, when no process was killed and no examiner
\* timed out, with benchmarks, rejected and unusable proposals and newer incidents in
\* between.
PublishedUnlessInterrupted ==
    faults \cap {"kill", "expiry"} = {} =>
       \A i \in Incidents : branches[i] # Nothing => SoundDespite(faults, branches[i].patch, i)

\* The test that validates a patch is one that failed on the bad commit and passed
\* on the good one.
ExaminerDiscriminates ==
    \A w \in Workers :
       At(w, "record_patch") => Discriminating(jobs[w].examiner, jobs[w].examined)

\* A benchmark that began with a certified test judges every patch by that test,
\* never by one that a model left behind.
JudgedByTheCertified ==
    \A w \in Workers :
       At(w, "checks") /\ jobs[w].cmd = "evaluate" /\ jobs[w].found.test # Nothing =>
          jobs[w].examiner = jobs[w].found.test

\* A certify or fix that ends of itself leaves the candidate its examiner passed,
\* or none; a fix that never wrote one leaves the file it found.
KeepsWhatPassed ==
    \A w \in Workers :
       ~At(w, "idle") /\ jobs'[w] = Idle /\ faults' = faults =>
          LET job == jobs[w]
              Kept(file) == file = Nothing \/ (job.exit = 0 /\ file = job.draft)
          IN  /\ job.cmd = "certify" => Kept(testFile')
              /\ job.cmd = "fix" => Kept(patchFile') \/ (job.draft = Nothing /\ patchFile' = patchFile)

NothingRejectedIsKept == [][KeepsWhatPassed]_vars

\* A benchmark leaves the two files as it found them.
BenchmarkLeavesNoTrace ==
    [][\A w \in Workers :
          At(w, "next_run") /\ jobs'[w] = Idle /\ faults' = faults =>
             [test |-> testFile', patch |-> patchFile'] = jobs[w].found]_vars

\* Every command comes to its end: attempts are bounded, and so are examiners.
EveryCommandEnds == \A w \in Workers : ~At(w, "idle") ~> At(w, "idle")
=============================================================================
