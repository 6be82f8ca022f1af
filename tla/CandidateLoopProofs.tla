------------------------- MODULE CandidateLoopProofs -------------------------
(***************************************************************************)
(* What the thresholds of CandidateLoop guarantee, for every evidence, and *)
(* what its loops keep, record and publish, for every candidate, when one  *)
(* shell runs them: the files are shared, and two shells take them from    *)
(* each other.                                                             *)
(***************************************************************************)
EXTENDS CandidateLoop, FiniteSetTheorems, TLAPS

\* The threshold of a generated test is at least the ceiling of a validation: the
\* baseline plus one operation, and half as much again.
LEMMA ThresholdCoversTheCeiling ==
  ASSUME NEW spans \in [good : Nat, bad : Nat, sized : BOOLEAN]
  PROVE  /\ Threshold(spans) \in Nat
         /\ 4 * Threshold(spans) >= Larger(3 * spans.good, 2 * spans.good + 4)
<1> DEFINE g == spans.good
           half == (g + 1) \div 2
<1>1. g \in Nat
  OBVIOUS
<1>2. half \in Nat /\ 2 * half >= g
  BY <1>1, SMT
<1>3. Threshold(spans) = IF half + 1 >= g THEN half + 1 ELSE g
  BY DEF Threshold, Larger
<1>4. Threshold(spans) \in Nat /\ Threshold(spans) >= half + 1 /\ Threshold(spans) >= g
  BY <1>1, <1>2, <1>3
<1> HIDE DEF half
<1> QED
  BY <1>1, <1>2, <1>4 DEF Larger

\* A patched build whose work counts as restored does strictly less work than the
\* regression, when the evidence could certify a test on a threshold. On a route
\* with a page size this does not follow, and the certified test has to see it.
THEOREM RestoredBeatsTheRegression ==
  ASSUME NEW spans \in [good : Nat, bad : Nat, sized : BOOLEAN],
         ~spans.sized, Discriminates(spans),
         NEW work \in Nat, WorkRestored(spans.good, work)
  PROVE  work < spans.bad
<1>1. 2 * Threshold(spans) < spans.bad
  BY DEF Discriminates
<1>2. 2 * work <= Larger(3 * spans.good, 2 * spans.good + 4)
  BY DEF WorkRestored
<1>3. Larger(3 * spans.good, 2 * spans.good + 4) \in Nat
  BY DEF Larger
<1> QED
  BY <1>1, <1>2, <1>3, ThresholdCoversTheCeiling

-----------------------------------------------------------------------------
(* The local variables of a command.                                       *)

TestSteps == {"gate_bad", "gate_good", "judge_test", "record_test"}
PatchSteps == {"validate", "checks", "judge_patch", "record_patch"}

StepsOf(cmd) ==
    CASE cmd = "certify"  -> {"write_test"} \cup TestSteps
      [] cmd = "fix"      -> {"write_patch"} \cup PatchSteps
      [] cmd = "evaluate" -> {"write_test", "write_patch", "next_run"} \cup
                                (TestSteps \ {"record_test"}) \cup (PatchSteps \ {"record_patch"})
      [] OTHER            -> {"branch"}

\* A patch was examined at an incident detected since its command began.
Examined(j) == j.examined \in j.incident..latest

Formed(j) ==
    /\ j.incident <= latest
    /\ j.step \in StepsOf(j.cmd)
    /\ j.step \in TestSteps => j.draft \in TestCandidate /\ j.draft.incident = j.incident
    /\ j.step \in PatchSteps => j.draft \in Patch /\ j.draft.incident = j.incident
    /\ j.step = "checks" => Examined(j)
    /\ j.step = "judge_patch" /\ j.exit = 0 => Examined(j)
    /\ j.step = "record_patch" => j.exit = 0 /\ Examined(j)
    /\ j.step = "record_test" => j.exit = 0
    /\ j.step = "branch" => j.draft \in Patch /\ j.cited \in Verification

\* A command never goes back behind what was detected when it began.
RowsAreTimely ==
    \A i \in Incidents : evidence[i] # Nothing => evidence[i].examined \in i..latest

Typed ==
    /\ TypeOK
    /\ \A w \in Workers : jobs[w] # Idle => Formed(jobs[w])
    /\ RowsAreTimely

-----------------------------------------------------------------------------
(* The worker that takes a step.                                           *)

LEMMA JobIsNotIdle ==
  ASSUME NEW j \in Job
  PROVE  j # Idle /\ j.step # "idle"
  BY DEF Job, Idle

LEMMA WorkerRuns ==
  ASSUME TypeOK, NEW w \in Workers, ~At(w, "idle")
  PROVE  jobs[w] \in Job /\ jobs[w] # Idle
<1>1. jobs[w] \in Job \cup {Idle}
  BY DEF TypeOK
<1> QED
  BY <1>1, JobIsNotIdle DEF At, Idle

LEMMA WorkerRests ==
  ASSUME TypeOK, NEW w \in Workers, At(w, "idle")
  PROVE  jobs[w] = Idle
<1>1. jobs[w] \in Job \cup {Idle}
  BY DEF TypeOK
<1> QED
  BY <1>1, JobIsNotIdle DEF At

LEMMA Turns ==
  ASSUME TypeOK, NEW w \in Workers, NEW e \in Job \cup {Idle}, Become(w, e)
  PROVE  /\ jobs' \in [Workers -> Job \cup {Idle}]
         /\ jobs'[w] = e
         /\ \A v \in Workers : v # w => jobs'[v] = jobs[v]
  BY DEF TypeOK, Become

FaultsAreBounded == faults \subseteq Faults /\ Cardinality(faults) <= MaxFaults

LEMMA FaultsAreFinite ==
  ASSUME TypeOK
  PROVE  IsFiniteSet(faults)
<1>1. IsFiniteSet({"kill"} \cup {"expiry"} \cup {"sandbox"} \cup {"generation"} \cup {"short"})
  BY FS_Singleton, FS_Union
<1>2. faults \subseteq {"kill"} \cup {"expiry"} \cup {"sandbox"} \cup {"generation"} \cup {"short"}
  BY CandidateAssumption DEF TypeOK, AllFaults
<1> QED
  BY <1>1, <1>2, FS_Subset

LEMMA Strikes ==
  ASSUME TypeOK, NEW fault, Strike(fault)
  PROVE  FaultsAreBounded' /\ faults' = faults \cup {fault}
<1>1. faults' = faults \cup {fault} /\ fault \in Faults /\ fault \notin faults
      /\ Cardinality(faults) < MaxFaults /\ faults \subseteq Faults
  BY DEF Strike, TypeOK
<1>2. Cardinality(faults') = Cardinality(faults) + 1
  BY <1>1, FaultsAreFinite, FS_AddElement
<1>3. Cardinality(faults) \in Nat
  BY FaultsAreFinite, FS_CardinalityType
<1> QED
  BY <1>1, <1>2, <1>3, CandidateAssumption DEF FaultsAreBounded

FilesAreTyped ==
    /\ testFile \in TestCandidate \cup {Nothing}
    /\ patchFile \in Patch \cup {Nothing}
    /\ gated \subseteq [incident : Incidents, test : TestCandidate]
    /\ evidence \in [Incidents -> Verification \cup {Nothing}]
    /\ branches \in [Incidents -> [patch : Patch, cited : Verification] \cup {Nothing}]

\* A worker turns to a well-formed command, or to none.
LEMMA TypedTurn ==
  ASSUME Typed, NEW w \in Workers, NEW e \in Job \cup {Idle}, Become(w, e),
         e # Idle => Formed(e),
         UNCHANGED <<latest, captured>>, FilesAreTyped', FaultsAreBounded', RowsAreTimely'
  PROVE  Typed'
<1>1. TypeOK
  BY DEF Typed
<1>2. TypeOK'
  BY <1>1, Turns DEF TypeOK, FilesAreTyped, FaultsAreBounded
<1>3. ASSUME NEW v \in Workers, jobs'[v] # Idle PROVE Formed(jobs[v])'
  <2>1. CASE v = w
    <3>1. jobs'[v] = e
      BY <1>1, <2>1, Turns
    <3> QED
      BY <1>3, <3>1 DEF Formed, Examined
  <2>2. CASE v # w
    <3>1. jobs'[v] = jobs[v]
      BY <1>1, <2>2, Turns
    <3> QED
      BY <1>3, <3>1 DEF Typed, Formed, Examined
  <2> QED
    BY <2>1, <2>2
<1> QED
  BY <1>2, <1>3 DEF Typed

\* Nothing is written but the command of the worker, and perhaps a fault.
LEMMA TypedQuietTurn ==
  ASSUME Typed, NEW w \in Workers, NEW e \in Job \cup {Idle}, Become(w, e),
         e # Idle => Formed(e), UNCHANGED <<latest, captured, files, trail>>, FaultsAreBounded'
  PROVE  Typed'
<1>1. TypeOK /\ RowsAreTimely
  BY DEF Typed
<1>2. FilesAreTyped'
  BY <1>1 DEF FilesAreTyped, TypeOK, files, trail
<1>3. RowsAreTimely'
  BY <1>1 DEF RowsAreTimely, trail
<1> QED
  BY <1>2, <1>3, TypedTurn

-----------------------------------------------------------------------------
(* One variable of a command is assigned.                                  *)

Steps == {"write_test", "gate_bad", "gate_good", "judge_test", "record_test",
          "write_patch", "validate", "checks", "judge_patch", "record_patch",
          "next_run", "branch"}

\* Command e has every variable of j but those of `changed`.
Fields == {"step", "cmd", "incident", "limit", "tries", "exit", "draft", "examined",
           "examiner", "cited", "runs", "found"}
Agrees(j, e, changed) == e \in Job /\ \A f \in Fields \ changed : e[f] = j[f]

LEMMA SetsStep ==
  ASSUME NEW j \in Job, NEW x \in Steps
  PROVE  [j EXCEPT !.step = x].step = x /\ Agrees(j, [j EXCEPT !.step = x], {"step"})
  BY DEF Job, Agrees, Fields, Steps

LEMMA SetsTries ==
  ASSUME NEW j \in Job, NEW x \in 0..MaxAttempts - 1
  PROVE  [j EXCEPT !.tries = x].tries = x /\ Agrees(j, [j EXCEPT !.tries = x], {"tries"})
  BY DEF Job, Agrees, Fields

LEMMA SetsExit ==
  ASSUME NEW j \in Job, NEW x \in Exits
  PROVE  [j EXCEPT !.exit = x].exit = x /\ Agrees(j, [j EXCEPT !.exit = x], {"exit"})
  BY DEF Job, Agrees, Fields

LEMMA SetsDraft ==
  ASSUME NEW j \in Job, NEW x \in TestCandidate \cup Patch \cup {Nothing}
  PROVE  [j EXCEPT !.draft = x].draft = x /\ Agrees(j, [j EXCEPT !.draft = x], {"draft"})
  BY DEF Job, Agrees, Fields

LEMMA SetsExamined ==
  ASSUME NEW j \in Job, NEW x \in Incidents \cup {Nothing}
  PROVE  [j EXCEPT !.examined = x].examined = x /\ Agrees(j, [j EXCEPT !.examined = x], {"examined"})
  BY DEF Job, Agrees, Fields

LEMMA SetsExaminer ==
  ASSUME NEW j \in Job, NEW x \in TestCandidate \cup {Nothing}
  PROVE  [j EXCEPT !.examiner = x].examiner = x /\ Agrees(j, [j EXCEPT !.examiner = x], {"examiner"})
  BY DEF Job, Agrees, Fields

LEMMA SetsCited ==
  ASSUME NEW j \in Job, NEW x \in Verification \cup {Nothing}
  PROVE  [j EXCEPT !.cited = x].cited = x /\ Agrees(j, [j EXCEPT !.cited = x], {"cited"})
  BY DEF Job, Agrees, Fields

LEMMA SetsRuns ==
  ASSUME NEW j \in Job, NEW x \in 0..MaxRuns
  PROVE  [j EXCEPT !.runs = x].runs = x /\ Agrees(j, [j EXCEPT !.runs = x], {"runs"})
  BY DEF Job, Agrees, Fields

LEMMA AfreshIsAJob ==
  ASSUME NEW j \in Job, NEW step \in Steps
  PROVE  LET a == Afresh(j, step)
         IN  /\ Agrees(j, a, {"step", "exit", "examined", "examiner"})
             /\ a.step = step /\ a.exit = 1
<1> DEFINE b == [j EXCEPT !.step = step]
           c == [b EXCEPT !.exit = 1]
           d == [c EXCEPT !.examined = Nothing]
           e == [d EXCEPT !.examiner = Nothing]
<1>1. b.step = step /\ Agrees(j, b, {"step"})
  BY SetsStep
<1> HIDE DEF b
<1>2. c.exit = 1 /\ Agrees(b, c, {"exit"})
  <2>1. 1 \in Exits
    BY DEF Exits
  <2> QED
    BY <1>1, <2>1, SetsExit DEF Agrees
<1> HIDE DEF c
<1>3. Agrees(c, d, {"examined"})
  BY <1>2, SetsExamined DEF Agrees
<1> HIDE DEF d
<1>4. Agrees(d, e, {"examiner"})
  BY <1>3, SetsExaminer DEF Agrees
<1>5. e = Afresh(j, step)
  BY DEF e, d, c, b, Afresh
<1> HIDE DEF e
<1> QED
  BY <1>1, <1>2, <1>3, <1>4, <1>5 DEF Agrees, Fields

LEMMA SetsStepExit ==
  ASSUME NEW j \in Job, NEW step \in Steps, NEW x \in Exits
  PROVE  LET e == [j EXCEPT !.step = step, !.exit = x]
         IN  e.step = step /\ e.exit = x /\ Agrees(j, e, {"step", "exit"})
<1> DEFINE b == [j EXCEPT !.step = step]
           e == [b EXCEPT !.exit = x]
<1>1. b.step = step /\ Agrees(j, b, {"step"})
  BY SetsStep
<1> HIDE DEF b
<1>2. e.exit = x /\ Agrees(b, e, {"exit"})
  BY <1>1, SetsExit DEF Agrees
<1>3. e = [j EXCEPT !.step = step, !.exit = x]
  BY DEF e, b
<1> HIDE DEF e
<1> QED
  BY <1>1, <1>2, <1>3 DEF Agrees, Fields

LEMMA SetsStepDraft ==
  ASSUME NEW j \in Job, NEW step \in Steps, NEW x \in TestCandidate \cup Patch
  PROVE  LET e == [j EXCEPT !.step = step, !.draft = x]
         IN  e.step = step /\ e.draft = x /\ Agrees(j, e, {"step", "draft"})
<1> DEFINE b == [j EXCEPT !.step = step]
           e == [b EXCEPT !.draft = x]
<1>1. b.step = step /\ Agrees(j, b, {"step"})
  BY SetsStep
<1> HIDE DEF b
<1>2. e.draft = x /\ Agrees(b, e, {"draft"})
  BY <1>1, SetsDraft DEF Agrees
<1>3. e = [j EXCEPT !.step = step, !.draft = x]
  BY DEF e, b
<1> HIDE DEF e
<1> QED
  BY <1>1, <1>2, <1>3 DEF Agrees, Fields

LEMMA SetsStepRuns ==
  ASSUME NEW j \in Job, NEW step \in Steps, j.runs > 0
  PROVE  LET e == [j EXCEPT !.step = step, !.runs = @ - 1]
         IN  e.step = step /\ Agrees(j, e, {"step", "runs"})
<1> DEFINE b == [j EXCEPT !.step = step]
           e == [b EXCEPT !.runs = j.runs - 1]
<1>1. b.step = step /\ Agrees(j, b, {"step"})
  BY SetsStep
<1>2. b.runs = j.runs
  BY <1>1 DEF Agrees, Fields
<1>3. e = [j EXCEPT !.step = step, !.runs = @ - 1]
  BY <1>2 DEF e, b
<1> HIDE DEF b
<1>4. j.runs - 1 \in 0..MaxRuns
  <2>1. j.runs \in 0..MaxRuns
    BY DEF Job
  <2> QED
    BY <2>1, CandidateAssumption
<1>5. Agrees(b, e, {"runs"})
  BY <1>1, <1>4, SetsRuns DEF Agrees
<1> HIDE DEF e
<1> QED
  BY <1>1, <1>3, <1>5 DEF Agrees, Fields

LEMMA SetsStepExamination ==
  ASSUME NEW j \in Job, NEW step \in Steps, NEW i \in Incidents, NEW test \in TestCandidate
  PROVE  LET e == [j EXCEPT !.step = step, !.examined = i, !.examiner = test]
         IN  /\ e.step = step /\ e.examined = i /\ e.examiner = test
             /\ Agrees(j, e, {"step", "examined", "examiner"})
<1> DEFINE b == [j EXCEPT !.step = step]
           c == [b EXCEPT !.examined = i]
           e == [c EXCEPT !.examiner = test]
<1>1. b.step = step /\ Agrees(j, b, {"step"})
  BY SetsStep
<1> HIDE DEF b
<1>2. c.examined = i /\ Agrees(b, c, {"examined"})
  BY <1>1, SetsExamined DEF Agrees
<1> HIDE DEF c
<1>3. e.examiner = test /\ Agrees(c, e, {"examiner"})
  BY <1>2, SetsExaminer DEF Agrees
<1>4. e = [j EXCEPT !.step = step, !.examined = i, !.examiner = test]
  BY DEF e, c, b
<1> HIDE DEF e
<1> QED
  BY <1>1, <1>2, <1>3, <1>4 DEF Agrees, Fields

-----------------------------------------------------------------------------
(* The ends of a loop.                                                     *)

Continues(j, e) == e \in Job /\ e.cmd = j.cmd /\ e.incident = j.incident /\ e.found = j.found

\* What follows the loop of command j.
Ended(j, e) ==
    IF j.cmd = "evaluate" THEN Continues(j, e) /\ e.step = "next_run" ELSE e = Idle

\* What follows a rejected attempt of command j.
Again(j, e, step) ==
    \/ Continues(j, e) /\ e.step = step /\ e.draft = j.draft
    \/ Ended(j, e)

LEMMA LoopEndsTurns ==
  ASSUME TypeOK, NEW w \in Workers, jobs[w] \in Job, LoopEnds(w)
  PROVE  \E e \in Job \cup {Idle} : Become(w, e) /\ Ended(jobs[w], e)
<1> DEFINE j == jobs[w]
<1>1. CASE j.cmd = "evaluate"
  <2> DEFINE a == Afresh(j, "next_run")
             b == [a EXCEPT !.draft = Nothing]
             e == [b EXCEPT !.tries = 0]
  <2>1. Agrees(j, a, {"step", "exit", "examined", "examiner"}) /\ a.step = "next_run"
    BY AfreshIsAJob DEF Steps
  <2> HIDE DEF a
  <2>2. Agrees(a, b, {"draft"})
    BY <2>1, SetsDraft DEF Agrees
  <2> HIDE DEF b
  <2>3. 0 \in 0..MaxAttempts - 1
    BY CandidateAssumption
  <2>4. Agrees(b, e, {"tries"})
    BY <2>2, <2>3, SetsTries DEF Agrees
  <2>5. Become(w, e)
    BY <1>1 DEF LoopEnds, a, b, e
  <2> HIDE DEF e
  <2>6. Continues(j, e) /\ e.step = "next_run"
    BY <2>1, <2>2, <2>4 DEF Agrees, Fields, Continues
  <2> QED
    BY <1>1, <2>5, <2>6 DEF Ended, Continues
<1>2. CASE j.cmd # "evaluate"
  BY <1>2 DEF LoopEnds, Ended
<1> QED
  BY <1>1, <1>2

LEMMA RetryTurns ==
  ASSUME TypeOK, NEW w \in Workers, jobs[w] \in Job, NEW step \in {"write_test", "write_patch"},
         Retry(w, step)
  PROVE  \E e \in Job \cup {Idle} : Become(w, e) /\ Again(jobs[w], e, step)
<1> DEFINE j == jobs[w]
           e == [Afresh(j, step) EXCEPT !.tries = @ + 1]
<1>1. CASE j.tries + 1 < j.limit
  <2>1. j.limit \in 1..MaxAttempts /\ j.tries \in 0..MaxAttempts - 1
    BY DEF Job
  <2>2. j.tries + 1 \in 0..MaxAttempts - 1
    BY <1>1, <2>1, CandidateAssumption
  <2> DEFINE a == Afresh(j, step)
  <2>3. Agrees(j, a, {"step", "exit", "examined", "examiner"}) /\ a.step = step
    BY AfreshIsAJob DEF Steps
  <2>4. e = [a EXCEPT !.tries = a.tries + 1] /\ Become(w, e)
    BY <1>1 DEF Retry
  <2> HIDE DEF a, e
  <2>5. a.tries = j.tries /\ a \in Job
    BY <2>3 DEF Agrees, Fields
  <2>6. Agrees(a, e, {"tries"})
    BY <2>2, <2>4, <2>5, SetsTries
  <2>7. Continues(j, e) /\ e.step = step /\ e.draft = j.draft
    BY <2>3, <2>6 DEF Agrees, Fields, Continues
  <2> QED
    BY <2>4, <2>7 DEF Again, Continues
<1>2. CASE ~(j.tries + 1 < j.limit)
  BY <1>2, LoopEndsTurns DEF Retry, Again
<1> QED
  BY <1>1, <1>2

-----------------------------------------------------------------------------
(* The command of a worker after each of its steps.                        *)

\* A test has been written, or run, or kept.
LEMMA WriteTestTurns ==
  ASSUME Typed, NEW w \in Workers, WriteTest(w)
  PROVE  /\ Typed' /\ jobs[w] \in Job /\ Continues(jobs[w], jobs'[w])
         /\ jobs'[w].step = "gate_bad" /\ jobs'[w].draft = testFile'
<1>1. TypeOK /\ RowsAreTimely /\ jobs[w] \in Job /\ jobs[w] # Idle /\ jobs[w].step = "write_test"
  BY WorkerRuns DEF Typed, WriteTest, At
<1>2. Formed(jobs[w])
  BY <1>1 DEF Typed
<1>3. PICK exits \in Outcomes :
         /\ testFile' = [incident |-> jobs[w].incident, exits |-> exits]
         /\ Become(w, [jobs[w] EXCEPT !.step = "gate_bad", !.draft = testFile'])
  BY DEF WriteTest
<1>4. testFile' \in TestCandidate /\ testFile'.incident = jobs[w].incident
  BY <1>1, <1>3 DEF TestCandidate, Job
<1> DEFINE e == [jobs[w] EXCEPT !.step = "gate_bad", !.draft = testFile']
<1>5. e.step = "gate_bad" /\ e.draft = testFile' /\ Agrees(jobs[w], e, {"step", "draft"})
  BY <1>1, <1>4, SetsStepDraft DEF Steps
<1>6. Become(w, e)
  BY <1>3
<1> HIDE DEF e
<1>7. e \in Job /\ e.cmd = jobs[w].cmd /\ e.incident = jobs[w].incident /\ e.found = jobs[w].found
  BY <1>5 DEF Agrees, Fields
<1>8. Formed(e)
  BY <1>1, <1>2, <1>4, <1>5, <1>7 DEF Formed, StepsOf, TestSteps, PatchSteps, Job
<1>9. FilesAreTyped' /\ FaultsAreBounded' /\ RowsAreTimely'
  BY <1>1, <1>4 DEF WriteTest, FilesAreTyped, FaultsAreBounded, RowsAreTimely, TypeOK, trail
<1>10. jobs'[w] = e
  BY <1>1, <1>6, <1>7, Turns
<1>11. Typed'
  BY <1>6, <1>7, <1>8, <1>9, TypedTurn DEF WriteTest
<1> QED
  BY <1>1, <1>5, <1>7, <1>10, <1>11 DEF Continues

LEMMA Runs ==
  ASSUME Typed, NEW w \in Workers, ~At(w, "idle")
  PROVE  TypeOK /\ RowsAreTimely /\ jobs[w] \in Job /\ jobs[w] # Idle /\ Formed(jobs[w])
  BY WorkerRuns DEF Typed

\* The faults stay as they are, or a new one strikes.
LEMMA FaultsStay ==
  ASSUME TypeOK, UNCHANGED faults
  PROVE  FaultsAreBounded'
  BY DEF TypeOK, FaultsAreBounded

LEMMA EndedIsFormed ==
  ASSUME NEW j \in Job, Formed(j), NEW e, Ended(j, e)
  PROVE  e \in Job \cup {Idle} /\ (e # Idle => Formed(e))
<1>1. CASE j.cmd = "evaluate"
  BY <1>1 DEF Ended, Continues, Formed, StepsOf, TestSteps, PatchSteps
<1>2. CASE j.cmd # "evaluate"
  BY <1>2 DEF Ended
<1> QED
  BY <1>1, <1>2

LEMMA AgainIsFormed ==
  ASSUME NEW j \in Job, Formed(j), NEW e, NEW step,
         \/ step = "write_test" /\ j.cmd \in {"certify", "evaluate"}
         \/ step = "write_patch" /\ j.cmd \in {"fix", "evaluate"},
         Again(j, e, step)
  PROVE  e \in Job \cup {Idle} /\ (e # Idle => Formed(e))
<1>1. CASE Ended(j, e)
  BY <1>1, EndedIsFormed
<1>2. CASE ~Ended(j, e)
  BY <1>2 DEF Again, Continues, Formed, StepsOf, TestSteps, PatchSteps
<1> QED
  BY <1>1, <1>2

LEMMA QuietTurn ==
  ASSUME Typed, NEW w \in Workers, ~At(w, "idle"), NEW e \in Job \cup {Idle}, Become(w, e),
         e # Idle => Formed(e), UNCHANGED <<latest, captured, files, trail>>,
         FaultsAreBounded'
  PROVE  Typed' /\ jobs'[w] = e
  BY Runs, TypedQuietTurn, Turns

LEMMA GateBadTurns ==
  ASSUME Typed, NEW w \in Workers, GateBad(w)
  PROVE  /\ Typed' /\ jobs[w] \in Job /\ Continues(jobs[w], jobs'[w])
         /\ jobs'[w].draft = jobs[w].draft /\ faults \subseteq faults'
         /\ \/ /\ jobs'[w].step = "gate_good"
               /\ "sandbox" \notin faults' => 1 \in Codes(jobs[w].incident, "bad")
            \/ jobs'[w].step = "judge_test" /\ jobs'[w].exit = 1
<1> DEFINE j == jobs[w]
<1>1. TypeOK /\ j \in Job /\ j # Idle /\ j.step = "gate_bad" /\ Formed(j) /\ ~At(w, "idle")
  BY Runs DEF GateBad, At
<1>2. PICK code \in Exits :
         /\ Pytest(w, "bad", code)
         /\ Become(w, IF DetectsFault(code)
                      THEN [j EXCEPT !.step = "gate_good"]
                      ELSE [j EXCEPT !.step = "judge_test", !.exit = 1])
  BY DEF GateBad
<1>3. FaultsAreBounded' /\ faults \subseteq faults'
      /\ ("sandbox" \notin faults' => code \in Codes(j.incident, "bad"))
  BY <1>1, <1>2, FaultsStay, Strikes DEF Pytest
<1>4. CASE code = 1
  <2> DEFINE e == [j EXCEPT !.step = "gate_good"]
  <2>1. e.step = "gate_good" /\ Agrees(j, e, {"step"})
    BY <1>1, SetsStep DEF Steps
  <2>2. Become(w, e)
    BY <1>2, <1>4 DEF DetectsFault
  <2> HIDE DEF e
  <2>3. Continues(j, e) /\ e.draft = j.draft /\ e \in Job
    BY <2>1 DEF Agrees, Fields, Continues
  <2>4. Formed(e)
    BY <1>1, <2>1, <2>3 DEF Formed, Continues, StepsOf, TestSteps, PatchSteps, Job
  <2>5. Typed' /\ jobs'[w] = e
    BY <1>1, <1>3, <2>2, <2>3, <2>4, QuietTurn DEF GateBad
  <2> QED
    BY <1>1, <1>3, <1>4, <2>1, <2>3, <2>5
<1>5. CASE code # 1
  <2> DEFINE e == [j EXCEPT !.step = "judge_test", !.exit = 1]
  <2>1. e.step = "judge_test" /\ e.exit = 1 /\ Agrees(j, e, {"step", "exit"})
    <3>1. 1 \in Exits /\ "judge_test" \in Steps
      BY DEF Exits, Steps
    <3> QED
      BY <1>1, <3>1, SetsStepExit
  <2>2. Become(w, e)
    BY <1>2, <1>5 DEF DetectsFault
  <2> HIDE DEF e
  <2>3. Continues(j, e) /\ e.draft = j.draft /\ e \in Job
    BY <2>1 DEF Agrees, Fields, Continues
  <2>4. Formed(e)
    BY <1>1, <2>1, <2>3 DEF Formed, Continues, StepsOf, TestSteps, PatchSteps, Job
  <2>5. Typed' /\ jobs'[w] = e
    BY <1>1, <1>3, <2>2, <2>3, <2>4, QuietTurn DEF GateBad
  <2> QED
    BY <1>1, <1>3, <2>1, <2>3, <2>5
<1> QED
  BY <1>4, <1>5

LEMMA GateGoodTurns ==
  ASSUME Typed, NEW w \in Workers, GateGood(w)
  PROVE  /\ Typed' /\ jobs[w] \in Job /\ Continues(jobs[w], jobs'[w])
         /\ jobs'[w].draft = jobs[w].draft /\ faults \subseteq faults'
         /\ jobs'[w].step = "judge_test"
         /\ jobs'[w].exit = 0 => 0 \in Codes(jobs[w].incident, "good")
<1> DEFINE j == jobs[w]
<1>1. TypeOK /\ j \in Job /\ j # Idle /\ j.step = "gate_good" /\ Formed(j) /\ ~At(w, "idle")
  BY Runs DEF GateGood, At
<1>2. PICK code \in Exits :
         /\ Pytest(w, "good", code)
         /\ Become(w, [j EXCEPT !.step = "judge_test", !.exit = IF code = 0 THEN 0 ELSE 1])
  BY DEF GateGood
<1>3. FaultsAreBounded' /\ faults \subseteq faults'
      /\ (code # 1 => code \in Codes(j.incident, "good"))
  BY <1>1, <1>2, FaultsStay, Strikes DEF Pytest
<1> DEFINE x == IF code = 0 THEN 0 ELSE 1
           e == [j EXCEPT !.step = "judge_test", !.exit = x]
<1>4. x \in Exits /\ (x = 0 => code = 0)
  BY DEF Exits
<1>5. Become(w, e)
  BY <1>2
<1> HIDE DEF x
<1>6. e.step = "judge_test" /\ e.exit = x /\ Agrees(j, e, {"step", "exit"})
  BY <1>1, <1>4, SetsStepExit DEF Steps
<1> HIDE DEF e
<1>7. Continues(j, e) /\ e.draft = j.draft /\ e \in Job
  BY <1>6 DEF Agrees, Fields, Continues
<1>8. Formed(e)
  BY <1>1, <1>6, <1>7 DEF Formed, Continues, StepsOf, TestSteps, PatchSteps, Job
<1>9. Typed' /\ jobs'[w] = e
  BY <1>1, <1>3, <1>5, <1>7, <1>8, QuietTurn DEF GateGood
<1> QED
  BY <1>1, <1>3, <1>4, <1>6, <1>7, <1>9

LEMMA AcceptTestTurns ==
  ASSUME Typed, NEW w \in Workers, AcceptTest(w)
  PROVE  /\ Typed' /\ jobs[w] \in Job
         /\ \/ /\ jobs[w].cmd = "certify" /\ Continues(jobs[w], jobs'[w])
               /\ jobs'[w].step = "record_test" /\ jobs'[w].draft = jobs[w].draft
            \/ jobs[w].cmd = "evaluate" /\ Ended(jobs[w], jobs'[w])
<1> DEFINE j == jobs[w]
<1>1. /\ TypeOK /\ j \in Job /\ j # Idle /\ j.step = "judge_test" /\ j.exit = 0 /\ Formed(j)
      /\ ~At(w, "idle") /\ FaultsAreBounded'
  BY Runs, FaultsStay DEF AcceptTest, At
<1>2. CASE j.cmd = "certify"
  <2> DEFINE e == [j EXCEPT !.step = "record_test"]
  <2>1. e.step = "record_test" /\ Agrees(j, e, {"step"})
    BY <1>1, SetsStep DEF Steps
  <2>2. Become(w, e)
    BY <1>2 DEF AcceptTest
  <2> HIDE DEF e
  <2>3. Continues(j, e) /\ e.draft = j.draft /\ e \in Job /\ e.exit = 0
    BY <1>1, <2>1 DEF Agrees, Fields, Continues
  <2>4. Formed(e)
    BY <1>1, <1>2, <2>1, <2>3 DEF Formed, Continues, StepsOf, TestSteps, PatchSteps, Job
  <2>5. Typed' /\ jobs'[w] = e
    BY <1>1, <2>2, <2>3, <2>4, QuietTurn DEF AcceptTest
  <2> QED
    BY <1>1, <1>2, <2>1, <2>3, <2>5
<1>3. CASE j.cmd # "certify"
  <2>1. j.cmd = "evaluate"
    BY <1>1, <1>3 DEF Formed, StepsOf, TestSteps, PatchSteps, Job
  <2>2. PICK e \in Job \cup {Idle} : Become(w, e) /\ Ended(j, e)
    BY <1>1, <1>3, LoopEndsTurns DEF AcceptTest
  <2>3. Typed' /\ jobs'[w] = e
    BY <1>1, <2>2, EndedIsFormed, QuietTurn DEF AcceptTest
  <2> QED
    BY <1>1, <2>1, <2>2, <2>3
<1> QED
  BY <1>2, <1>3

LEMMA RejectTestTurns ==
  ASSUME Typed, NEW w \in Workers, RejectTest(w)
  PROVE  /\ Typed' /\ jobs[w] \in Job /\ jobs[w].cmd \in {"certify", "evaluate"}
         /\ Again(jobs[w], jobs'[w], "write_test")
<1> DEFINE j == jobs[w]
<1>1. /\ TypeOK /\ RowsAreTimely /\ j \in Job /\ j # Idle /\ j.step = "judge_test" /\ Formed(j)
      /\ ~At(w, "idle") /\ FaultsAreBounded'
  BY Runs, FaultsStay DEF RejectTest, At
<1>2. j.cmd \in {"certify", "evaluate"}
  BY <1>1 DEF Formed, StepsOf, TestSteps, PatchSteps, Job
<1>3. PICK e \in Job \cup {Idle} : Become(w, e) /\ Again(j, e, "write_test")
  BY <1>1, RetryTurns DEF RejectTest
<1>4. e # Idle => Formed(e)
  BY <1>1, <1>2, <1>3, AgainIsFormed
<1>5. FilesAreTyped' /\ RowsAreTimely'
  BY <1>1 DEF RejectTest, FilesAreTyped, RowsAreTimely, TypeOK, trail
<1>6. Typed' /\ jobs'[w] = e
  BY <1>1, <1>3, <1>4, <1>5, TypedTurn, Turns DEF RejectTest
<1> QED
  BY <1>1, <1>2, <1>3, <1>6

LEMMA RecordTestTurns ==
  ASSUME Typed, NEW w \in Workers, RecordTest(w)
  PROVE  /\ Typed' /\ jobs[w] \in Job /\ jobs[w].step = "record_test" /\ jobs[w].cmd = "certify"
         /\ jobs[w].exit = 0 /\ jobs'[w] = Idle
<1> DEFINE j == jobs[w]
<1>1. /\ TypeOK /\ RowsAreTimely /\ j \in Job /\ j # Idle /\ j.step = "record_test" /\ Formed(j)
      /\ ~At(w, "idle") /\ FaultsAreBounded'
  BY Runs, FaultsStay DEF RecordTest, At
<1>2. j.cmd = "certify" /\ j.exit = 0 /\ j.draft \in TestCandidate
  BY <1>1 DEF Formed, StepsOf, TestSteps, PatchSteps, Job
<1>3. [incident |-> j.incident, test |-> j.draft] \in [incident : Incidents, test : TestCandidate]
  BY <1>1, <1>2 DEF Job
<1>4. FilesAreTyped' /\ RowsAreTimely'
  BY <1>1, <1>3 DEF RecordTest, FilesAreTyped, RowsAreTimely, TypeOK, files
<1>5. Typed' /\ jobs'[w] = Idle
  BY <1>1, <1>4, TypedTurn, Turns DEF RecordTest
<1> QED
  BY <1>1, <1>2, <1>5

\* A patch has been written, or examined, or kept.
LEMMA WritePatchTurns ==
  ASSUME Typed, NEW w \in Workers, WritePatch(w)
  PROVE  /\ Typed' /\ jobs[w] \in Job /\ Continues(jobs[w], jobs'[w])
         /\ jobs'[w].step = "validate" /\ jobs'[w].draft = patchFile'
<1>1. TypeOK /\ RowsAreTimely /\ jobs[w] \in Job /\ jobs[w] # Idle /\ jobs[w].step = "write_patch"
  BY WorkerRuns DEF Typed, WritePatch, At
<1>2. Formed(jobs[w])
  BY <1>1 DEF Typed
<1>3. PICK repair \in Repairs :
         /\ patchFile' = [incident |-> jobs[w].incident, repair |-> repair]
         /\ Become(w, [jobs[w] EXCEPT !.step = "validate", !.draft = patchFile'])
  BY DEF WritePatch
<1>4. patchFile' \in Patch /\ patchFile'.incident = jobs[w].incident
  BY <1>1, <1>3 DEF Patch, Job
<1> DEFINE e == [jobs[w] EXCEPT !.step = "validate", !.draft = patchFile']
<1>5. e.step = "validate" /\ e.draft = patchFile' /\ Agrees(jobs[w], e, {"step", "draft"})
  BY ZenonT(30), <1>1, <1>4, SetsStepDraft DEF Steps
<1>6. Become(w, e)
  BY <1>3
<1> HIDE DEF e
<1>7. e \in Job /\ e.cmd = jobs[w].cmd /\ e.incident = jobs[w].incident /\ e.found = jobs[w].found
  BY <1>5 DEF Agrees, Fields
<1>8. Formed(e)
  BY <1>1, <1>2, <1>4, <1>5, <1>7 DEF Formed, StepsOf, TestSteps, PatchSteps, Job
<1>9. FilesAreTyped' /\ FaultsAreBounded' /\ RowsAreTimely'
  BY <1>1, <1>4 DEF WritePatch, FilesAreTyped, FaultsAreBounded, RowsAreTimely, TypeOK, trail
<1>10. jobs'[w] = e
  BY <1>1, <1>6, <1>7, Turns
<1>11. Typed'
  BY <1>6, <1>7, <1>8, <1>9, TypedTurn DEF WritePatch
<1> QED
  BY <1>1, <1>5, <1>7, <1>10, <1>11 DEF Continues

LEMMA UnusableTurns ==
  ASSUME Typed, NEW w \in Workers, Unusable(w)
  PROVE  /\ Typed' /\ jobs[w] \in Job /\ jobs[w].cmd \in {"fix", "evaluate"}
         /\ Again(jobs[w], jobs'[w], "write_patch")
<1> DEFINE j == jobs[w]
<1>1. /\ TypeOK /\ j \in Job /\ j # Idle /\ j.step = "write_patch" /\ Formed(j)
      /\ ~At(w, "idle") /\ FaultsAreBounded'
  BY Runs, FaultsStay DEF Unusable, At
<1>2. j.cmd \in {"fix", "evaluate"}
  BY <1>1 DEF Formed, StepsOf, TestSteps, PatchSteps, Job
<1>3. PICK e \in Job \cup {Idle} : Become(w, e) /\ Again(j, e, "write_patch")
  BY <1>1, RetryTurns DEF Unusable
<1>4. e # Idle => Formed(e)
  BY <1>1, <1>2, <1>3, AgainIsFormed
<1>5. Typed' /\ jobs'[w] = e
  BY <1>1, <1>3, <1>4, QuietTurn DEF Unusable
<1> QED
  BY <1>1, <1>2, <1>3, <1>5

LEMMA ValidateTurns ==
  ASSUME Typed, NEW w \in Workers, Validate(w)
  PROVE  /\ Typed' /\ jobs[w] \in Job /\ Continues(jobs[w], jobs'[w])
         /\ jobs'[w].draft = jobs[w].draft
         /\ \/ /\ jobs'[w].step = "checks"
               /\ jobs'[w].examined = latest /\ jobs'[w].examiner = testFile
            \/ jobs'[w].step = "judge_patch" /\ jobs'[w].exit = 2
<1> DEFINE j == jobs[w]
<1>1. /\ TypeOK /\ j \in Job /\ j # Idle /\ j.step = "validate" /\ Formed(j)
      /\ ~At(w, "idle") /\ FaultsAreBounded'
  BY Runs, FaultsStay DEF Validate, At
<1>2. CASE Replayable /\ testFile # Nothing
  <2> DEFINE e == [j EXCEPT !.step = "checks", !.examined = latest, !.examiner = testFile]
  <2>1. latest \in Incidents /\ testFile \in TestCandidate /\ j.incident \in Nat
        /\ j.incident <= latest
    BY <1>1, <1>2, CandidateAssumption DEF TypeOK, Replayable, Incidents, Formed, Job
  <2>2. /\ e.step = "checks" /\ e.examined = latest /\ e.examiner = testFile
        /\ Agrees(j, e, {"step", "examined", "examiner"})
    <3>1. "checks" \in Steps
      BY DEF Steps
    <3> QED
      BY <1>1, <2>1, <3>1, SetsStepExamination
  <2>3. Become(w, e)
    BY <1>2 DEF Validate
  <2> HIDE DEF e
  <2>4. Continues(j, e) /\ e.draft = j.draft /\ e \in Job
    BY <2>2 DEF Agrees, Fields, Continues
  <2>5. Examined(e)
    BY <2>1, <2>2, <2>4 DEF Examined, Continues, Incidents
  <2>6. Formed(e)
    BY <1>1, <2>2, <2>4, <2>5 DEF Formed, Continues, StepsOf, TestSteps, PatchSteps, Job
  <2>7. Typed' /\ jobs'[w] = e
    BY <1>1, <2>3, <2>4, <2>6, QuietTurn DEF Validate
  <2> QED
    BY <1>1, <2>2, <2>4, <2>7
<1>3. CASE ~(Replayable /\ testFile # Nothing)
  <2> DEFINE e == [j EXCEPT !.step = "judge_patch", !.exit = 2]
  <2>1. 2 \in Exits /\ "judge_patch" \in Steps
    BY DEF Exits, Steps
  <2>2. e.step = "judge_patch" /\ e.exit = 2 /\ Agrees(j, e, {"step", "exit"})
    BY <1>1, <2>1, SetsStepExit
  <2>3. Become(w, e)
    BY <1>3 DEF Validate
  <2> HIDE DEF e
  <2>4. Continues(j, e) /\ e.draft = j.draft /\ e \in Job
    BY <2>2 DEF Agrees, Fields, Continues
  <2>5. Formed(e)
    BY <1>1, <2>2, <2>4 DEF Formed, Continues, StepsOf, TestSteps, PatchSteps, Job
  <2>6. Typed' /\ jobs'[w] = e
    BY <1>1, <2>3, <2>4, <2>5, QuietTurn DEF Validate
  <2> QED
    BY <1>1, <2>2, <2>4, <2>6
<1> QED
  BY <1>2, <1>3

LEMMA ChecksTurns ==
  ASSUME Typed, NEW w \in Workers, Checks(w)
  PROVE  /\ Typed' /\ jobs[w] \in Job /\ Continues(jobs[w], jobs'[w]) /\ Examined(jobs[w])
         /\ jobs'[w].draft = jobs[w].draft /\ jobs'[w].examined = jobs[w].examined
         /\ jobs'[w].step = "judge_patch" /\ faults \subseteq faults'
         /\ jobs'[w].exit = 0 =>
               /\ patchFile # Nothing
               /\ \E repair \in Applied(jobs[w].examined) :
                     /\ InScope(repair) /\ Equivalent(repair)
                     /\ "short" \notin faults' =>
                           WorkRestored(Spans[jobs[w].examined].good, repair.work)
<1> DEFINE j == jobs[w]
<1>1. /\ TypeOK /\ j \in Job /\ j # Idle /\ j.step = "checks" /\ Formed(j) /\ Examined(j)
      /\ ~At(w, "idle")
  BY Runs DEF Checks, At, Formed
<1>2. PICK exit \in {0, 1}, less \in BOOLEAN :
         /\ IF less THEN Strike("short") ELSE UNCHANGED faults
         /\ exit = 0 => Passes(j.examined, less)
         /\ Become(w, [j EXCEPT !.step = "judge_patch", !.exit = exit])
  BY DEF Checks
<1>3. /\ FaultsAreBounded' /\ faults \subseteq faults'
      /\ "short" \notin faults' => less = FALSE
  BY <1>1, <1>2, Strikes, FaultsStay
<1>4. ASSUME exit = 0
       PROVE  /\ patchFile # Nothing
              /\ \E repair \in Applied(j.examined) :
                    /\ InScope(repair) /\ Equivalent(repair)
                    /\ "short" \notin faults' =>
                          WorkRestored(Spans[j.examined].good, repair.work)
  <2>1. PICK repair \in Applied(j.examined), test \in {"passed", "failed"},
             suite \in {"passed", "failed", "skipped"} :
           /\ InScope(repair)
           /\ \E reading \in Readings(repair.work, less) :
                 AllPassed(j.examined, repair, reading, test, suite)
    BY <1>2, <1>4 DEF Passes
  <2>2. patchFile # Nothing
    BY <1>2, <1>4 DEF Passes
  <2>3. PICK reading \in Readings(repair.work, less) :
           AllPassed(j.examined, repair, reading, test, suite)
    BY <2>1
  <2>4. "short" \notin faults' => reading = repair.work
    <3>1. less = FALSE => Readings(repair.work, less) = {repair.work}
      BY DEF Readings
    <3> QED
      BY <1>3, <2>3, <3>1
  <2> QED
    BY <2>1, <2>2, <2>3, <2>4 DEF AllPassed
<1> DEFINE e == [j EXCEPT !.step = "judge_patch", !.exit = exit]
<1>5. exit \in Exits /\ "judge_patch" \in Steps
  BY DEF Exits, Steps
<1>6. e.step = "judge_patch" /\ e.exit = exit /\ Agrees(j, e, {"step", "exit"})
  BY <1>1, <1>5, SetsStepExit
<1>7. Become(w, e)
  BY <1>2
<1> HIDE DEF e
<1>8. Continues(j, e) /\ e.draft = j.draft /\ e.examined = j.examined /\ e \in Job
  BY <1>6 DEF Agrees, Fields, Continues
<1>9. Examined(e)
  BY <1>1, <1>8 DEF Examined, Continues
<1>10. Formed(e)
  BY <1>1, <1>6, <1>8, <1>9 DEF Formed, Continues, StepsOf, TestSteps, PatchSteps, Job
<1>11. Typed' /\ jobs'[w] = e
  <2>1. UNCHANGED <<latest, captured, files, trail>>
    BY DEF Checks
  <2> QED
    BY <1>1, <1>3, <1>7, <1>8, <1>10, <2>1, QuietTurn
<1> QED
  BY <1>1, <1>3, <1>4, <1>6, <1>8, <1>11

LEMMA AcceptPatchTurns ==
  ASSUME Typed, NEW w \in Workers, AcceptPatch(w)
  PROVE  /\ Typed' /\ jobs[w] \in Job /\ Examined(jobs[w])
         /\ \/ /\ jobs[w].cmd = "fix" /\ Continues(jobs[w], jobs'[w])
               /\ jobs'[w].step = "record_patch" /\ jobs'[w].draft = jobs[w].draft
               /\ jobs'[w].exit = 0 /\ jobs'[w].examined = jobs[w].examined
            \/ jobs[w].cmd = "evaluate" /\ Ended(jobs[w], jobs'[w])
<1> DEFINE j == jobs[w]
<1>1. /\ TypeOK /\ j \in Job /\ j # Idle /\ j.step = "judge_patch" /\ j.exit = 0 /\ Formed(j)
      /\ Examined(j) /\ ~At(w, "idle") /\ FaultsAreBounded'
  BY Runs, FaultsStay DEF AcceptPatch, At, Formed
<1>2. CASE j.cmd = "fix"
  <2> DEFINE e == [j EXCEPT !.step = "record_patch"]
  <2>1. e.step = "record_patch" /\ Agrees(j, e, {"step"})
    BY <1>1, SetsStep DEF Steps
  <2>2. Become(w, e)
    BY <1>2 DEF AcceptPatch
  <2> HIDE DEF e
  <2>3. Continues(j, e) /\ e.draft = j.draft /\ e \in Job /\ e.exit = 0 /\ e.examined = j.examined
    BY <1>1, <2>1 DEF Agrees, Fields, Continues
  <2>4. Examined(e)
    BY <1>1, <2>3 DEF Examined, Continues
  <2>5. Formed(e)
    BY <1>1, <1>2, <2>1, <2>3, <2>4 DEF Formed, Continues, StepsOf, TestSteps, PatchSteps, Job
  <2>6. Typed' /\ jobs'[w] = e
    BY <1>1, <2>2, <2>3, <2>5, QuietTurn DEF AcceptPatch
  <2> QED
    BY <1>1, <1>2, <2>1, <2>3, <2>6
<1>3. CASE j.cmd # "fix"
  <2>1. j.cmd = "evaluate"
    BY <1>1, <1>3 DEF Formed, StepsOf, TestSteps, PatchSteps, Job
  <2>2. PICK e \in Job \cup {Idle} : Become(w, e) /\ Ended(j, e)
    BY <1>1, <1>3, LoopEndsTurns DEF AcceptPatch
  <2>3. Typed' /\ jobs'[w] = e
    BY <1>1, <2>2, EndedIsFormed, QuietTurn DEF AcceptPatch
  <2> QED
    BY <1>1, <2>1, <2>2, <2>3
<1> QED
  BY <1>2, <1>3

LEMMA RejectPatchTurns ==
  ASSUME Typed, NEW w \in Workers, RejectPatch(w)
  PROVE  /\ Typed' /\ jobs[w] \in Job /\ jobs[w].cmd \in {"fix", "evaluate"}
         /\ Again(jobs[w], jobs'[w], "write_patch")
<1> DEFINE j == jobs[w]
<1>1. /\ TypeOK /\ RowsAreTimely /\ j \in Job /\ j # Idle /\ j.step = "judge_patch" /\ Formed(j)
      /\ ~At(w, "idle") /\ FaultsAreBounded'
  BY Runs, FaultsStay DEF RejectPatch, At
<1>2. j.cmd \in {"fix", "evaluate"}
  BY <1>1 DEF Formed, StepsOf, TestSteps, PatchSteps, Job
<1>3. PICK e \in Job \cup {Idle} : Become(w, e) /\ Again(j, e, "write_patch")
  BY <1>1, RetryTurns DEF RejectPatch
<1>4. e # Idle => Formed(e)
  BY <1>1, <1>2, <1>3, AgainIsFormed
<1>5. FilesAreTyped' /\ RowsAreTimely'
  BY <1>1 DEF RejectPatch, FilesAreTyped, RowsAreTimely, TypeOK, trail
<1>6. Typed' /\ jobs'[w] = e
  BY <1>1, <1>3, <1>4, <1>5, TypedTurn, Turns DEF RejectPatch
<1> QED
  BY <1>1, <1>2, <1>3, <1>6

LEMMA RecordPatchTurns ==
  ASSUME Typed, NEW w \in Workers, RecordPatch(w)
  PROVE  /\ Typed' /\ jobs[w] \in Job /\ jobs[w].step = "record_patch" /\ jobs[w].cmd = "fix"
         /\ jobs[w].exit = 0 /\ Examined(jobs[w]) /\ jobs[w].draft \in Patch
         /\ jobs[w].draft.incident = jobs[w].incident /\ jobs'[w] = Idle
<1> DEFINE j == jobs[w]
           row == [patch |-> j.draft, examined |-> j.examined]
<1>1. /\ TypeOK /\ RowsAreTimely /\ j \in Job /\ j # Idle /\ j.step = "record_patch" /\ Formed(j)
      /\ ~At(w, "idle") /\ FaultsAreBounded'
  BY Runs, FaultsStay DEF RecordPatch, At
<1>2. j.cmd = "fix" /\ j.exit = 0 /\ j.draft \in Patch /\ j.draft.incident = j.incident /\ Examined(j)
  BY <1>1 DEF Formed, StepsOf, TestSteps, PatchSteps, Job
<1>3. j.incident \in Incidents /\ j.examined \in j.incident..latest /\ latest \in 0..MaxIncidents
  BY <1>1, <1>2 DEF Job, Examined, TypeOK
<1>4. j.examined \in Incidents
  BY SMTT(30), <1>3, CandidateAssumption DEF Incidents
<1>5. row \in Verification /\ row.examined = j.examined
  BY <1>2, <1>4 DEF Verification
<1>6. \/ evidence' = [evidence EXCEPT ![j.incident] = row]
      \/ evidence' = evidence
  BY DEF RecordPatch
<1> HIDE DEF row
<1>7. FilesAreTyped'
  BY <1>1, <1>5, <1>6 DEF RecordPatch, FilesAreTyped, TypeOK, files
<1>8. RowsAreTimely'
  BY <1>1, <1>3, <1>5, <1>6 DEF RecordPatch, RowsAreTimely, TypeOK
<1>9. Typed' /\ jobs'[w] = Idle
  BY <1>1, <1>7, <1>8, TypedTurn, Turns DEF RecordPatch
<1> QED
  BY <1>1, <1>2, <1>9

\* A benchmark goes on to a test, to a patch, or is over.
LEMMA BenchmarkTestTurns ==
  ASSUME Typed, NEW w \in Workers, BenchmarkTest(w)
  PROVE  /\ Typed' /\ jobs[w] \in Job /\ jobs[w].cmd = "evaluate"
         /\ Continues(jobs[w], jobs'[w]) /\ jobs'[w].step = "write_test"
<1> DEFINE j == jobs[w]
           e == [j EXCEPT !.step = "write_test", !.runs = @ - 1]
<1>1. /\ TypeOK /\ j \in Job /\ j # Idle /\ j.step = "next_run" /\ Formed(j)
      /\ ~At(w, "idle") /\ FaultsAreBounded'
  BY Runs, FaultsStay DEF BenchmarkTest, At
<1>2. j.cmd = "evaluate" /\ j.runs > 0 /\ "write_test" \in Steps
  BY <1>1 DEF Formed, StepsOf, TestSteps, PatchSteps, Job, BenchmarkTest, Steps
<1>3. e.step = "write_test" /\ Agrees(j, e, {"step", "runs"})
  BY <1>1, <1>2, SetsStepRuns
<1>4. Become(w, e)
  BY DEF BenchmarkTest
<1> HIDE DEF e
<1>5. Continues(j, e) /\ e \in Job
  BY <1>3 DEF Agrees, Fields, Continues
<1>6. Formed(e)
  BY <1>1, <1>2, <1>3, <1>5 DEF Formed, Continues, StepsOf, TestSteps, PatchSteps, Job
<1>7. Typed' /\ jobs'[w] = e
  BY <1>1, <1>4, <1>5, <1>6, QuietTurn DEF BenchmarkTest
<1> QED
  BY <1>1, <1>2, <1>3, <1>5, <1>7

LEMMA BenchmarkPatchTurns ==
  ASSUME Typed, NEW w \in Workers, BenchmarkPatch(w)
  PROVE  /\ Typed' /\ jobs[w] \in Job /\ jobs[w].cmd = "evaluate"
         /\ Continues(jobs[w], jobs'[w]) /\ jobs'[w].step = "write_patch"
<1> DEFINE j == jobs[w]
           e == [j EXCEPT !.step = "write_patch", !.runs = @ - 1]
<1>1. /\ TypeOK /\ RowsAreTimely /\ j \in Job /\ j # Idle /\ j.step = "next_run" /\ Formed(j)
      /\ ~At(w, "idle") /\ FaultsAreBounded'
  BY Runs, FaultsStay DEF BenchmarkPatch, At
<1>2. j.cmd = "evaluate" /\ j.runs > 0 /\ "write_patch" \in Steps
  BY <1>1 DEF Formed, StepsOf, TestSteps, PatchSteps, Job, BenchmarkPatch, Steps
<1>3. e.step = "write_patch" /\ Agrees(j, e, {"step", "runs"})
  BY <1>1, <1>2, SetsStepRuns
<1>4. Become(w, e)
  BY DEF BenchmarkPatch
<1> HIDE DEF e
<1>5. Continues(j, e) /\ e \in Job
  BY <1>3 DEF Agrees, Fields, Continues
<1>6. Formed(e)
  BY <1>1, <1>2, <1>3, <1>5 DEF Formed, Continues, StepsOf, TestSteps, PatchSteps, Job
<1>7. j.found.test \in TestCandidate \cup {Nothing}
  BY <1>1 DEF Job
<1>8. FilesAreTyped' /\ RowsAreTimely'
  BY <1>1, <1>7 DEF BenchmarkPatch, FilesAreTyped, RowsAreTimely, TypeOK, trail
<1>9. Typed' /\ jobs'[w] = e
  BY <1>1, <1>4, <1>5, <1>6, <1>8, TypedTurn, Turns DEF BenchmarkPatch
<1> QED
  BY <1>1, <1>2, <1>3, <1>5, <1>9

LEMMA RestoreTurns ==
  ASSUME Typed, NEW w \in Workers, Restore(w)
  PROVE  /\ Typed' /\ jobs[w] \in Job /\ jobs[w].cmd = "evaluate" /\ jobs'[w] = Idle
<1> DEFINE j == jobs[w]
<1>1. /\ TypeOK /\ RowsAreTimely /\ j \in Job /\ j # Idle /\ j.step = "next_run" /\ Formed(j)
      /\ ~At(w, "idle") /\ FaultsAreBounded'
  BY Runs, FaultsStay DEF Restore, At
<1>2. j.cmd = "evaluate"
  BY <1>1 DEF Formed, StepsOf, TestSteps, PatchSteps, Job
<1>3. j.found.test \in TestCandidate \cup {Nothing} /\ j.found.patch \in Patch \cup {Nothing}
  BY <1>1 DEF Job
<1>4. FilesAreTyped' /\ RowsAreTimely'
  BY <1>1, <1>3 DEF Restore, FilesAreTyped, RowsAreTimely, TypeOK, trail
<1>5. Typed' /\ jobs'[w] = Idle
  BY <1>1, <1>4, TypedTurn, Turns DEF Restore
<1> QED
  BY <1>1, <1>2, <1>5

LEMMA BranchTurns ==
  ASSUME Typed, NEW w \in Workers, Branch(w)
  PROVE  /\ Typed' /\ jobs[w] \in Job /\ jobs[w].step = "branch" /\ jobs'[w] = Idle
         /\ jobs[w].draft \in Patch /\ jobs[w].cited \in Verification
<1> DEFINE j == jobs[w]
           row == [patch |-> j.draft, cited |-> j.cited]
<1>1. /\ TypeOK /\ RowsAreTimely /\ j \in Job /\ j # Idle /\ j.step = "branch" /\ Formed(j)
      /\ ~At(w, "idle") /\ FaultsAreBounded'
  BY Runs, FaultsStay DEF Branch, At
<1>2. j.draft \in Patch /\ j.cited \in Verification
  BY <1>1 DEF Formed
<1>3. row \in [patch : Patch, cited : Verification]
  BY <1>2
<1>4. branches' = [branches EXCEPT ![j.incident] = row] \/ branches' = branches
  BY DEF Branch
<1> HIDE DEF row
<1>5. FilesAreTyped' /\ RowsAreTimely'
  BY <1>1, <1>3, <1>4 DEF Branch, FilesAreTyped, RowsAreTimely, TypeOK, files
<1>6. Typed' /\ jobs'[w] = Idle
  BY <1>1, <1>5, TypedTurn, Turns DEF Branch
<1> QED
  BY <1>1, <1>2, <1>6

\* A fault ends the loop of a command, or the command.
LEMMA FaultTurns ==
  ASSUME Typed, NEW w \in Workers, Fault(w)
  PROVE  /\ Typed' /\ jobs[w] \in Job /\ faults \subseteq faults'
         /\ \/ Ended(jobs[w], jobs'[w])
            \/ "kill" \in faults' /\ jobs'[w] = Idle
<1> DEFINE j == jobs[w]
<1>1. ASSUME LoopEnds(w), j \in Job, ~At(w, "idle"), FaultsAreBounded',
             UNCHANGED <<latest, captured, files, trail>>
      PROVE  Typed' /\ Ended(j, jobs'[w])
  <2>1. TypeOK /\ Formed(j)
    BY <1>1, Runs
  <2>2. PICK e \in Job \cup {Idle} : Become(w, e) /\ Ended(j, e)
    BY <1>1, <2>1, LoopEndsTurns
  <2> QED
    BY <1>1, <2>1, <2>2, EndedIsFormed, QuietTurn
<1>2. CASE GenerationFails(w)
  <2>1. ~At(w, "idle")
    BY <1>2 DEF GenerationFails, At
  <2> QED
    BY <1>1, <1>2, <2>1, Runs, Strikes DEF GenerationFails
<1>3. CASE Expire(w)
  <2>1. ~At(w, "idle")
    BY <1>3 DEF Expire, At
  <2> QED
    BY <1>1, <1>3, <2>1, Runs, Strikes DEF Expire
<1>4. CASE Kill(w)
  <2>1. ~At(w, "idle") /\ Become(w, Idle) /\ FaultsAreBounded' /\ faults' = faults \cup {"kill"}
    BY <1>4, Runs, Strikes DEF Kill
  <2>2. Typed' /\ jobs'[w] = Idle
    BY <1>4, <2>1, QuietTurn DEF Kill
  <2> QED
    BY <2>1, <2>2, Runs
<1> QED
  BY <1>2, <1>3, <1>4 DEF Fault

-----------------------------------------------------------------------------
(* How a command begins, and what else happens.                            *)

CommandSteps == {<<"certify", "write_test">>, <<"fix", "write_patch">>,
                 <<"evaluate", "next_run">>}

LEMMA CommandIsAJob ==
  ASSUME TypeOK, latest \in Incidents, NEW cmd \in {"certify", "fix", "evaluate", "pr"},
         NEW step \in Steps, NEW limit \in 1..MaxAttempts
  PROVE  LET e == Command(cmd, step, limit)
         IN  /\ e \in Job /\ e.step = step /\ e.cmd = cmd /\ e.incident = latest
             /\ e.draft = Nothing
             /\ cmd = "evaluate" => e.found = [test |-> testFile, patch |-> patchFile]
<1> DEFINE runs == IF cmd = "evaluate" THEN MaxRuns ELSE 0
           found == IF cmd = "evaluate" THEN [test |-> testFile, patch |-> patchFile]
                                        ELSE [test |-> Nothing, patch |-> Nothing]
<1>1. runs \in 0..MaxRuns /\ 0 \in 0..MaxAttempts - 1 /\ 1 \in Exits
  BY CandidateAssumption DEF Exits
<1>2. found \in [test : TestCandidate \cup {Nothing}, patch : Patch \cup {Nothing}]
  BY DEF TypeOK
<1>3. Command(cmd, step, limit) =
        [step |-> step, cmd |-> cmd, incident |-> latest, limit |-> limit,
         tries |-> 0, exit |-> 1, draft |-> Nothing, examined |-> Nothing,
         examiner |-> Nothing, cited |-> Nothing, runs |-> runs, found |-> found]
  BY DEF Command
<1>4. cmd = "evaluate" => found = [test |-> testFile, patch |-> patchFile]
  OBVIOUS
<1> HIDE DEF runs, found
<1> QED
  BY <1>1, <1>2, <1>3, <1>4 DEF Job, Steps

LEMMA RestingTurn ==
  ASSUME Typed, NEW w \in Workers, At(w, "idle"), NEW e \in Job, Become(w, e), Formed(e),
         UNCHANGED <<latest, captured, files, trail, faults>>
  PROVE  Typed' /\ jobs[w] = Idle /\ jobs'[w] = e
  BY TypedQuietTurn, Turns, WorkerRests, FaultsStay DEF Typed

LEMMA BeginTurns ==
  ASSUME Typed, NEW w \in Workers, Begin(w)
  PROVE  /\ Typed' /\ jobs[w] = Idle /\ jobs'[w] \in Job
         /\ <<jobs'[w].cmd, jobs'[w].step>> \in CommandSteps
         /\ jobs'[w].incident = latest /\ jobs'[w].draft = Nothing
         /\ jobs'[w].cmd = "evaluate" => jobs'[w].found = [test |-> testFile, patch |-> patchFile]
<1>1. TypeOK /\ latest \in Incidents /\ 1 \in 1..MaxAttempts /\ MaxAttempts \in 1..MaxAttempts
  BY CandidateAssumption DEF Typed, TypeOK, Begin, Replayable, Incidents
<1>2. PICK cmd \in {"certify", "fix", "evaluate"}, step \in Steps, limit \in 1..MaxAttempts :
         Become(w, Command(cmd, step, limit)) /\ <<cmd, step>> \in CommandSteps
  BY <1>1 DEF Begin, CommandSteps, Steps
<1> DEFINE e == Command(cmd, step, limit)
<1>3. /\ e \in Job /\ e.step = step /\ e.cmd = cmd /\ e.incident = latest /\ e.draft = Nothing
      /\ cmd = "evaluate" => e.found = [test |-> testFile, patch |-> patchFile]
  BY <1>1, CommandIsAJob
<1>4. Become(w, e)
  BY <1>2
<1> HIDE DEF e
<1>5. Formed(e)
  <2>1. latest <= latest
    BY <1>1 DEF TypeOK
  <2>2. step \in {"write_test", "write_patch", "next_run"} /\ step \in StepsOf(cmd)
    BY <1>2 DEF CommandSteps, StepsOf
  <2> QED
    BY <1>3, <2>1, <2>2 DEF Formed, TestSteps, PatchSteps
<1> QED
  BY <1>2, <1>3, <1>4, <1>5, RestingTurn DEF Begin

LEMMA ReadEvidenceTurns ==
  ASSUME Typed, NEW w \in Workers, ReadEvidence(w)
  PROVE  /\ Typed' /\ jobs[w] = Idle /\ jobs'[w] \in Job
         /\ jobs'[w].cmd = "pr" /\ jobs'[w].step = "branch"
         /\ latest \in Incidents /\ jobs'[w].incident = latest
         /\ jobs'[w].draft = patchFile /\ patchFile # Nothing
         /\ evidence[latest] # Nothing /\ jobs'[w].cited = evidence[latest]
<1>1. TypeOK /\ latest \in Incidents /\ 1 \in 1..MaxAttempts /\ "branch" \in Steps
  BY CandidateAssumption DEF Typed, TypeOK, ReadEvidence, Incidents, Steps
<1> DEFINE b == Command("pr", "branch", 1)
           c == [b EXCEPT !.draft = patchFile]
           e == [c EXCEPT !.cited = evidence[latest]]
<1>2. b \in Job /\ b.step = "branch" /\ b.cmd = "pr" /\ b.incident = latest
  BY <1>1, CommandIsAJob
<1>3. patchFile # Nothing /\ evidence[latest] # Nothing /\ Become(w, e)
  BY DEF ReadEvidence, Evidence
<1>4. patchFile \in Patch /\ evidence[latest] \in Verification
  BY <1>1, <1>3 DEF TypeOK
<1> HIDE DEF b
<1>5. c.draft = patchFile /\ Agrees(b, c, {"draft"})
  BY <1>2, <1>4, SetsDraft
<1> HIDE DEF c
<1>6. e.cited = evidence[latest] /\ Agrees(c, e, {"cited"})
  BY <1>4, <1>5, SetsCited DEF Agrees
<1> HIDE DEF e
<1>7. /\ e \in Job /\ e.step = "branch" /\ e.cmd = "pr" /\ e.incident = latest
      /\ e.draft = patchFile
  BY <1>2, <1>5, <1>6 DEF Agrees, Fields
<1>8. Formed(e)
  <2>1. latest <= latest
    BY <1>1 DEF TypeOK
  <2> QED
    BY <1>4, <1>6, <1>7, <2>1 DEF Formed, StepsOf, TestSteps, PatchSteps
<1>9. Typed' /\ jobs[w] = Idle /\ jobs'[w] = e
  BY <1>3, <1>7, <1>8, RestingTurn DEF ReadEvidence
<1> QED
  BY <1>1, <1>3, <1>6, <1>7, <1>9

\* `testgen` writes the test and runs no loop.
LEMMA TestgenTypes ==
  ASSUME Typed, NEW w \in Workers, Testgen(w)
  PROVE  Typed' /\ jobs[w] = Idle /\ jobs' = jobs
<1>1. TypeOK /\ RowsAreTimely /\ latest \in Incidents /\ jobs[w] = Idle
  BY SMTT(30), WorkerRests, CandidateAssumption DEF Typed, TypeOK, Testgen, Replayable, Incidents
<1>2. testFile' \in TestCandidate
  BY <1>1 DEF Testgen, TestCandidate
<1>3. TypeOK'
  BY <1>1, <1>2 DEF Testgen, TypeOK, trail
<1>4. RowsAreTimely'
  BY <1>1 DEF Testgen, RowsAreTimely, trail
<1>5. \A v \in Workers : jobs'[v] # Idle => Formed(jobs[v])'
  BY DEF Typed, Testgen, Formed, Examined
<1> QED
  BY <1>1, <1>3, <1>4, <1>5 DEF Typed, Testgen

\* What was examined since a command began still is, when there is a newer incident.
LEMMA DetectTypes ==
  ASSUME Typed, Detect
  PROVE  Typed'
<1>1. TypeOK /\ RowsAreTimely /\ latest \in Nat /\ latest' = latest + 1 /\ latest' \in 0..MaxIncidents
  BY CandidateAssumption DEF Typed, TypeOK, Detect
<1>2. TypeOK'
  <2>1. captured' \subseteq 1..latest'
    BY <1>1 DEF TypeOK, Detect
  <2> QED
    BY <1>1, <2>1 DEF Detect, TypeOK, files, trail
<1>3. RowsAreTimely'
  BY <1>1, CandidateAssumption DEF Detect, RowsAreTimely, trail, Incidents
<1>4. ASSUME NEW v \in Workers, jobs'[v] # Idle PROVE Formed(jobs[v])'
  <2> DEFINE j == jobs[v]
  <2>1. jobs' = jobs /\ Formed(j) /\ j \in Job
    BY <1>1, <1>4 DEF Typed, Detect, TypeOK
  <2>2. j.incident \in Nat
    BY <2>1, CandidateAssumption DEF Job, Incidents
  <2>3. Examined(j) => Examined(j)'
    BY <1>1, <2>1, <2>2 DEF Examined
  <2>4. (j.incident <= latest)'
    BY <1>1, <2>1, <2>2 DEF Formed
  <2>5. j' = j
    BY <2>1
  <2> HIDE DEF j
  <2>6. Formed(j)'
    BY <2>1, <2>3, <2>4, <2>5 DEF Formed
  <2> QED
    BY <2>6 DEF j
<1> QED
  BY <1>2, <1>3, <1>4 DEF Typed

LEMMA CaptureTypes ==
  ASSUME Typed, Capture
  PROVE  Typed'
<1>1. TypeOK /\ RowsAreTimely
  BY DEF Typed
<1>2. latest \in 1..latest
  BY <1>1, CandidateAssumption DEF TypeOK, Capture
<1>3. TypeOK'
  BY <1>1, <1>2 DEF Capture, TypeOK, files, trail
<1>4. RowsAreTimely' /\ \A v \in Workers : jobs'[v] # Idle => Formed(jobs[v])'
  BY DEF Capture, Typed, RowsAreTimely, Formed, Examined, trail
<1> QED
  BY <1>3, <1>4 DEF Typed

LEMMA TypedInit == Init => Typed
<1> SUFFICES ASSUME Init PROVE Typed
  OBVIOUS
<1>1. faults \subseteq Faults /\ Cardinality(faults) <= MaxFaults
  <2>1. Cardinality(faults) = 0
    BY FS_EmptySet DEF Init
  <2> QED
    BY <2>1, CandidateAssumption DEF Init
<1> QED
  BY <1>1, CandidateAssumption DEF Init, Typed, TypeOK, RowsAreTimely, Incidents

LEMMA TypedStep == Typed /\ [Next]_vars => Typed'
<1> SUFFICES ASSUME Typed, [Next]_vars PROVE Typed'
  OBVIOUS
<1>1. CASE Detect
  BY <1>1, DetectTypes
<1>2. CASE Capture
  BY <1>2, CaptureTypes
<1>3. ASSUME NEW w \in Workers, Begin(w) \/ Testgen(w) \/ ReadEvidence(w)
      PROVE  Typed'
  BY <1>3, BeginTurns, TestgenTypes, ReadEvidenceTurns
<1>4. ASSUME NEW w \in Workers, Certify(w)
      PROVE  Typed'
  BY <1>4, WriteTestTurns, GateBadTurns, GateGoodTurns, AcceptTestTurns, RejectTestTurns,
     RecordTestTurns DEF Certify
<1>5. ASSUME NEW w \in Workers, Fix(w)
      PROVE  Typed'
  BY <1>5, WritePatchTurns, UnusableTurns, ValidateTurns, ChecksTurns, AcceptPatchTurns,
     RejectPatchTurns, RecordPatchTurns DEF Fix
<1>6. ASSUME NEW w \in Workers, Evaluate(w) \/ Branch(w) \/ Fault(w)
      PROVE  Typed'
  BY <1>6, BenchmarkTestTurns, BenchmarkPatchTurns, RestoreTurns, BranchTurns, FaultTurns
     DEF Evaluate
<1>7. CASE UNCHANGED vars
  BY <1>7 DEF vars, files, trail, Typed, TypeOK, Formed, Examined, RowsAreTimely
<1> QED
  BY <1>1, <1>2, <1>3, <1>4, <1>5, <1>6, <1>7 DEF Next, Step

LEMMA AlwaysTyped == Spec => []Typed
  BY TypedInit, TypedStep, PTL DEF Spec

\* Whatever shells do to each other's files, every command keeps to its own steps,
\* an examination is of an incident detected since its command began, and the
\* attempts, runs and faults stay within their bounds.
THEOREM TypeCorrect == Spec => []TypeOK
<1>1. Typed => TypeOK
  BY DEF Typed
<1> QED
  BY <1>1, AlwaysTyped, PTL

-----------------------------------------------------------------------------
(* What one shell can rely on.                                             *)

OnDisk(w) ==
    /\ jobs[w].step \in TestSteps => testFile = jobs[w].draft
    /\ jobs[w].step \in PatchSteps => patchFile = jobs[w].draft

Gated(w) ==
    "sandbox" \notin faults =>
        /\ At(w, "gate_good") => jobs[w].draft.exits.bad = 1
        /\ At(w, "judge_test") /\ jobs[w].exit = 0 => Discriminating(jobs[w].draft, jobs[w].incident)
        /\ At(w, "record_test") => Discriminating(jobs[w].draft, jobs[w].incident)

\* A patch that passed at the incident it was made for.
Judged(w) ==
    (At(w, "judge_patch") \/ At(w, "record_patch")) =>
        (jobs[w].exit = 0 /\ jobs[w].examined = jobs[w].incident =>
            SoundDespite(faults, jobs[w].draft, jobs[w].incident))

\* No row is about an incident detected since the command began.
Latest(w) == jobs[w] # Idle => \A i \in Incidents : evidence[i] # Nothing => i <= jobs[w].incident

\* A patch on disk is one that pr will not publish, or is sound.
Vouched(file) ==
    file # Nothing =>
        \A i \in Incidents : i = latest /\ evidence[i] # Nothing =>
            SoundDespite(faults, file, i)

Publishable(w) ==
    faults \cap {"kill", "expiry"} = {} =>
        /\ jobs[w] = Idle => Vouched(patchFile)
        /\ jobs[w] # Idle =>
              /\ jobs[w].cmd \in {"certify", "pr"} => Vouched(patchFile)
              /\ At(w, "write_patch") /\ jobs[w].cmd = "fix" => Vouched(patchFile)
              /\ jobs[w].cmd = "evaluate" => Vouched(jobs[w].found.patch)
              /\ At(w, "branch") => SoundDespite(faults, jobs[w].draft, jobs[w].incident)

\* The certified test a benchmark found is back when it proposes a patch.
PutBack(w) ==
    (jobs[w] # Idle /\ jobs[w].cmd = "evaluate" /\ jobs[w].found.test # Nothing) =>
        /\ jobs[w].step \in {"write_patch"} \cup PatchSteps => testFile = jobs[w].found.test
        /\ At(w, "checks") => jobs[w].examiner = jobs[w].found.test

\* A fix that has written a patch and writes another has removed the first.
Removed(w) ==
    (At(w, "write_patch") /\ jobs[w].cmd = "fix") => patchFile = Nothing \/ jobs[w].draft = Nothing

\* What the only shell does in a step.
LEMMA LoneStep ==
  ASSUME NEW w, Workers = {w}, [Next]_vars
  PROVE  \/ Detect \/ Capture \/ UNCHANGED vars
         \/ Begin(w) \/ Testgen(w) \/ ReadEvidence(w)
         \/ WriteTest(w) \/ GateBad(w) \/ GateGood(w) \/ AcceptTest(w) \/ RejectTest(w) \/ RecordTest(w)
         \/ WritePatch(w) \/ Unusable(w) \/ Validate(w) \/ Checks(w) \/ AcceptPatch(w)
         \/ RejectPatch(w) \/ RecordPatch(w)
         \/ BenchmarkTest(w) \/ BenchmarkPatch(w) \/ Restore(w) \/ Branch(w) \/ Fault(w)
  BY DEF Next, Step, Certify, Fix, Evaluate

Undisturbed(w) == OnDisk(w) /\ PutBack(w) /\ Removed(w)

LEMMA UndisturbedStep ==
  ASSUME NEW w, Workers = {w}, Typed, Undisturbed(w), [Next]_vars
  PROVE  Undisturbed(w)'
<1> USE DEF Undisturbed, OnDisk, PutBack, Removed, At, TestSteps, PatchSteps
<1>1. w \in Workers /\ Idle.step = "idle"
  BY DEF Idle
<1>2. CASE Detect \/ Capture \/ UNCHANGED vars
  BY <1>2 DEF Detect, Capture, vars, files, trail
<1>3. CASE Begin(w)
  BY <1>1, <1>3, BeginTurns, JobIsNotIdle DEF CommandSteps, Begin, files
<1>4. CASE Testgen(w)
  BY <1>1, <1>4, TestgenTypes
<1>5. CASE ReadEvidence(w)
  BY <1>1, <1>5, ReadEvidenceTurns
<1>6. CASE WriteTest(w)
  BY <1>1, <1>6, WriteTestTurns DEF Continues
<1>7. CASE GateBad(w)
  BY <1>1, <1>7, GateBadTurns DEF GateBad, files, Continues
<1>8. CASE GateGood(w)
  BY <1>1, <1>8, GateGoodTurns DEF GateGood, files, Continues
<1>9. CASE AcceptTest(w)
  BY <1>1, <1>9, AcceptTestTurns DEF AcceptTest, files, Continues, Ended
<1>10. CASE RejectTest(w)
  BY <1>1, <1>10, RejectTestTurns DEF Again, Continues, Ended
<1>11. CASE RecordTest(w)
  BY <1>1, <1>11, RecordTestTurns
<1>12. CASE WritePatch(w)
  BY <1>1, <1>12, WritePatchTurns DEF WritePatch, Continues
<1>13. CASE Unusable(w)
  BY <1>1, <1>13, UnusableTurns DEF Unusable, files, Again, Continues, Ended
<1>14. CASE Validate(w)
  BY <1>1, <1>14, ValidateTurns DEF Validate, files, Continues
<1>15. CASE Checks(w)
  BY <1>1, <1>15, ChecksTurns DEF Checks, files, Continues
<1>16. CASE AcceptPatch(w)
  BY <1>1, <1>16, AcceptPatchTurns DEF AcceptPatch, files, Continues, Ended
<1>17. CASE RejectPatch(w)
  BY <1>1, <1>17, RejectPatchTurns DEF RejectPatch, Again, Continues, Ended
<1>18. CASE RecordPatch(w)
  BY <1>1, <1>18, RecordPatchTurns
<1>19. CASE BenchmarkTest(w)
  BY <1>1, <1>19, BenchmarkTestTurns DEF Continues
<1>20. CASE BenchmarkPatch(w)
  BY <1>1, <1>20, BenchmarkPatchTurns DEF BenchmarkPatch, Continues
<1>21. CASE Restore(w)
  BY <1>1, <1>21, RestoreTurns
<1>22. CASE Branch(w)
  BY <1>1, <1>22, BranchTurns
<1>23. CASE Fault(w)
  BY <1>1, <1>23, FaultTurns DEF Continues, Ended
<1> QED
  BY LoneStep, <1>2, <1>3, <1>4, <1>5, <1>6, <1>7, <1>8, <1>9, <1>10, <1>11, <1>12, <1>13,
     <1>14, <1>15, <1>16, <1>17, <1>18, <1>19, <1>20, <1>21, <1>22, <1>23

-----------------------------------------------------------------------------
(* The gate: a recorded test discriminates.                                *)

Certified(w) == Gated(w) /\ CertifiedUnlessBroken

LEMMA CertifiedStep ==
  ASSUME NEW w, Workers = {w}, Typed, OnDisk(w), Certified(w), [Next]_vars
  PROVE  Certified(w)'
<1> USE DEF Certified, Gated, CertifiedUnlessBroken, CertifiedDiscriminates, At
<1>1. w \in Workers /\ Idle.step = "idle"
  BY DEF Idle
<1>2. CASE Detect \/ Capture \/ UNCHANGED vars
  BY <1>2 DEF Detect, Capture, vars, trail, Discriminating
<1>3. CASE Begin(w)
  BY <1>1, <1>3, BeginTurns, JobIsNotIdle DEF CommandSteps, Begin, trail
<1>4. CASE Testgen(w)
  BY <1>1, <1>4, TestgenTypes DEF Testgen, trail
<1>5. CASE ReadEvidence(w)
  BY <1>1, <1>5, ReadEvidenceTurns DEF ReadEvidence, trail
<1>6. CASE WriteTest(w)
  BY <1>1, <1>6, WriteTestTurns DEF WriteTest, trail
<1>7. CASE GateBad(w)
  <2>1. jobs[w].step = "gate_bad" /\ Formed(jobs[w]) /\ gated' = gated
    BY <1>1, <1>7, Runs DEF GateBad, trail
  <2>2. testFile = jobs[w].draft /\ testFile \in TestCandidate /\ testFile.incident = jobs[w].incident
    BY <2>1 DEF OnDisk, Formed, TestSteps
  <2>3. 1 \in Codes(jobs[w].incident, "bad") => testFile.exits.bad = 1
    BY <2>2 DEF Codes
  <2> QED
    BY <1>1, <1>7, <2>1, <2>2, <2>3, GateBadTurns
<1>8. CASE GateGood(w)
  <2>1. jobs[w].step = "gate_good" /\ Formed(jobs[w]) /\ gated' = gated
    BY <1>1, <1>8, Runs DEF GateGood, trail
  <2>2. testFile = jobs[w].draft /\ testFile \in TestCandidate /\ testFile.incident = jobs[w].incident
    BY <2>1 DEF OnDisk, Formed, TestSteps
  <2>3. 0 \in Codes(jobs[w].incident, "good") => testFile.exits.good = 0
    BY <2>2 DEF Codes
  <2>4. testFile.exits \in [bad : Exits, good : Exits]
    BY <2>2, CandidateAssumption DEF TestCandidate
  <2>5. testFile.exits.bad = 1 /\ testFile.exits.good = 0 => testFile.exits = [bad |-> 1, good |-> 0]
    BY <2>4
  <2>6. /\ jobs'[w].step = "judge_test" /\ jobs'[w].draft = testFile
        /\ jobs'[w].incident = jobs[w].incident /\ faults \subseteq faults'
        /\ jobs'[w].exit = 0 => testFile.exits.good = 0
    BY <1>1, <1>8, <2>2, <2>3, GateGoodTurns DEF Continues
  <2>7. "sandbox" \notin faults' /\ jobs'[w].exit = 0 => Discriminating(testFile, jobs[w].incident)
    BY <2>1, <2>2, <2>5, <2>6 DEF Discriminating
  <2> QED
    BY <2>1, <2>6, <2>7 DEF Discriminating
<1>9. CASE AcceptTest(w)
  BY <1>1, <1>9, AcceptTestTurns DEF AcceptTest, trail, Continues, Ended, Discriminating
<1>10. CASE RejectTest(w)
  BY <1>1, <1>10, RejectTestTurns DEF RejectTest, trail, Again, Continues, Ended
<1>11. CASE RecordTest(w)
  BY <1>1, <1>11, RecordTestTurns DEF RecordTest
<1>12. CASE WritePatch(w)
  BY <1>1, <1>12, WritePatchTurns DEF WritePatch, trail
<1>13. CASE Unusable(w)
  BY <1>1, <1>13, UnusableTurns DEF Unusable, trail, Again, Continues, Ended
<1>14. CASE Validate(w)
  BY <1>1, <1>14, ValidateTurns DEF Validate, trail
<1>15. CASE Checks(w)
  BY <1>1, <1>15, ChecksTurns DEF Checks, trail
<1>16. CASE AcceptPatch(w)
  BY <1>1, <1>16, AcceptPatchTurns DEF AcceptPatch, trail, Continues, Ended
<1>17. CASE RejectPatch(w)
  BY <1>1, <1>17, RejectPatchTurns DEF RejectPatch, trail, Again, Continues, Ended
<1>18. CASE RecordPatch(w)
  BY <1>1, <1>18, RecordPatchTurns DEF RecordPatch
<1>19. CASE BenchmarkTest(w)
  BY <1>1, <1>19, BenchmarkTestTurns DEF BenchmarkTest, trail
<1>20. CASE BenchmarkPatch(w)
  BY <1>1, <1>20, BenchmarkPatchTurns DEF BenchmarkPatch, trail
<1>21. CASE Restore(w)
  BY <1>1, <1>21, RestoreTurns DEF Restore, trail
<1>22. CASE Branch(w)
  BY <1>1, <1>22, BranchTurns DEF Branch
<1>23. CASE Fault(w)
  <2>1. gated' = gated
    BY <1>23 DEF Fault, GenerationFails, Expire, Kill, trail
  <2> QED
    BY <1>1, <1>23, <2>1, FaultTurns DEF Continues, Ended
<1> QED
  BY LoneStep, <1>2, <1>3, <1>4, <1>5, <1>6, <1>7, <1>8, <1>9, <1>10, <1>11, <1>12, <1>13,
     <1>14, <1>15, <1>16, <1>17, <1>18, <1>19, <1>20, <1>21, <1>22, <1>23

-----------------------------------------------------------------------------
(* The validation: a recorded patch is sound where it was examined.        *)

LEMMA PassedIsSound ==
  ASSUME NEW fs, NEW patch \in Patch, NEW i \in Incidents, patch.incident = i,
         InScope(patch.repair), Equivalent(patch.repair),
         "short" \notin fs => WorkRestored(Spans[i].good, patch.repair.work)
  PROVE  SoundDespite(fs, patch, i)
<1>1. Spans[i] \in [good : Nat, bad : Nat, sized : BOOLEAN]
  BY CandidateAssumption
<1>2. patch.repair \in Repairs
  BY DEF Patch
<1>3. patch.repair.work \in Nat
  BY <1>2, CandidateAssumption
<1>4. "short" \notin fs /\ Discriminates(Spans[i]) /\ ~Spans[i].sized
        => patch.repair.work < Spans[i].bad
  BY <1>1, <1>3, RestoredBeatsTheRegression
<1> QED
  BY <1>4 DEF SoundDespite

\* A further fault takes nothing from what holds despite those before it but the work.
LEMMA StaysSound ==
  ASSUME NEW fs, NEW gs, fs \subseteq gs
  PROVE  \A patch, i : SoundDespite(fs, patch, i) => SoundDespite(gs, patch, i)
  BY DEF SoundDespite

Validated(w) == Judged(w) /\ EvidenceIsSound

LEMMA ValidatedStep ==
  ASSUME NEW w, Workers = {w}, Typed, OnDisk(w), Validated(w), [Next]_vars
  PROVE  Validated(w)'
<1> USE DEF Validated, Judged, EvidenceIsSound, At
<1>1. w \in Workers /\ Idle.step = "idle"
  BY DEF Idle
<1>2. CASE Detect \/ Capture \/ UNCHANGED vars
  BY <1>2 DEF Detect, Capture, vars, trail
<1>3. CASE Begin(w)
  BY <1>1, <1>3, BeginTurns DEF CommandSteps, Begin, trail
<1>4. CASE Testgen(w)
  BY <1>1, <1>4, TestgenTypes DEF Testgen, trail
<1>5. CASE ReadEvidence(w)
  BY <1>1, <1>5, ReadEvidenceTurns DEF ReadEvidence, trail
<1>6. CASE WriteTest(w)
  BY <1>1, <1>6, WriteTestTurns DEF WriteTest, trail
<1>7. CASE GateBad(w)
  <2>1. \A patch, i : SoundDespite(faults, patch, i) => SoundDespite(faults', patch, i)
    BY <1>1, <1>7, GateBadTurns, StaysSound
  <2> QED
    BY <1>1, <1>7, <2>1, GateBadTurns DEF GateBad, trail
<1>8. CASE GateGood(w)
  <2>1. \A patch, i : SoundDespite(faults, patch, i) => SoundDespite(faults', patch, i)
    BY <1>1, <1>8, GateGoodTurns, StaysSound
  <2> QED
    BY <1>1, <1>8, <2>1, GateGoodTurns DEF GateGood, trail
<1>9. CASE AcceptTest(w)
  BY <1>1, <1>9, AcceptTestTurns DEF AcceptTest, trail, Continues, Ended
<1>10. CASE RejectTest(w)
  BY <1>1, <1>10, RejectTestTurns DEF RejectTest, trail, Again, Continues, Ended
<1>11. CASE RecordTest(w)
  BY <1>1, <1>11, RecordTestTurns DEF RecordTest
<1>12. CASE WritePatch(w)
  BY <1>1, <1>12, WritePatchTurns DEF WritePatch, trail
<1>13. CASE Unusable(w)
  BY <1>1, <1>13, UnusableTurns DEF Unusable, trail, Again, Continues, Ended
<1>14. CASE Validate(w)
  BY <1>1, <1>14, ValidateTurns DEF Validate, trail
<1>15. CASE Checks(w)
  <2>1. jobs[w].step = "checks" /\ Formed(jobs[w]) /\ jobs[w] \in Job /\ evidence' = evidence
    BY <1>1, <1>15, Runs DEF Checks, trail
  <2>2. /\ patchFile = jobs[w].draft /\ patchFile \in Patch /\ patchFile.incident = jobs[w].incident
        /\ jobs[w].incident \in Incidents
    BY <2>1 DEF OnDisk, Formed, PatchSteps, Job
  <2>3. /\ jobs'[w].step = "judge_patch" /\ jobs'[w].draft = patchFile
        /\ jobs'[w].incident = jobs[w].incident /\ jobs'[w].examined = jobs[w].examined
    BY <1>1, <1>15, <2>2, ChecksTurns DEF Continues
  <2>4. ASSUME jobs'[w].exit = 0, jobs[w].examined = jobs[w].incident
        PROVE  SoundDespite(faults', patchFile, jobs[w].incident)
    <3>1. Applied(jobs[w].incident) = {patchFile.repair}
      BY <2>2 DEF Applied
    <3>2. /\ InScope(patchFile.repair) /\ Equivalent(patchFile.repair)
          /\ "short" \notin faults' => WorkRestored(Spans[jobs[w].incident].good, patchFile.repair.work)
      BY <1>1, <1>15, <2>4, <3>1, ChecksTurns
    <3> QED
      BY <2>2, <3>2, PassedIsSound
  <2>5. \A patch, i : SoundDespite(faults, patch, i) => SoundDespite(faults', patch, i)
    BY <1>1, <1>15, ChecksTurns, StaysSound
  <2> QED
    BY <2>1, <2>3, <2>4, <2>5
<1>16. CASE AcceptPatch(w)
  BY <1>1, <1>16, AcceptPatchTurns DEF AcceptPatch, trail, Continues, Ended
<1>17. CASE RejectPatch(w)
  BY <1>1, <1>17, RejectPatchTurns DEF RejectPatch, trail, Again, Continues, Ended
<1>18. CASE RecordPatch(w)
  <2> DEFINE j == jobs[w]
             row == [patch |-> j.draft, examined |-> j.examined]
  <2>1. /\ j.step = "record_patch" /\ j.exit = 0 /\ j.draft.incident = j.incident
        /\ jobs'[w] = Idle /\ evidence \in [Incidents -> Verification \cup {Nothing}]
        /\ faults' = faults
    BY <1>1, <1>18, RecordPatchTurns DEF RecordPatch, Typed, TypeOK
  <2>2. row.patch.incident = row.examined => SoundDespite(faults', row.patch, row.examined)
    BY <2>1
  <2>3. evidence' = [evidence EXCEPT ![j.incident] = row] \/ evidence' = evidence
    BY <1>18 DEF RecordPatch
  <2> HIDE DEF row, j
  <2>4. EvidenceIsSound'
    BY <2>1, <2>2, <2>3
  <2> QED
    BY <1>1, <2>1, <2>4
<1>19. CASE BenchmarkTest(w)
  BY <1>1, <1>19, BenchmarkTestTurns DEF BenchmarkTest, trail
<1>20. CASE BenchmarkPatch(w)
  BY <1>1, <1>20, BenchmarkPatchTurns DEF BenchmarkPatch, trail
<1>21. CASE Restore(w)
  BY <1>1, <1>21, RestoreTurns DEF Restore, trail
<1>22. CASE Branch(w)
  BY <1>1, <1>22, BranchTurns DEF Branch
<1>23. CASE Fault(w)
  <2>1. evidence' = evidence /\ ~At(w, "idle")
    BY <1>23 DEF Fault, GenerationFails, Expire, Kill, trail
  <2>2. \A patch, i : SoundDespite(faults, patch, i) => SoundDespite(faults', patch, i)
    BY <1>1, <1>23, FaultTurns, StaysSound
  <2> QED
    BY <1>1, <1>23, <2>1, <2>2, FaultTurns DEF Continues, Ended
<1> QED
  BY LoneStep, <1>2, <1>3, <1>4, <1>5, <1>6, <1>7, <1>8, <1>9, <1>10, <1>11, <1>12, <1>13,
     <1>14, <1>15, <1>16, <1>17, <1>18, <1>19, <1>20, <1>21, <1>22, <1>23

-----------------------------------------------------------------------------
(* The citation: a branch cites what was measured at its own incident.     *)

\* No row is of an incident that is not detected yet, and the row of the latest one
\* was examined at it.
LEMMA NewestRow ==
  ASSUME Typed, NEW i \in Incidents, evidence[i] # Nothing
  PROVE  i <= latest /\ evidence[i].examined \in i..latest
<1>1. evidence[i].examined \in i..latest /\ i \in Nat /\ latest \in Nat
  BY CandidateAssumption DEF Typed, TypeOK, RowsAreTimely, Incidents
<1> QED
  BY <1>1

\* A step of one worker is no step of the others.
LEMMA OnlyOneTurns ==
  ASSUME TypeOK, NEW w \in Workers, NEW v \in Workers \ {w},
         Begin(w) \/ Testgen(w) \/ ReadEvidence(w) \/ Step(w) \/ Fault(w)
  PROVE  jobs'[v] = jobs[v]
<1> USE DEF TypeOK, Become, LoopEnds, Retry
<1>1. CASE Begin(w) \/ Testgen(w) \/ ReadEvidence(w)
  BY <1>1 DEF Begin, Testgen, ReadEvidence
<1>2. CASE Certify(w)
  BY <1>2 DEF Certify, WriteTest, GateBad, GateGood, AcceptTest, RejectTest, RecordTest
<1>3. CASE Fix(w)
  BY <1>3 DEF Fix, WritePatch, Unusable, Validate, Checks, AcceptPatch, RejectPatch, RecordPatch
<1>4. CASE Evaluate(w) \/ Branch(w)
  BY <1>4 DEF Evaluate, BenchmarkTest, BenchmarkPatch, Restore, Branch
<1>5. CASE Fault(w)
  BY <1>5 DEF Fault, GenerationFails, Expire, Kill
<1> QED
  BY <1>1, <1>2, <1>3, <1>4, <1>5 DEF Step

\* What pr cites was examined at the latest incident: there was none after it.
Cited ==
    /\ \A w \in Workers : At(w, "branch") => jobs[w].cited.examined = jobs[w].incident
    /\ CitesItsOwnIncident

LEMMA CitedStep ==
  ASSUME Typed, Cited, [Next]_vars
  PROVE  Cited'
<1> USE DEF CitesItsOwnIncident, At
<1>1. Idle.step = "idle"
  BY DEF Idle
<1>2. CASE Detect \/ Capture \/ UNCHANGED vars
  BY <1>2 DEF Detect, Capture, vars, trail, Cited
<1>3. ASSUME NEW w \in Workers, Begin(w) \/ Testgen(w) \/ ReadEvidence(w) \/ Step(w) \/ Fault(w)
      PROVE  Cited'
  <2> DEFINE Cites(v) == At(v, "branch") => jobs[v].cited.examined = jobs[v].incident
             Good == Cites(w)' /\ CitesItsOwnIncident'
  <2>10. \A v \in Workers \ {w} : jobs'[v] = jobs[v]
    BY <1>3, OnlyOneTurns DEF Typed
  <2> SUFFICES Good
    BY <2>10 DEF Cited
  <2>0. Cites(w) /\ CitesItsOwnIncident
    BY DEF Cited
  <2>1. CASE Begin(w)
    BY <1>1, <2>0, <2>1, BeginTurns DEF CommandSteps, Begin, trail
  <2>2. CASE Testgen(w)
    BY <1>1, <2>0, <2>2, TestgenTypes DEF Testgen, trail
  <2>3. CASE ReadEvidence(w)
    <3>1. /\ latest \in Incidents /\ jobs'[w].incident = latest /\ evidence[latest] # Nothing
          /\ jobs'[w].cited = evidence[latest] /\ branches' = branches
      BY <1>1, <2>3, ReadEvidenceTurns DEF ReadEvidence, trail
    <3>2. latest \in Nat /\ evidence[latest].examined \in latest..latest
      BY <3>1, NewestRow, CandidateAssumption DEF Incidents
    <3>3. evidence[latest].examined = latest
      BY <3>2
    <3> QED
      BY <2>0, <3>1, <3>3
  <2>4. CASE Certify(w)
    <3>1. jobs'[w].step # "branch"
      BY <1>1, <2>4, WriteTestTurns, GateBadTurns, GateGoodTurns, AcceptTestTurns, RejectTestTurns,
         RecordTestTurns DEF Certify, Continues, Ended, Again
    <3>2. branches' = branches
      BY <2>4 DEF Certify, WriteTest, GateBad, GateGood, AcceptTest, RejectTest, RecordTest, trail
    <3> QED
      BY <2>0, <3>1, <3>2
  <2>5. CASE Fix(w)
    <3>1. jobs'[w].step # "branch"
      BY <1>1, <2>5, WritePatchTurns, UnusableTurns, ValidateTurns, ChecksTurns, AcceptPatchTurns,
         RejectPatchTurns, RecordPatchTurns DEF Fix, Continues, Ended, Again
    <3>2. branches' = branches
      BY <2>5 DEF Fix, WritePatch, Unusable, Validate, Checks, AcceptPatch, RejectPatch,
         RecordPatch, trail
    <3> QED
      BY <2>0, <3>1, <3>2
  <2>6. CASE Evaluate(w)
    <3>1. jobs'[w].step # "branch"
      BY <1>1, <2>6, BenchmarkTestTurns, BenchmarkPatchTurns, RestoreTurns DEF Evaluate
    <3>2. branches' = branches
      BY <2>6 DEF Evaluate, BenchmarkTest, BenchmarkPatch, Restore, trail
    <3> QED
      BY <2>0, <3>1, <3>2
  <2>7. CASE Branch(w)
    <3> DEFINE j == jobs[w]
               row == [patch |-> j.draft, cited |-> j.cited]
    <3>1. /\ j.step = "branch" /\ jobs'[w] = Idle
          /\ branches \in [Incidents -> [patch : Patch, cited : Verification] \cup {Nothing}]
      BY <2>7, BranchTurns DEF Branch, Typed, TypeOK
    <3>2. row.cited.examined = j.incident
      BY <2>0, <3>1
    <3>3. branches' = [branches EXCEPT ![j.incident] = row] \/ branches' = branches
      BY <2>7 DEF Branch
    <3> HIDE DEF row, j
    <3> QED
      BY <1>1, <2>0, <3>1, <3>2, <3>3
  <2>8. CASE Fault(w)
    <3>1. jobs'[w].step # "branch"
      BY <1>1, <2>8, FaultTurns DEF Ended
    <3>2. branches' = branches
      BY <2>8 DEF Fault, GenerationFails, Expire, Kill, trail
    <3> QED
      BY <2>0, <3>1, <3>2
  <2> QED
    BY <1>3, <2>1, <2>2, <2>3, <2>4, <2>5, <2>6, <2>7, <2>8 DEF Step
<1> QED
  BY <1>2, <1>3 DEF Next

LEMMA LatestStep ==
  ASSUME NEW w, Workers = {w}, Typed, Latest(w), [Next]_vars
  PROVE  Latest(w)'
<1> USE DEF Latest, At
<1>1. w \in Workers /\ Idle.step = "idle"
  BY DEF Idle
<1>2. CASE Detect \/ Capture \/ UNCHANGED vars
  BY <1>2 DEF Detect, Capture, vars, trail
<1>3. CASE Begin(w)
  BY <1>1, <1>3, BeginTurns, NewestRow DEF CommandSteps, Begin, trail
<1>4. CASE Testgen(w)
  BY <1>1, <1>4, TestgenTypes DEF Testgen, trail
<1>5. CASE ReadEvidence(w)
  BY <1>1, <1>5, ReadEvidenceTurns, NewestRow DEF ReadEvidence, trail
<1>6. CASE WriteTest(w)
  BY <1>1, <1>6, WriteTestTurns, Runs DEF WriteTest, trail, Continues
<1>7. CASE GateBad(w)
  BY <1>1, <1>7, GateBadTurns, Runs DEF GateBad, trail, Continues
<1>8. CASE GateGood(w)
  BY <1>1, <1>8, GateGoodTurns, Runs DEF GateGood, trail, Continues
<1>9. CASE AcceptTest(w)
  BY <1>1, <1>9, AcceptTestTurns, Runs DEF AcceptTest, trail, Continues, Ended
<1>10. CASE RejectTest(w)
  BY <1>1, <1>10, RejectTestTurns, Runs DEF RejectTest, trail, Again, Continues, Ended
<1>11. CASE RecordTest(w)
  BY <1>1, <1>11, RecordTestTurns DEF RecordTest
<1>12. CASE WritePatch(w)
  BY <1>1, <1>12, WritePatchTurns, Runs DEF WritePatch, trail, Continues
<1>13. CASE Unusable(w)
  BY <1>1, <1>13, UnusableTurns, Runs DEF Unusable, trail, Again, Continues, Ended
<1>14. CASE Validate(w)
  BY <1>1, <1>14, ValidateTurns, Runs DEF Validate, trail, Continues
<1>15. CASE Checks(w)
  BY <1>1, <1>15, ChecksTurns, Runs DEF Checks, trail, Continues
<1>16. CASE AcceptPatch(w)
  BY <1>1, <1>16, AcceptPatchTurns, Runs DEF AcceptPatch, trail, Continues, Ended
<1>17. CASE RejectPatch(w)
  BY <1>1, <1>17, RejectPatchTurns, Runs DEF RejectPatch, trail, Again, Continues, Ended
<1>18. CASE RecordPatch(w)
  BY <1>1, <1>18, RecordPatchTurns DEF RecordPatch
<1>19. CASE BenchmarkTest(w)
  BY <1>1, <1>19, BenchmarkTestTurns, Runs DEF BenchmarkTest, trail, Continues
<1>20. CASE BenchmarkPatch(w)
  BY <1>1, <1>20, BenchmarkPatchTurns, Runs DEF BenchmarkPatch, trail, Continues
<1>21. CASE Restore(w)
  BY <1>1, <1>21, RestoreTurns DEF Restore, trail
<1>22. CASE Branch(w)
  BY <1>1, <1>22, BranchTurns DEF Branch
<1>23. CASE Fault(w)
  <2>1. evidence' = evidence /\ ~At(w, "idle")
    BY <1>23 DEF Fault, GenerationFails, Expire, Kill, trail
  <2> QED
    BY <1>1, <1>23, <2>1, FaultTurns, Runs DEF Continues, Ended
<1> QED
  BY LoneStep, <1>2, <1>3, <1>4, <1>5, <1>6, <1>7, <1>8, <1>9, <1>10, <1>11, <1>12, <1>13,
     <1>14, <1>15, <1>16, <1>17, <1>18, <1>19, <1>20, <1>21, <1>22, <1>23

-----------------------------------------------------------------------------
(* The publication: what is published is sound.                            *)

Published(w) == Publishable(w) /\ PublishedUnlessInterrupted

\* With a newer incident no file can be published: it has no evidence yet.
LEMMA NothingToPublish ==
  ASSUME Typed, Detect
  PROVE  \A i \in Incidents : i = latest' => evidence'[i] = Nothing
<1>1. latest' = latest + 1 /\ latest \in Nat /\ evidence' = evidence
  BY CandidateAssumption DEF Typed, TypeOK, Detect, trail
<1>2. ASSUME NEW i \in Incidents, i = latest', evidence[i] # Nothing
      PROVE  FALSE
  BY <1>1, <1>2, NewestRow
<1> QED
  BY <1>1, <1>2

LEMMA PublishedStep ==
  ASSUME NEW w, Workers = {w}, Typed, OnDisk(w), Judged(w), Latest(w), Published(w), [Next]_vars
  PROVE  Published(w)'
<1> USE DEF Published, Publishable, PublishedUnlessInterrupted, Vouched, At
<1>1. w \in Workers /\ Idle.step = "idle"
  BY DEF Idle
<1>2. CASE Detect
  BY <1>2, NothingToPublish DEF Detect, files, trail
<1>3. CASE Capture \/ UNCHANGED vars
  BY <1>3 DEF Capture, vars, files, trail
<1>4. CASE Begin(w)
  BY <1>1, <1>4, BeginTurns, JobIsNotIdle DEF CommandSteps, Begin, files, trail
<1>5. CASE Testgen(w)
  BY <1>1, <1>5, TestgenTypes DEF Testgen, trail
<1>6. CASE ReadEvidence(w)
  BY <1>1, <1>6, ReadEvidenceTurns DEF ReadEvidence, files, trail
<1>7. CASE WriteTest(w)
  BY <1>1, <1>7, WriteTestTurns, Runs DEF WriteTest, trail, Continues
<1>8. CASE GateBad(w)
  <2>1. \A patch, i : SoundDespite(faults, patch, i) => SoundDespite(faults', patch, i)
    BY <1>1, <1>8, GateBadTurns, StaysSound
  <2> QED
    BY <1>1, <1>8, <2>1, GateBadTurns, Runs DEF GateBad, files, trail, Continues
<1>9. CASE GateGood(w)
  <2>1. \A patch, i : SoundDespite(faults, patch, i) => SoundDespite(faults', patch, i)
    BY <1>1, <1>9, GateGoodTurns, StaysSound
  <2> QED
    BY <1>1, <1>9, <2>1, GateGoodTurns, Runs DEF GateGood, files, trail, Continues
<1>10. CASE AcceptTest(w)
  BY <1>1, <1>10, AcceptTestTurns, Runs DEF AcceptTest, files, trail, Continues, Ended
<1>11. CASE RejectTest(w)
  BY <1>1, <1>11, RejectTestTurns, Runs DEF RejectTest, trail, Again, Continues, Ended
<1>12. CASE RecordTest(w)
  BY <1>1, <1>12, RecordTestTurns, Runs DEF RecordTest, files
<1>13. CASE WritePatch(w)
  BY ZenonT(30), <1>1, <1>13, WritePatchTurns, Runs DEF WritePatch, trail, Continues, Formed, StepsOf, TestSteps, PatchSteps, Job
<1>14. CASE Unusable(w)
  BY <1>1, <1>14, UnusableTurns, Runs DEF Unusable, files, trail, Again, Continues, Ended
<1>15. CASE Validate(w)
  BY <1>1, <1>15, ValidateTurns, Runs DEF Validate, files, trail, Continues, Formed, StepsOf, TestSteps, PatchSteps, Job
<1>16. CASE Checks(w)
  <2>1. /\ jobs[w] # Idle /\ jobs[w].cmd \in {"fix", "evaluate"} /\ jobs[w].step = "checks"
        /\ UNCHANGED <<latest, files, trail>>
    BY <1>1, <1>16, Runs DEF Checks, Formed, StepsOf, TestSteps, PatchSteps, Job
  <2>2. /\ jobs'[w].step = "judge_patch" /\ jobs'[w].cmd = jobs[w].cmd
        /\ jobs'[w].found = jobs[w].found /\ faults \subseteq faults'
    BY <1>1, <1>16, ChecksTurns DEF Continues
  <2>3. \A patch, i : SoundDespite(faults, patch, i) => SoundDespite(faults', patch, i)
    BY <2>2, StaysSound
  <2> QED
    BY <1>1, <2>1, <2>2, <2>3 DEF files, trail
<1>17. CASE AcceptPatch(w)
  BY <1>1, <1>17, AcceptPatchTurns, Runs DEF AcceptPatch, files, trail, Continues, Ended
<1>18. CASE RejectPatch(w)
  BY <1>1, <1>18, RejectPatchTurns, Runs DEF RejectPatch, trail, Again, Continues, Ended
<1>19. CASE RecordPatch(w)
  <2> DEFINE j == jobs[w]
  <2>1. /\ j \in Job /\ j # Idle /\ j.step = "record_patch" /\ j.exit = 0 /\ Examined(j)
        /\ j.incident <= latest /\ patchFile = j.draft /\ jobs'[w] = Idle
        /\ UNCHANGED <<latest, patchFile, branches, faults>>
        /\ evidence \in [Incidents -> Verification \cup {Nothing}]
    BY <1>1, <1>19, RecordPatchTurns, Runs
       DEF RecordPatch, files, OnDisk, PatchSteps, Formed, Typed, TypeOK
  <2>2. j.incident \in Nat /\ latest \in Nat
    BY <2>1, CandidateAssumption DEF Job, Incidents, Typed, TypeOK
  <2>3. ASSUME NEW i \in Incidents, i = latest, evidence'[i] # Nothing
        PROVE  SoundDespite(faults, patchFile, i)
    <3>1. i # j.incident => evidence'[i] = evidence[i]
      BY <1>19, <2>1 DEF RecordPatch
    <3>2. i = j.incident
      BY <2>1, <2>2, <2>3, <3>1 DEF Latest
    <3>3. j.examined = j.incident
      BY <2>1, <2>2, <2>3, <3>2 DEF Examined
    <3> QED
      BY <2>1, <3>2, <3>3 DEF Judged
  <2> QED
    BY <2>1, <2>3
<1>20. CASE BenchmarkTest(w)
  BY <1>1, <1>20, BenchmarkTestTurns, Runs DEF BenchmarkTest, files, trail, Continues
<1>21. CASE BenchmarkPatch(w)
  BY <1>1, <1>21, BenchmarkPatchTurns, Runs DEF BenchmarkPatch, trail, Continues
<1>22. CASE Restore(w)
  BY <1>1, <1>22, RestoreTurns, Runs DEF Restore, trail
<1>23. CASE Branch(w)
  <2> DEFINE j == jobs[w]
             row == [patch |-> j.draft, cited |-> j.cited]
  <2>1. /\ j # Idle /\ j.step = "branch" /\ j.cmd = "pr" /\ jobs'[w] = Idle
        /\ UNCHANGED <<latest, patchFile, evidence, faults>>
        /\ branches \in [Incidents -> [patch : Patch, cited : Verification] \cup {Nothing}]
    BY <1>1, <1>23, BranchTurns, Runs
       DEF Branch, files, Formed, StepsOf, TestSteps, PatchSteps, Job, Typed, TypeOK
  <2>2. row.patch = j.draft
    OBVIOUS
  <2>3. branches' = [branches EXCEPT ![j.incident] = row] \/ branches' = branches
    BY <1>23 DEF Branch
  <2> HIDE DEF row
  <2>4. PublishedUnlessInterrupted'
    BY <2>1, <2>2, <2>3
  <2> QED
    BY <2>1, <2>4
<1>24. CASE Fault(w)
  <2>1. CASE GenerationFails(w)
    <3>1. /\ jobs[w].step \in {"write_test", "write_patch"} /\ ~At(w, "idle")
          /\ UNCHANGED <<latest, files, trail>>
      BY <2>1 DEF GenerationFails
    <3>2. /\ jobs[w] \in Job /\ jobs[w] # Idle /\ Formed(jobs[w]) /\ faults \subseteq faults'
          /\ Ended(jobs[w], jobs'[w]) \/ "kill" \in faults'
          /\ \A patch, i : SoundDespite(faults, patch, i) => SoundDespite(faults', patch, i)
      BY <1>1, <1>24, <3>1, FaultTurns, Runs, StaysSound
    <3> QED
      BY <1>1, <3>1, <3>2
         DEF files, trail, Continues, Ended, Formed, StepsOf, TestSteps, PatchSteps, Job
  <2>2. CASE Expire(w) \/ Kill(w)
    <3>1. faults' \cap {"kill", "expiry"} # {}
      BY <1>1, <2>2, Strikes DEF Expire, Kill, Typed
    <3> QED
      BY <3>1
  <2> QED
    BY <1>24, <2>1, <2>2 DEF Fault
<1> QED
  BY LoneStep, <1>2, <1>3, <1>4, <1>5, <1>6, <1>7, <1>8, <1>9, <1>10, <1>11, <1>12, <1>13,
     <1>14, <1>15, <1>16, <1>17, <1>18, <1>19, <1>20, <1>21, <1>22, <1>23, <1>24

-----------------------------------------------------------------------------
(* The theorems of one shell.                                              *)

Alone(w) == Undisturbed(w) /\ Certified(w) /\ Validated(w) /\ Latest(w) /\ Published(w)

LEMMA AloneInit ==
  ASSUME NEW w, Workers = {w}, Init
  PROVE  Alone(w)
<1>1. w \in Workers /\ jobs[w] = Idle /\ Idle.step = "idle"
  BY DEF Init, Idle
<1> QED
  BY <1>1 DEF Init, Alone, Undisturbed, OnDisk, PutBack, Removed, Certified, Gated,
     CertifiedUnlessBroken, CertifiedDiscriminates, Validated, Judged, EvidenceIsSound,
     Latest, Published, Publishable, PublishedUnlessInterrupted,
     Vouched, At, TestSteps, PatchSteps

LEMMA AlwaysAlone ==
  ASSUME NEW w, Workers = {w}
  PROVE  Spec => [](Typed /\ Alone(w))
<1>1. Init => Alone(w)
  BY AloneInit
<1>2. Typed /\ Alone(w) /\ [Next]_vars => Alone(w)'
  <2> SUFFICES ASSUME Typed, Alone(w), [Next]_vars PROVE Alone(w)'
    OBVIOUS
  <2>1. Undisturbed(w) /\ Certified(w) /\ Validated(w) /\ Latest(w) /\ Published(w)
    BY DEF Alone
  <2>2. OnDisk(w) /\ Judged(w)
    BY <2>1 DEF Undisturbed, Validated
  <2>3. Undisturbed(w)' /\ Certified(w)' /\ Validated(w)' /\ Latest(w)' /\ Published(w)'
    BY <2>1, <2>2, UndisturbedStep, CertifiedStep, ValidatedStep, LatestStep, PublishedStep
  <2> QED
    BY <2>3 DEF Alone
<1> QED
  BY <1>1, <1>2, TypedInit, TypedStep, PTL DEF Spec

\* The gate of a shell alone: a test recorded as certified failed at the bad commit
\* of its incident and passed at the good one, unless a sandbox failed under it,
\* for any number of attempts, incidents and benchmarks, and whatever is killed.
THEOREM TheGateIsTrue ==
  ASSUME NEW w, Workers = {w}
  PROVE  Spec => []CertifiedUnlessBroken
<1>1. Typed /\ Alone(w) => CertifiedUnlessBroken
  BY DEF Alone, Certified
<1> QED
  BY <1>1, AlwaysAlone, PTL

\* The validation of a shell alone: a patch recorded as validated at the incident it
\* was made for keeps within the causing diff and answers what the good build answers,
\* whatever test examined it and whatever was killed or timed out. As long as no replay
\* counted short it also does the good build's work within the tolerance, and less than
\* the bad build's where the evidence is of a threshold that discriminates: that part is
\* the replays' word, and validate never asks whether they were clean.
THEOREM TheEvidenceIsTrue ==
  ASSUME NEW w, Workers = {w}
  PROVE  Spec => []EvidenceIsSound
<1>1. Typed /\ Alone(w) => EvidenceIsSound
  BY DEF Alone, Validated
<1> QED
  BY <1>1, AlwaysAlone, PTL

\* The evidence of a branch was measured at the incident of the branch, though fix,
\* validate and pr each read the latest incident by themselves: for any number of
\* shells.
THEOREM TheCitationIsTrue == Spec => []CitesItsOwnIncident
<1>1. Init => Cited
  BY DEF Init, Cited, CitesItsOwnIncident, At, Idle
<1>2. Typed /\ Cited /\ [Next]_vars => Cited'
  BY CitedStep
<1>3. Cited => CitesItsOwnIncident
  BY DEF Cited
<1> QED
  BY <1>1, <1>2, <1>3, AlwaysTyped, PTL DEF Spec

\* What a shell alone publishes is sound, its work as far as no replay counted short,
\* unless a process was killed or timed out:
\* the file pr reads may be rejected, replaced, benchmarked or from an older
\* incident, and is published only when it is the patch the evidence is about.
THEOREM ThePublishedIsSound ==
  ASSUME NEW w, Workers = {w}
  PROVE  Spec => []PublishedUnlessInterrupted
<1>1. Typed /\ Alone(w) => PublishedUnlessInterrupted
  BY DEF Alone, Published
<1> QED
  BY <1>1, AlwaysAlone, PTL

\* A benchmark that found a certified test has every patch judged by it, however
\* many tests its models wrote over it.
THEOREM TheBenchmarkIsFair ==
  ASSUME NEW w, Workers = {w}
  PROVE  Spec => []JudgedByTheCertified
<1>1. Typed /\ Alone(w) => JudgedByTheCertified
  <2> SUFFICES ASSUME Typed, Alone(w), At(w, "checks"), jobs[w].cmd = "evaluate",
                      jobs[w].found.test # Nothing
               PROVE  jobs[w].examiner = jobs[w].found.test
    BY DEF JudgedByTheCertified
  <2>1. jobs[w] # Idle
    BY DEF At, Idle
  <2> QED
    BY <2>1 DEF Alone, Undisturbed, PutBack
<1> QED
  BY <1>1, AlwaysAlone, PTL

\* What a loop of a shell alone leaves behind is the candidate its examiner passed,
\* or none: in the last attempt as in every other.
THEOREM NothingRejectedStays ==
  ASSUME NEW w, Workers = {w}
  PROVE  Spec => NothingRejectedIsKept
<1> DEFINE Kept(file) == file = Nothing \/ (jobs[w].exit = 0 /\ file = jobs[w].draft)
           Good ==
             /\ jobs[w].cmd = "certify" => Kept(testFile')
             /\ jobs[w].cmd = "fix" =>
                   Kept(patchFile') \/ (jobs[w].draft = Nothing /\ patchFile' = patchFile)
<1>1. ASSUME Typed, Alone(w), Next, ~At(w, "idle"), jobs'[w] = Idle, faults' = faults
      PROVE  Good
  <2>1. w \in Workers /\ jobs[w] \in Job /\ jobs[w] # Idle /\ Formed(jobs[w])
    BY <1>1, Runs
  <2>2. Undisturbed(w) /\ [Next]_vars
    BY <1>1 DEF Alone
  <2>3. \A e \in Job : jobs'[w] # e
    BY <1>1, JobIsNotIdle
  <2>4. ~Fault(w) /\ ~Detect /\ ~Capture /\ ~UNCHANGED vars
    BY <1>1, <2>1 DEF Fault, GenerationFails, Expire, Kill, Strike, Detect, Capture, vars
  <2>5. ~Begin(w) /\ ~Testgen(w) /\ ~ReadEvidence(w)
    BY <1>1 DEF Begin, Testgen, ReadEvidence
  <2>6. /\ ~WriteTest(w) /\ ~GateBad(w) /\ ~GateGood(w) /\ (~AcceptTest(w) \/ jobs[w].cmd = "evaluate")
        /\ ~WritePatch(w) /\ ~Validate(w) /\ ~Checks(w) /\ (~AcceptPatch(w) \/ jobs[w].cmd = "evaluate")
        /\ ~BenchmarkTest(w) /\ ~BenchmarkPatch(w)
    BY <1>1, <2>1, <2>3, WriteTestTurns, GateBadTurns, GateGoodTurns, AcceptTestTurns,
       WritePatchTurns, ValidateTurns, ChecksTurns, AcceptPatchTurns, BenchmarkTestTurns,
       BenchmarkPatchTurns DEF Continues
  <2>7. CASE RejectTest(w)
    BY <1>1, <2>1, <2>7, RejectTestTurns DEF RejectTest
  <2>8. CASE RecordTest(w)
    BY <1>1, <2>1, <2>2, <2>8, RecordTestTurns DEF RecordTest, files, Undisturbed, OnDisk, TestSteps
  <2>9. CASE Unusable(w)
    BY <1>1, <2>1, <2>2, <2>9, UnusableTurns DEF Unusable, files, Undisturbed, Removed, At
  <2>10. CASE RejectPatch(w)
    BY <1>1, <2>1, <2>10, RejectPatchTurns DEF RejectPatch
  <2>11. CASE RecordPatch(w)
    BY <1>1, <2>1, <2>2, <2>11, RecordPatchTurns DEF RecordPatch, files, Undisturbed, OnDisk, PatchSteps
  <2>12. CASE Restore(w)
    BY <1>1, <2>1, <2>12, RestoreTurns
  <2>13. CASE Branch(w)
    <3>1. jobs[w].cmd = "pr"
      BY <2>1, <2>13 DEF Branch, At, Formed, StepsOf, TestSteps, PatchSteps, Job
    <3> QED
      BY <3>1
  <2>14. CASE jobs[w].cmd = "evaluate"
    BY <2>14
  <2> QED
    BY LoneStep, <2>2, <2>4, <2>5, <2>6, <2>7, <2>8, <2>9, <2>10, <2>11, <2>12, <2>13, <2>14
<1>2. Typed /\ Alone(w) /\ [Next]_vars => [KeepsWhatPassed]_vars
  BY <1>1 DEF KeepsWhatPassed
<1> QED
  BY <1>2, AlwaysAlone, PTL DEF Spec, NothingRejectedIsKept

-----------------------------------------------------------------------------
(* A command is bounded.                                                   *)

\* The most steps of an attempt from each of its steps on.
Stage(step) ==
    CASE step \in {"write_test", "write_patch"}   -> 5
      [] step \in {"gate_bad", "validate"}        -> 4
      [] step \in {"gate_good", "checks"}         -> 3
      [] step \in {"judge_test", "judge_patch"}   -> 2
      [] OTHER                                    -> 1

\* The most steps of a benchmark's run: its attempts, and the step it begins with.
Round == 5 * MaxAttempts + 1

\* The most steps that remain of a command: those of the attempt, of the attempts
\* after it and, for a benchmark, of its other runs and of putting the files back.
Left(j) ==
    CASE j.step = "idle"      -> 0
      [] j.step = "next_run"  -> j.runs * Round + 1
      [] OTHER                -> (IF j.cmd = "evaluate" THEN j.runs * Round + 1 ELSE 0)
                                     + 5 * (j.limit - 1 - j.tries) + Stage(j.step)

\* An attempt is never one too many.
Counted == \A w \in Workers : jobs[w] # Idle => jobs[w].tries < jobs[w].limit

\* Every step of a command uses up one of those that are left, and nothing that other
\* shells do to its files, and no fault, gives one back.
CommandsAdvance ==
    [][\A w \in Workers :
          /\ ~At(w, "idle") => Left(jobs'[w]) <= Left(jobs[w])
          /\ Step(w) => Left(jobs'[w]) < Left(jobs[w])]_vars

\* Command j goes on to e, with less to do.
Spends(j, e) ==
    \/ e = Idle
    \/ e \in Job /\ e.tries < e.limit /\ Left(e) < Left(j)

LEMMA RoundType ==
  /\ Round \in Nat /\ Round = 5 * MaxAttempts + 1
  /\ \A r \in Nat : r * Round \in Nat /\ (r > 0 => (r - 1) * Round + Round = r * Round)
<1>1. Round \in Nat /\ Round = 5 * MaxAttempts + 1
  BY CandidateAssumption DEF Round
<1> HIDE DEF Round
<1> QED
  BY <1>1, SMT

LEMMA RoundIsMonotonic ==
  ASSUME NEW r \in 0..MaxRuns
  PROVE  r * Round <= MaxRuns * Round
<1>1. Round \in Nat /\ MaxRuns \in Nat /\ r \in Nat /\ r <= MaxRuns
  BY RoundType, CandidateAssumption
<1> HIDE DEF Round
<1>2. (MaxRuns - r) * Round \in Nat
  BY <1>1, SMT
<1>3. MaxRuns * Round = r * Round + (MaxRuns - r) * Round
  BY <1>1, SMT
<1>4. r * Round \in Nat
  BY <1>1, RoundType
<1> QED
  BY <1>2, <1>3, <1>4

\* The numbers of a command.
LEMMA JobNumbers ==
  ASSUME NEW j \in Job
  PROVE  /\ j.limit \in Nat /\ j.tries \in Nat /\ j.runs \in Nat /\ j.limit <= MaxAttempts
         /\ j.runs \in 0..MaxRuns /\ j.runs * Round \in Nat
         /\ Stage(j.step) \in 1..5 /\ j.step # "idle"
<1>1. j.limit \in 1..MaxAttempts /\ j.tries \in 0..MaxAttempts - 1 /\ j.runs \in 0..MaxRuns
  BY DEF Job
<1>2. Stage(j.step) \in 1..5
  BY DEF Stage
<1> QED
  BY <1>1, <1>2, RoundType, JobIsNotIdle, CandidateAssumption

LEMMA LeftType ==
  ASSUME NEW j \in Job, j.tries < j.limit
  PROVE  Left(j) \in 1..((MaxRuns + 1) * Round)
<1>1. /\ j.limit \in Nat /\ j.tries \in Nat /\ j.limit <= MaxAttempts
      /\ j.runs * Round \in Nat /\ Stage(j.step) \in 1..5 /\ j.step # "idle"
  BY JobNumbers
<1>2. j.runs * Round <= MaxRuns * Round /\ MaxRuns * Round \in Nat
  BY RoundIsMonotonic, RoundType, JobNumbers, CandidateAssumption
<1>3. (MaxRuns + 1) * Round = MaxRuns * Round + Round
  <2>1. MaxRuns \in Nat /\ Round \in Nat
    BY RoundType, CandidateAssumption
  <2> HIDE DEF Round
  <2> QED
    BY <2>1, SMT
<1>4. Round = 5 * MaxAttempts + 1 /\ MaxAttempts \in Nat \ {0}
  BY RoundType, CandidateAssumption
<1> DEFINE product == j.runs * Round
           most == MaxRuns * Round
<1>5. product \in Nat /\ most \in Nat /\ product <= most
  BY <1>1, <1>2
<1>6. Left(j) = IF j.step = "next_run" THEN product + 1
                ELSE (IF j.cmd = "evaluate" THEN product + 1 ELSE 0)
                        + 5 * (j.limit - 1 - j.tries) + Stage(j.step)
  BY <1>1 DEF Left
<1> HIDE DEF product, most
<1>7. Left(j) \in Nat /\ Left(j) >= 1 /\ Left(j) <= most + Round
  BY <1>1, <1>4, <1>5, <1>6
<1> QED
  BY <1>3, <1>4, <1>7 DEF most

\* The next step of the same attempt.
LEMMA StageSpends ==
  ASSUME NEW j \in Job, j.tries < j.limit, NEW e, NEW changed,
         changed \subseteq {"step", "exit", "draft", "examined", "examiner"}, Agrees(j, e, changed),
         j.step # "next_run", e.step # "next_run", Stage(e.step) < Stage(j.step)
  PROVE  Spends(j, e)
<1>1. e \in Job /\ e.cmd = j.cmd /\ e.limit = j.limit /\ e.tries = j.tries /\ e.runs = j.runs
  BY DEF Agrees, Fields
<1>2. /\ j.limit \in Nat /\ j.tries \in Nat /\ j.runs * Round \in Nat
      /\ Stage(j.step) \in 1..5 /\ Stage(e.step) \in 1..5 /\ j.step # "idle" /\ e.step # "idle"
  BY <1>1, JobNumbers
<1> DEFINE rest == (IF j.cmd = "evaluate" THEN j.runs * Round + 1 ELSE 0)
                       + 5 * (j.limit - 1 - j.tries)
<1>3. Left(j) = rest + Stage(j.step) /\ Left(e) = rest + Stage(e.step)
  BY <1>1, <1>2 DEF Left
<1>4. rest \in Int
  BY <1>2
<1> HIDE DEF rest
<1>5. Left(e) < Left(j)
  BY <1>2, <1>3, <1>4
<1> QED
  BY <1>1, <1>5 DEF Spends

\* The loop is over, for a benchmark with a run less.
LEMMA LoopEndsSpends ==
  ASSUME TypeOK, NEW w \in Workers, jobs[w] \in Job, jobs[w].tries < jobs[w].limit,
         jobs[w].step # "next_run", LoopEnds(w)
  PROVE  Spends(jobs[w], jobs'[w])
<1> DEFINE j == jobs[w]
<1>1. CASE j.cmd = "evaluate"
  <2> DEFINE a == Afresh(j, "next_run")
             b == [a EXCEPT !.draft = Nothing]
             e == [b EXCEPT !.tries = 0]
  <2>1. Agrees(j, a, {"step", "exit", "examined", "examiner"}) /\ a.step = "next_run"
    BY AfreshIsAJob DEF Steps
  <2> HIDE DEF a
  <2>2. Agrees(a, b, {"draft"})
    BY <2>1, SetsDraft DEF Agrees
  <2> HIDE DEF b
  <2>3. 0 \in 0..MaxAttempts - 1
    BY CandidateAssumption
  <2>4. Agrees(b, e, {"tries"}) /\ e.tries = 0
    BY <2>2, <2>3, SetsTries DEF Agrees
  <2>5. Become(w, e)
    BY <1>1 DEF LoopEnds, a, b, e
  <2> HIDE DEF e
  <2>6. /\ e \in Job /\ e.step = "next_run" /\ e.limit = j.limit /\ e.runs = j.runs
    BY <2>1, <2>2, <2>4 DEF Agrees, Fields
  <2>7. /\ j.limit \in Nat /\ j.tries \in Nat /\ j.runs * Round \in Nat
        /\ Stage(j.step) \in 1..5 /\ j.step # "idle"
    BY JobNumbers
  <2> DEFINE product == j.runs * Round
  <2>8. /\ Left(e) = product + 1
        /\ Left(j) = product + 1 + 5 * (j.limit - 1 - j.tries) + Stage(j.step)
    BY <1>1, <2>6, <2>7 DEF Left
  <2>9. product \in Nat
    BY <2>7
  <2> HIDE DEF product
  <2>10. Left(e) < Left(j) /\ e.tries < e.limit
    BY <2>4, <2>6, <2>7, <2>8, <2>9
  <2>11. jobs'[w] = e
    BY <2>5, <2>6, Turns
  <2> QED
    BY <2>6, <2>10, <2>11 DEF Spends
<1>2. CASE j.cmd # "evaluate"
  BY <1>2, Turns DEF LoopEnds, Spends
<1> QED
  BY <1>1, <1>2

\* An attempt is rejected: the next one is left, with a try less to go.
LEMMA RetrySpends ==
  ASSUME TypeOK, NEW w \in Workers, jobs[w] \in Job, jobs[w].tries < jobs[w].limit,
         jobs[w].step # "next_run", NEW step \in {"write_test", "write_patch"}, Retry(w, step)
  PROVE  Spends(jobs[w], jobs'[w])
<1> DEFINE j == jobs[w]
           e == [Afresh(j, step) EXCEPT !.tries = @ + 1]
<1>1. CASE j.tries + 1 < j.limit
  <2>1. /\ j.limit \in Nat /\ j.tries \in Nat /\ j.runs * Round \in Nat
        /\ Stage(j.step) \in 1..5 /\ j.step # "idle" /\ j.limit <= MaxAttempts
    BY JobNumbers
  <2>2. j.tries + 1 \in 0..MaxAttempts - 1
    BY <1>1, <2>1, CandidateAssumption
  <2> DEFINE a == Afresh(j, step)
  <2>3. Agrees(j, a, {"step", "exit", "examined", "examiner"}) /\ a.step = step
    BY AfreshIsAJob DEF Steps
  <2>4. e = [a EXCEPT !.tries = a.tries + 1] /\ Become(w, e)
    BY <1>1 DEF Retry
  <2> HIDE DEF a, e
  <2>5. a.tries = j.tries /\ a \in Job
    BY <2>3 DEF Agrees, Fields
  <2>6. Agrees(a, e, {"tries"}) /\ e.tries = j.tries + 1
    BY <2>2, <2>4, <2>5, SetsTries
  <2>7. e \in Job /\ e.step = step /\ e.cmd = j.cmd /\ e.limit = j.limit /\ e.runs = j.runs
    BY <2>3, <2>6 DEF Agrees, Fields
  <2> DEFINE rest == IF j.cmd = "evaluate" THEN j.runs * Round + 1 ELSE 0
  <2>8. /\ Left(e) = rest + 5 * (j.limit - 1 - (j.tries + 1)) + 5
        /\ Left(j) = rest + 5 * (j.limit - 1 - j.tries) + Stage(j.step)
    BY <2>1, <2>6, <2>7 DEF Left, Stage
  <2>9. rest \in Int
    BY <2>1
  <2> HIDE DEF rest
  <2>10. Left(e) < Left(j) /\ e.tries < e.limit
    BY <1>1, <2>1, <2>6, <2>7, <2>8, <2>9
  <2>11. jobs'[w] = e
    BY <2>4, <2>7, Turns
  <2> QED
    BY <2>7, <2>10, <2>11 DEF Spends
<1>2. CASE ~(j.tries + 1 < j.limit)
  BY <1>2, LoopEndsSpends DEF Retry
<1> QED
  BY <1>1, <1>2

\* A benchmark begins a run, with a whole run less to go.
LEMMA RunSpends ==
  ASSUME Typed, NEW w \in Workers, At(w, "next_run"), jobs[w].tries < jobs[w].limit,
         jobs[w].runs > 0, NEW step \in {"write_test", "write_patch"},
         Become(w, [jobs[w] EXCEPT !.step = step, !.runs = @ - 1])
  PROVE  Spends(jobs[w], jobs'[w])
<1> DEFINE j == jobs[w]
           e == [j EXCEPT !.step = step, !.runs = @ - 1]
<1>1. TypeOK /\ j \in Job /\ j.step = "next_run" /\ Formed(j)
  BY Runs DEF At
<1>2. j.cmd = "evaluate" /\ step \in Steps
  BY <1>1 DEF Formed, StepsOf, TestSteps, PatchSteps, Job, Steps
<1>3. e.step = step /\ Agrees(j, e, {"step", "runs"}) /\ e.runs = j.runs - 1
  <2>1. e.step = step /\ Agrees(j, e, {"step", "runs"})
    BY <1>1, <1>2, SetsStepRuns
  <2>2. e.runs = j.runs - 1
    BY <1>1 DEF Job
  <2> QED
    BY <2>1, <2>2
<1>4. Become(w, e)
  OBVIOUS
<1> HIDE DEF e
<1>5. e \in Job /\ e.cmd = j.cmd /\ e.limit = j.limit /\ e.tries = j.tries
  BY <1>3 DEF Agrees, Fields
<1>6. /\ j.limit \in Nat /\ j.tries \in Nat /\ j.runs \in Nat /\ j.limit <= MaxAttempts
      /\ j.runs * Round \in Nat /\ e.runs * Round \in Nat
      /\ e.runs * Round + Round = j.runs * Round
  BY <1>1, <1>3, <1>5, JobNumbers, RoundType
<1> DEFINE before == j.runs * Round
           after == e.runs * Round
<1>7. /\ Left(j) = before + 1
      /\ Left(e) = after + 1 + 5 * (j.limit - 1 - j.tries) + 5
  BY <1>1, <1>2, <1>3, <1>5 DEF Left, Stage
<1>8. before \in Nat /\ after \in Nat /\ after + (5 * MaxAttempts + 1) = before
  BY <1>6, RoundType
<1> HIDE DEF before, after
<1>9. Left(e) < Left(j)
  BY <1>6, <1>7, <1>8, CandidateAssumption
<1>10. jobs'[w] = e
  BY <1>1, <1>4, <1>5, Turns
<1> QED
  BY <1>5, <1>9, <1>10 DEF Spends

\* Every step of every command.
LEMMA CertifySpends ==
  ASSUME Typed, Counted, NEW w \in Workers, Certify(w)
  PROVE  Spends(jobs[w], jobs'[w])
<1> DEFINE j == jobs[w]
<1>1. ~At(w, "idle")
  BY DEF Certify, WriteTest, GateBad, GateGood, AcceptTest, RejectTest, RecordTest, At
<1>2. TypeOK /\ j \in Job /\ j.tries < j.limit
  BY <1>1, Runs DEF Counted
<1>3. /\ Stage("write_test") = 5 /\ Stage("gate_bad") = 4 /\ Stage("gate_good") = 3
      /\ Stage("judge_test") = 2 /\ Stage("record_test") = 1
  BY DEF Stage
<1>4. CASE WriteTest(w)
  <2>1. PICK test \in TestCandidate : Become(w, [j EXCEPT !.step = "gate_bad", !.draft = test])
    BY <1>2, <1>4 DEF WriteTest, TestCandidate, Job
  <2> DEFINE e == [j EXCEPT !.step = "gate_bad", !.draft = test]
  <2>2. "gate_bad" \in Steps /\ test \in TestCandidate \cup Patch
    BY DEF Steps
  <2>3. e.step = "gate_bad" /\ e.draft = test /\ Agrees(j, e, {"step", "draft"})
    <3>1. "gate_bad" \in Steps /\ test \in TestCandidate \cup Patch /\ j \in Job
      BY <1>2, <2>2
    <3> QED
      BY <3>1, SetsStepDraft
  <2>4. Become(w, e) /\ j.step = "write_test"
    BY <1>4, <2>1 DEF WriteTest, At
  <2> HIDE DEF e
  <2>5. jobs'[w] = e
    BY <1>2, <2>3, <2>4, Turns DEF Agrees
  <2> QED
    BY <1>2, <1>3, <2>3, <2>4, <2>5, StageSpends
<1>5. CASE GateBad(w)
  <2>1. \/ Become(w, [j EXCEPT !.step = "gate_good"])
        \/ Become(w, [j EXCEPT !.step = "judge_test", !.exit = 1])
    BY <1>5 DEF GateBad
  <2>2. j.step = "gate_bad" /\ "gate_good" \in Steps /\ "judge_test" \in Steps /\ 1 \in Exits
    BY <1>5 DEF GateBad, At, Steps, Exits
  <2>3. ASSUME NEW e, Become(w, e), NEW changed, changed \subseteq {"step", "exit"},
               Agrees(j, e, changed), e.step \in {"gate_good", "judge_test"}
        PROVE  Spends(j, jobs'[w])
    <3>1. jobs'[w] = e
      BY <1>2, <2>3, Turns DEF Agrees
    <3>2. e.step # "next_run" /\ Stage(e.step) < Stage(j.step) /\ j.step # "next_run"
      BY <1>3, <2>2, <2>3
    <3>3. changed \subseteq {"step", "exit", "draft", "examined", "examiner"}
      BY <2>3
    <3>4. Spends(j, e)
      BY <1>2, <2>3, <3>2, <3>3, StageSpends
    <3> QED
      BY <3>1, <3>4
  <2>4. [j EXCEPT !.step = "gate_good"].step = "gate_good"
        /\ Agrees(j, [j EXCEPT !.step = "gate_good"], {"step"})
    BY <1>2, <2>2, SetsStep
  <2>5. [j EXCEPT !.step = "judge_test", !.exit = 1].step = "judge_test"
        /\ [j EXCEPT !.step = "judge_test", !.exit = 1].exit = 1
        /\ Agrees(j, [j EXCEPT !.step = "judge_test", !.exit = 1], {"step", "exit"})
    <3>1. "judge_test" \in Steps /\ 1 \in Exits /\ j \in Job
      BY <1>2, <2>2
    <3> QED
      BY <3>1, SetsStepExit
  <2> QED
    BY <2>1, <2>3, <2>4, <2>5
<1>6. CASE GateGood(w)
  <2>1. PICK x \in Exits : Become(w, [j EXCEPT !.step = "judge_test", !.exit = x])
    <3>1. PICK code \in Exits :
             Become(w, [j EXCEPT !.step = "judge_test", !.exit = IF code = 0 THEN 0 ELSE 1])
      BY <1>6 DEF GateGood
    <3>2. 0 \in Exits /\ 1 \in Exits
      BY DEF Exits
    <3> QED
      BY <3>1, <3>2
  <2> DEFINE e == [j EXCEPT !.step = "judge_test", !.exit = x]
  <2>2. "judge_test" \in Steps
    BY DEF Steps
  <2>3. e.step = "judge_test" /\ e.exit = x /\ Agrees(j, e, {"step", "exit"})
    BY <1>2, <2>2, SetsStepExit
  <2>4. Become(w, e) /\ j.step = "gate_good"
    BY <1>6, <2>1 DEF GateGood, At
  <2> HIDE DEF e
  <2>5. jobs'[w] = e
    BY <1>2, <2>3, <2>4, Turns DEF Agrees
  <2> QED
    BY <1>2, <1>3, <2>3, <2>4, <2>5, StageSpends
<1>7. CASE AcceptTest(w)
  <2>1. j.step = "judge_test" /\ "record_test" \in Steps
    BY <1>7 DEF AcceptTest, At, Steps
  <2>2. CASE LoopEnds(w)
    BY <1>2, <2>1, <2>2, LoopEndsSpends
  <2>3. CASE ~LoopEnds(w)
    <3> DEFINE e == [j EXCEPT !.step = "record_test"]
    <3>1. Become(w, e)
      BY <1>7, <2>3 DEF AcceptTest
    <3>2. e.step = "record_test" /\ Agrees(j, e, {"step"})
      BY <1>2, <2>1, SetsStep
    <3> HIDE DEF e
    <3>3. jobs'[w] = e
      BY <1>2, <3>1, <3>2, Turns DEF Agrees
    <3> QED
      BY <1>2, <1>3, <2>1, <3>2, <3>3, StageSpends
  <2> QED
    BY <2>2, <2>3
<1>8. CASE RejectTest(w)
  <2>1. j.step = "judge_test" /\ Retry(w, "write_test")
    BY <1>8 DEF RejectTest, At
  <2> QED
    BY <1>2, <2>1, RetrySpends
<1>9. CASE RecordTest(w)
  BY <1>9, RecordTestTurns DEF Spends
<1> QED
  BY <1>4, <1>5, <1>6, <1>7, <1>8, <1>9 DEF Certify

LEMMA FixSpends ==
  ASSUME Typed, Counted, NEW w \in Workers, Fix(w)
  PROVE  Spends(jobs[w], jobs'[w])
<1> DEFINE j == jobs[w]
<1>1. ~At(w, "idle")
  BY DEF Fix, WritePatch, Unusable, Validate, Checks, AcceptPatch, RejectPatch, RecordPatch, At
<1>2. TypeOK /\ j \in Job /\ j.tries < j.limit
  BY <1>1, Runs DEF Counted
<1>3. /\ Stage("write_patch") = 5 /\ Stage("validate") = 4 /\ Stage("checks") = 3
      /\ Stage("judge_patch") = 2 /\ Stage("record_patch") = 1
  BY DEF Stage
<1>4. CASE WritePatch(w)
  <2>1. PICK patch \in Patch : Become(w, [j EXCEPT !.step = "validate", !.draft = patch])
    BY <1>2, <1>4 DEF WritePatch, Patch, Job
  <2> DEFINE e == [j EXCEPT !.step = "validate", !.draft = patch]
  <2>2. "validate" \in Steps /\ patch \in TestCandidate \cup Patch
    BY DEF Steps
  <2>3. e.step = "validate" /\ e.draft = patch /\ Agrees(j, e, {"step", "draft"})
    <3>1. "validate" \in Steps /\ patch \in TestCandidate \cup Patch /\ j \in Job
      BY <1>2, <2>2
    <3> QED
      BY <3>1, SetsStepDraft
  <2>4. Become(w, e) /\ j.step = "write_patch"
    BY <1>4, <2>1 DEF WritePatch, At
  <2> HIDE DEF e
  <2>5. jobs'[w] = e
    BY <1>2, <2>3, <2>4, Turns DEF Agrees
  <2> QED
    BY <1>2, <1>3, <2>3, <2>4, <2>5, StageSpends
<1>5. CASE Unusable(w)
  <2>1. j.step = "write_patch" /\ Retry(w, "write_patch")
    BY <1>5 DEF Unusable, At
  <2> QED
    BY <1>2, <2>1, RetrySpends
<1>6. CASE Validate(w)
  <2>1. j.step = "validate" /\ "checks" \in Steps /\ "judge_patch" \in Steps /\ 2 \in Exits
    BY <1>6 DEF Validate, At, Steps, Exits
  <2>2. CASE Replayable /\ testFile # Nothing
    <3> DEFINE e == [j EXCEPT !.step = "checks", !.examined = latest, !.examiner = testFile]
    <3>1. latest \in Incidents /\ testFile \in TestCandidate
      BY <1>2, <2>2, CandidateAssumption DEF TypeOK, Replayable, Incidents
    <3>2. /\ e.step = "checks" /\ e.examined = latest /\ e.examiner = testFile
          /\ Agrees(j, e, {"step", "examined", "examiner"})
      <4>1. "checks" \in Steps /\ j \in Job
        BY <1>2, <2>1
      <4> QED
        BY <3>1, <4>1, SetsStepExamination
    <3>3. Become(w, e)
      BY <1>6, <2>2 DEF Validate
    <3> HIDE DEF e
    <3>4. jobs'[w] = e
      BY <1>2, <3>2, <3>3, Turns DEF Agrees
    <3> QED
      BY <1>2, <1>3, <2>1, <3>2, <3>4, StageSpends
  <2>3. CASE ~(Replayable /\ testFile # Nothing)
    <3> DEFINE e == [j EXCEPT !.step = "judge_patch", !.exit = 2]
    <3>1. e.step = "judge_patch" /\ e.exit = 2 /\ Agrees(j, e, {"step", "exit"})
      <4>1. "judge_patch" \in Steps /\ 2 \in Exits /\ j \in Job
        BY <1>2, <2>1
      <4> QED
        BY <4>1, SetsStepExit
    <3>2. Become(w, e)
      BY <1>6, <2>3 DEF Validate
    <3> HIDE DEF e
    <3>3. jobs'[w] = e
      BY <1>2, <3>1, <3>2, Turns DEF Agrees
    <3> QED
      BY <1>2, <1>3, <2>1, <3>1, <3>3, StageSpends
  <2> QED
    BY <2>2, <2>3
<1>7. CASE Checks(w)
  <2>1. PICK x \in {0, 1} : Become(w, [j EXCEPT !.step = "judge_patch", !.exit = x])
    BY <1>7 DEF Checks
  <2> DEFINE e == [j EXCEPT !.step = "judge_patch", !.exit = x]
  <2>2. "judge_patch" \in Steps /\ x \in Exits
    BY DEF Steps, Exits
  <2>3. e.step = "judge_patch" /\ e.exit = x /\ Agrees(j, e, {"step", "exit"})
    <3>1. "judge_patch" \in Steps /\ x \in Exits /\ j \in Job
      BY <1>2, <2>2
    <3> QED
      BY <3>1, SetsStepExit
  <2>4. Become(w, e) /\ j.step = "checks"
    BY <1>7, <2>1 DEF Checks, At
  <2> HIDE DEF e
  <2>5. jobs'[w] = e
    BY <1>2, <2>3, <2>4, Turns DEF Agrees
  <2> QED
    BY <1>2, <1>3, <2>3, <2>4, <2>5, StageSpends
<1>8. CASE AcceptPatch(w)
  <2>1. j.step = "judge_patch" /\ "record_patch" \in Steps
    BY <1>8 DEF AcceptPatch, At, Steps
  <2>2. CASE LoopEnds(w)
    BY <1>2, <2>1, <2>2, LoopEndsSpends
  <2>3. CASE ~LoopEnds(w)
    <3> DEFINE e == [j EXCEPT !.step = "record_patch"]
    <3>1. Become(w, e)
      BY <1>8, <2>3 DEF AcceptPatch
    <3>2. e.step = "record_patch" /\ Agrees(j, e, {"step"})
      BY <1>2, <2>1, SetsStep
    <3> HIDE DEF e
    <3>3. jobs'[w] = e
      BY <1>2, <3>1, <3>2, Turns DEF Agrees
    <3> QED
      BY <1>2, <1>3, <2>1, <3>2, <3>3, StageSpends
  <2> QED
    BY <2>2, <2>3
<1>9. CASE RejectPatch(w)
  <2>1. j.step = "judge_patch" /\ Retry(w, "write_patch")
    BY <1>9 DEF RejectPatch, At
  <2> QED
    BY <1>2, <2>1, RetrySpends
<1>10. CASE RecordPatch(w)
  BY <1>10, RecordPatchTurns DEF Spends
<1> QED
  BY <1>4, <1>5, <1>6, <1>7, <1>8, <1>9, <1>10 DEF Fix

LEMMA StepSpends ==
  ASSUME Typed, Counted, NEW w \in Workers, Step(w) \/ Fault(w)
  PROVE  Spends(jobs[w], jobs'[w]) /\ ~At(w, "idle")
<1> DEFINE j == jobs[w]
<1>1. ~At(w, "idle")
  BY DEF Step, Certify, WriteTest, GateBad, GateGood, AcceptTest, RejectTest, RecordTest,
         Fix, WritePatch, Unusable, Validate, Checks, AcceptPatch, RejectPatch, RecordPatch,
         Evaluate, BenchmarkTest, BenchmarkPatch, Restore, Branch,
         Fault, GenerationFails, Expire, Kill, At
<1>2. TypeOK /\ j \in Job /\ j.tries < j.limit
  BY <1>1, Runs DEF Counted
<1>3. CASE Certify(w)
  BY <1>1, <1>3, CertifySpends
<1>4. CASE Fix(w)
  BY <1>1, <1>4, FixSpends
<1>5. CASE BenchmarkTest(w)
  BY <1>1, <1>2, <1>5, RunSpends DEF BenchmarkTest
<1>6. CASE BenchmarkPatch(w)
  BY <1>1, <1>2, <1>6, RunSpends DEF BenchmarkPatch
<1>7. CASE Restore(w)
  BY <1>1, <1>7, RestoreTurns DEF Spends
<1>8. CASE Branch(w)
  BY <1>1, <1>8, BranchTurns DEF Spends
<1>9. CASE GenerationFails(w) \/ Expire(w)
  <2>1. LoopEnds(w) /\ j.step # "next_run"
    BY <1>9 DEF GenerationFails, Expire
  <2> QED
    BY <1>1, <1>2, <2>1, LoopEndsSpends
<1>10. CASE Kill(w)
  BY <1>1, <1>2, <1>10, Turns DEF Kill, Spends
<1> QED
  BY <1>3, <1>4, <1>5, <1>6, <1>7, <1>8, <1>9, <1>10 DEF Step, Evaluate, Fault

LEMMA CountedInit == Init => Counted
  BY DEF Init, Counted

\* No step makes an attempt one too many, or gives a command more to do.
LEMMA CountedStep ==
  ASSUME Typed, Counted, Next
  PROVE  /\ Counted'
         /\ \A w \in Workers :
               /\ ~At(w, "idle") => Left(jobs'[w]) <= Left(jobs[w])
               /\ Step(w) => Left(jobs'[w]) < Left(jobs[w])
<1>1. TypeOK /\ \A v \in Workers : ~At(v, "idle") => jobs[v] \in Job /\ Left(jobs[v]) \in Int
  <2>1. TypeOK
    BY DEF Typed
  <2>2. ASSUME NEW v \in Workers, ~At(v, "idle") PROVE jobs[v] \in Job /\ Left(jobs[v]) \in Int
    BY <2>2, Runs, LeftType DEF Counted
  <2> QED
    BY <2>1, <2>2
<1>2. ASSUME NEW w \in Workers, Step(w)
      PROVE  Left(jobs'[w]) < Left(jobs[w])
  <2>1. Spends(jobs[w], jobs'[w]) /\ jobs[w] \in Job /\ jobs[w].tries < jobs[w].limit
    BY <1>1, <1>2, StepSpends, Runs DEF Counted
  <2>2. Left(Idle) = 0 /\ Left(jobs[w]) \in 1..((MaxRuns + 1) * Round)
    BY <2>1, LeftType DEF Left, Idle
  <2>3. 0 < Left(jobs[w])
    BY <2>2
  <2> QED
    BY <2>1, <2>2, <2>3 DEF Spends
<1>3. CASE jobs' = jobs
  <2>1. Counted'
    BY <1>3 DEF Counted
  <2>2. ASSUME NEW w \in Workers, ~At(w, "idle") PROVE Left(jobs'[w]) <= Left(jobs[w])
    BY <1>1, <1>3, <2>2
  <2> QED
    BY <1>2, <2>1, <2>2
<1>4. ASSUME NEW w \in Workers, Begin(w) \/ ReadEvidence(w) \/ Step(w) \/ Fault(w)
      PROVE  /\ \A v \in Workers : v # w => jobs'[v] = jobs[v]
             /\ jobs'[w] # Idle => jobs'[w].tries < jobs'[w].limit
             /\ ~At(w, "idle") => Left(jobs'[w]) <= Left(jobs[w])
  <2>1. CASE Begin(w) \/ ReadEvidence(w)
    <3>1. At(w, "idle")
      BY <2>1 DEF Begin, ReadEvidence
    <3>2. jobs'[w] \in Job
      BY <2>1, BeginTurns, ReadEvidenceTurns
    <3>3. \A v \in Workers : v # w => jobs'[v] = jobs[v]
      BY <1>1, <2>1 DEF Begin, ReadEvidence, Become, TypeOK
    <3>4. \E limit \in 1..MaxAttempts : jobs'[w].limit = limit /\ jobs'[w].tries = 0
      <4>1. 1 \in 1..MaxAttempts /\ MaxAttempts \in 1..MaxAttempts
        BY CandidateAssumption
      <4>2. w \in DOMAIN jobs
        BY <1>1 DEF TypeOK
      <4>3. CASE Begin(w)
        <5>1. PICK cmd \in {"certify", "fix", "evaluate"}, step \in Steps, limit \in 1..MaxAttempts :
                 Become(w, Command(cmd, step, limit))
          BY <4>1, <4>3 DEF Begin, Steps
        <5>2. jobs'[w] = Command(cmd, step, limit)
          BY <4>2, <5>1 DEF Become
        <5>3. jobs'[w].limit = limit /\ jobs'[w].tries = 0
          BY <5>2 DEF Command
        <5> QED
          BY <5>3
      <4>4. CASE ReadEvidence(w)
        <5>1. PICK cited : Become(w, [Command("pr", "branch", 1) EXCEPT !.draft = patchFile,
                                                                         !.cited = cited])
          BY <4>4 DEF ReadEvidence
        <5>2. jobs'[w] = [Command("pr", "branch", 1) EXCEPT !.draft = patchFile, !.cited = cited]
          BY <4>2, <5>1 DEF Become
        <5>3. jobs'[w].limit = 1 /\ jobs'[w].tries = 0
          BY <5>2 DEF Command
        <5> QED
          BY <4>1, <5>3 DEF Steps
      <4> QED
        BY <2>1, <4>3, <4>4
    <3>5. jobs'[w].tries < jobs'[w].limit
      BY <3>4
    <3> QED
      BY <3>1, <3>3, <3>5
  <2>2. CASE Step(w) \/ Fault(w)
    <3>1. Spends(jobs[w], jobs'[w]) /\ ~At(w, "idle")
      BY <2>2, StepSpends
    <3>2. ASSUME NEW v \in Workers \ {w} PROVE jobs'[v] = jobs[v]
      BY <1>1, <2>2, OnlyOneTurns
    <3>3. Left(Idle) = 0
      BY DEF Left, Idle
    <3>4. Left(jobs[w]) \in Int /\ Left(jobs[w]) >= 0
      <4>1. jobs[w] \in Job /\ jobs[w].tries < jobs[w].limit
        BY <3>1, Runs DEF Counted
      <4>2. Left(jobs[w]) \in 1..((MaxRuns + 1) * Round)
        BY <4>1, LeftType
      <4> QED
        BY <4>2
    <3>5. jobs'[w] \in Job => jobs'[w].tries < jobs'[w].limit
      BY <3>1, JobIsNotIdle DEF Spends
    <3>6. jobs'[w] # Idle => jobs'[w].tries < jobs'[w].limit
      BY <3>1 DEF Spends
    <3>7. Left(jobs'[w]) <= Left(jobs[w])
      <4>1. CASE jobs'[w] = Idle
        BY <3>3, <3>4, <4>1
      <4>2. CASE jobs'[w] # Idle
        <5>1. Left(jobs'[w]) < Left(jobs[w]) /\ jobs'[w] \in Job /\ jobs'[w].tries < jobs'[w].limit
          BY <3>1, <4>2 DEF Spends
        <5>2. Left(jobs'[w]) \in 1..((MaxRuns + 1) * Round)
          BY <5>1, LeftType
        <5> QED
          BY <3>4, <5>1, <5>2
      <4> QED
        BY <4>1, <4>2
    <3> QED
      BY <3>2, <3>6, <3>7
  <2> QED
    BY <1>4, <2>1, <2>2
<1>5. ASSUME NEW w \in Workers, Begin(w) \/ ReadEvidence(w) \/ Step(w) \/ Fault(w)
      PROVE  Counted' /\ \A v \in Workers : ~At(v, "idle") => Left(jobs'[v]) <= Left(jobs[v])
  <2>1. ASSUME NEW v \in Workers, jobs'[v] # Idle PROVE jobs'[v].tries < jobs'[v].limit
    BY <1>4, <1>5, <2>1 DEF Counted
  <2>2. ASSUME NEW v \in Workers, ~At(v, "idle") PROVE Left(jobs'[v]) <= Left(jobs[v])
    <3>1. CASE v = w
      BY <1>4, <1>5, <2>2, <3>1
    <3>2. CASE v # w
      <4>1. jobs'[v] = jobs[v]
        BY <1>4, <1>5, <3>2
      <4> QED
        BY <1>1, <2>2, <4>1
    <3> QED
      BY <3>1, <3>2
  <2> QED
    BY <2>1, <2>2 DEF Counted
<1>6. CASE \E w \in Workers : Testgen(w)
  BY <1>3, <1>6 DEF Testgen
<1>7. CASE Detect \/ Capture
  BY <1>3, <1>7 DEF Detect, Capture
<1> QED
  BY <1>2, <1>5, <1>6, <1>7 DEF Next

\* Whatever other shells do to the files and whichever processes are killed, a command
\* has less to do after each of its steps, and never more; what it has to do at first is
\* bounded by its attempts and runs.
THEOREM CommandsAreBounded ==
  Spec => /\ [](\A w \in Workers :
                   /\ Left(jobs[w]) \in 0..((MaxRuns + 1) * Round)
                   /\ Left(jobs[w]) = 0 <=> At(w, "idle"))
          /\ CommandsAdvance
<1>1. Spec => []Counted
  <2>1. Typed /\ Counted /\ [Next]_vars => Counted'
    <3>1. ASSUME Counted, UNCHANGED vars PROVE Counted'
      BY <3>1 DEF Counted, vars
    <3> QED
      BY <3>1, CountedStep
  <2> QED
    BY <2>1, CountedInit, AlwaysTyped, PTL DEF Spec
<1>2. Typed /\ Counted => \A w \in Workers :
                             /\ Left(jobs[w]) \in 0..((MaxRuns + 1) * Round)
                             /\ Left(jobs[w]) = 0 <=> At(w, "idle")
  <2> SUFFICES ASSUME Typed, Counted, NEW w \in Workers
               PROVE  /\ Left(jobs[w]) \in 0..((MaxRuns + 1) * Round)
                      /\ Left(jobs[w]) = 0 <=> At(w, "idle")
    OBVIOUS
  <2>1. (MaxRuns + 1) * Round \in Nat
    BY RoundType, CandidateAssumption
  <2>2. CASE At(w, "idle")
    BY <2>1, <2>2 DEF Left, At
  <2>3. CASE ~At(w, "idle")
    <3>1. Left(jobs[w]) \in 1..((MaxRuns + 1) * Round)
      BY <2>3, Runs, LeftType DEF Counted
    <3> QED
      BY <2>1, <2>3, <3>1
  <2> QED
    BY <2>2, <2>3
<1>3. Typed /\ Counted /\ [Next]_vars
        => [\A w \in Workers :
               /\ ~At(w, "idle") => Left(jobs'[w]) <= Left(jobs[w])
               /\ Step(w) => Left(jobs'[w]) < Left(jobs[w])]_vars
  BY CountedStep
<1> QED
  BY <1>1, <1>2, <1>3, AlwaysTyped, PTL DEF Spec, CommandsAdvance
=============================================================================
