--------------------------- MODULE AuditTrailProofs ---------------------------
(***************************************************************************)
(* Proofs about AuditTrail for any processes, commits and bounds.          *)
(***************************************************************************)
EXTENDS AuditTrail, TLAPS

\* Which local variables a command has set at each step.
Shape(j) ==
    /\ j.pc = "idle" => j = Idle
    /\ j.pc \in {"opening", "correlating", "superseding", "capturing"} =>
          j.incident # None /\ j.row # None
    /\ j.pc \in {"verifying", "replaying", "recording"} => j.incident # None /\ j.hyp # None
    /\ j.pc = "replaying" => j.about # None /\ j.sent # None
    /\ j.pc = "recording" => j.outcome # None
    /\ j.pc # "recording" => j.outcome = None
    /\ j.outcome = "reproduced" => j.about # None
    /\ j.pc \in {"opening", "correlating", "capturing"} => j.hyp = None
    /\ j.pc \in {"opening", "correlating", "superseding", "capturing", "verifying"} =>
          j.about = None

JobShape == \A p \in Procs : Shape(job[p])

LEMMA TicksWidth == Ticks = 1..MaxOpens /\ MaxOpens \in Nat
  BY BoundsAssumption DEF Ticks

LEMMA NoneIsNoValue ==
    /\ None \notin Ticks /\ None \notin HypIds /\ None \notin Incident
    /\ None \notin Hypothesis /\ None \notin Outcomes /\ None \notin Methods
    /\ None \notin Commits /\ None \notin 0..100
  BY NoneAssumption

\* What Detect puts in the local variables of its command.
LEMMA DetectOpens ==
    ASSUME TypeOK, NEW p \in Procs,
           NEW samples \in Views, NEW spans \in Views, NEW quantiles \in Views,
           NEW detects \in BOOLEAN, Detect(p, samples, spans, quantiles, detects)
    PROVE  \E j \in Job :
              /\ Shape(j) /\ Continue(p, j)
              /\ opened + 1 \in Ticks
              /\ j.pc = "opening" /\ j.incident = opened + 1
              /\ Reproducible(j.row, j.seen)
              /\ j.hyp = None /\ j.about = None /\ j.outcome # "reproduced"
<1> DEFINE d == deploys[Len(deploys)]
           reasons == Reasons(d, samples, spans, quantiles)
           row == [base |-> d.prev, cand |-> d.sha, reasons |-> reasons]
           j == [Idle EXCEPT !.pc = "opening", !.detects = detects, !.row = row,
                             !.incident = opened + 1, !.seen = samples]
<1>1. d \in Deployment
  <2>1. deploys \in Seq(Deployment) /\ deploys # <<>>
    BY DEF Detect, TypeOK
  <2>2. Len(deploys) \in 1..Len(deploys)
    BY <2>1
  <2> QED
    BY <2>1, <2>2
<1>2. row \in Incident
  <2>1. d.sha \in Commits /\ d.prev \in Commits
    BY <1>1 DEF Detect, Deployment
  <2>2. reasons \subseteq Signals
    BY DEF Reasons
  <2> QED
    BY <2>1, <2>2 DEF Incident
<1>3. opened + 1 \in Ticks
  BY TicksWidth DEF Detect, TypeOK
<1>4. Reproducible(row, samples)
  <2>1. "latency" \in reasons <=> d.sha \in samples /\ d.sha \in Slow
    BY DEF Reasons, Signals
  <2>2. reasons = {"latency"} => d.prev \in samples
    BY DEF Detect, Triggered
  <2>3. row.base = d.prev /\ row.cand = d.sha /\ row.reasons = reasons
    OBVIOUS
  <2> HIDE DEF d, reasons, row
  <2> QED
    BY <2>1, <2>2, <2>3 DEF Reproducible
<1>5. Continue(p, j)
  BY DEF Detect, Begin
<1> HIDE DEF d, reasons, row
<1>6. j \in Job
  BY <1>2, <1>3, ViewsAssumption DEF Job, Idle
<1>7. Shape(j)
  BY <1>2, <1>3, NoneIsNoValue DEF Shape, Idle, Outcomes
<1>8. /\ j.pc = "opening" /\ j.incident = opened + 1 /\ j.row = row /\ j.seen = samples
      /\ j.hyp = None /\ j.about = None /\ j.outcome # "reproduced"
  BY NoneIsNoValue DEF Idle, Outcomes
<1> HIDE DEF j
<1> QED
  BY <1>3, <1>4, <1>5, <1>6, <1>7, <1>8

LEMMA IdleJob == Idle \in Job /\ Shape(Idle)
  BY NoneIsNoValue DEF Idle, Job, Shape, Outcomes

LEMMA TypedInit == Init => TypeOK /\ JobShape
<1> SUFFICES ASSUME Init PROVE TypeOK /\ JobShape
  OBVIOUS
<1>1. TypeOK
  BY IdleJob, BoundsAssumption DEF Init, TypeOK
<1>2. JobShape
  BY IdleJob DEF Init, JobShape
<1> QED
  BY <1>1, <1>2

\* A row that Correlate computes from facts of its own incident is a hypothesis.
LEMMA CorrelateType ==
    ASSUME NEW i \in Ticks, NEW v \in Incident, NEW fs \in SUBSET Fact,
           NEW share \in Shares
    PROVE  Correlate(i, v, fs, share) \in Hypothesis
<1>1. Supporting(fs) \in SUBSET Fact
  BY DEF Supporting
<1> QED
  BY <1>1 DEF Correlate, Hypothesis, Shares, TemporalOnlyCeiling

LEMMA SupersedeType ==
    ASSUME TypeOK,
           NEW existing \in HypIds \cup {None}, NEW loaded,
           NEW row \in Hypothesis, Supersede(existing, loaded, row),
           existing # None => hyps[existing] # None
    PROVE  hyps' \in [HypIds -> Hypothesis \cup {None}]
<1>1. CASE existing = None
  BY <1>1 DEF TypeOK, Supersede, FreeIds
<1>2. CASE existing # None
  <2>1. hyps[existing] \in Hypothesis /\ existing \in HypIds
    BY <1>2 DEF TypeOK
  <2>2. Refreshed(hyps[existing], loaded, row) \in Hypothesis
    BY <2>1 DEF Refreshed, Hypothesis
  <2> QED
    BY <1>2, <2>1, <2>2 DEF TypeOK, Supersede
<1> QED
  BY <1>1, <1>2

LEMMA ContinueType ==
    ASSUME TypeOK, NEW p \in Procs, NEW j \in Job, Continue(p, j)
    PROVE  /\ job' \in [Procs -> Job]
           /\ job'[p] = j
           /\ \A q \in Procs : q # p => job'[q] = job[q]
  BY DEF TypeOK, Continue

\* Every step of a command writes well-typed local variables of the right shape.
LEMMA JobStep ==
    ASSUME TypeOK, JobShape, NEW p \in Procs, Command(p)
    PROVE  \E j \in Job : Shape(j) /\ Continue(p, j)
<1>0. job[p] \in Job /\ Shape(job[p])
  BY DEF TypeOK, JobShape
<1>1. ASSUME NEW samples \in Views, NEW spans \in Views, NEW quantiles \in Views,
             NEW detects \in BOOLEAN, Detect(p, samples, spans, quantiles, detects)
      PROVE  \E j \in Job : Shape(j) /\ Continue(p, j)
  BY <1>1, DetectOpens
<1>2. ASSUME End(p) PROVE \E j \in Job : Shape(j) /\ Continue(p, j)
  BY <1>2, IdleJob DEF End
<1>3. ASSUME NEW i \in Ticks, StartInvestigate(p, i) \/ StartCapture(p, i)
      PROVE  \E j \in Job : Shape(j) /\ Continue(p, j)
  <2> DEFINE j(pc) == [Idle EXCEPT !.pc = pc, !.incident = i, !.row = incidents[i]]
  <2>1. incidents[i] \in Incident
    BY <1>3 DEF StartInvestigate, StartCapture, IsLatest, Committed, TypeOK
  <2>2. j("correlating") \in Job /\ j("capturing") \in Job
    BY <2>1 DEF Job, Idle
  <2>3. Shape(j("correlating")) /\ Shape(j("capturing"))
    BY <2>1, NoneIsNoValue DEF Shape, Idle, Outcomes
  <2>4. Continue(p, j("correlating")) \/ Continue(p, j("capturing"))
    BY <1>3 DEF StartInvestigate, StartCapture, Begin
  <2> HIDE DEF j
  <2> QED
    BY <2>2, <2>3, <2>4
<1>4. ASSUME SelectExisting(p) PROVE \E j \in Job : Shape(j) /\ Continue(p, j)
  <2>1. [job[p] EXCEPT !.pc = "superseding"] \in Job
    BY <1>0 DEF Job
  <2>2. Shape([job[p] EXCEPT !.pc = "superseding"])
    BY <1>0, <1>4, NoneIsNoValue DEF Job, Outcomes, Shape, SelectExisting
  <2>3. ASSUME NEW h \in HypsOf(job[p].incident)
        PROVE  LET j == [job[p] EXCEPT !.pc = "superseding", !.hyp = h, !.loaded = hyps[h].score]
               IN  j \in Job /\ Shape(j)
    <3> DEFINE j == [job[p] EXCEPT !.pc = "superseding", !.hyp = h, !.loaded = hyps[h].score]
    <3>1. h \in HypIds /\ hyps[h] \in Hypothesis
      BY <2>3 DEF HypsOf, TypeOK
    <3>2. hyps[h].score \in 0..100
      BY <3>1 DEF Hypothesis
    <3>3. j \in Job
      BY <1>0, <3>1, <3>2 DEF Job
    <3>4. Shape(j)
      BY <1>0, <1>4, NoneIsNoValue DEF Job, Outcomes, Shape, SelectExisting
    <3> QED
      BY <3>3, <3>4
  <2> QED
    BY <1>4, <2>1, <2>2, <2>3 DEF SelectExisting
<1>5. ASSUME NEW i \in Ticks, NEW h \in HypIds, StartVerify(p, i, h)
      PROVE  \E j \in Job : Shape(j) /\ Continue(p, j)
  <2> DEFINE j == [Idle EXCEPT !.pc = "verifying", !.incident = i, !.hyp = h]
  <2>1. j \in Job
    BY DEF Job, Idle
  <2>2. Shape(j)
    BY NoneIsNoValue DEF Shape, Idle, Outcomes
  <2>3. Continue(p, j)
    BY <1>5 DEF StartVerify, Begin
  <2> HIDE DEF j
  <2> QED
    BY <2>1, <2>2, <2>3
<1>6. ASSUME NEW i \in Ticks, StartReplay(p, i)
      PROVE  \E j \in Job : Shape(j) /\ Continue(p, j)
  <2>1. [job[p] EXCEPT !.pc = "recording", !.outcome = "cannot_run"] \in Job
    BY <1>0 DEF Job, Outcomes
  <2>2. Shape([job[p] EXCEPT !.pc = "recording", !.outcome = "cannot_run"])
    BY <1>0, <1>6, NoneIsNoValue DEF Job, Outcomes, Shape, StartReplay
  <2>3. ASSUME NEW r \in Replayable(i)
        PROVE  LET j == [job[p] EXCEPT !.pc = "replaying", !.about = i, !.sent = r.method]
               IN  j \in Job /\ Shape(j)
    <3> DEFINE j == [job[p] EXCEPT !.pc = "replaying", !.about = i, !.sent = r.method]
    <3>1. r.method \in Methods
      BY <2>3 DEF Replayable, TypeOK, CapturedRequest
    <3>2. j \in Job
      BY <1>0, <3>1 DEF Job
    <3>3. Shape(j)
      BY <1>0, <1>6, <3>1, NoneIsNoValue DEF Job, Outcomes, Shape, StartReplay
    <3> QED
      BY <3>2, <3>3
  <2> QED
    BY <1>6, <2>1, <2>2, <2>3 DEF StartReplay
<1>7. ASSUME FinishReplay(p) PROVE \E j \in Job : Shape(j) /\ Continue(p, j)
  <2>1. ASSUME NEW o \in Outcomes
        PROVE  LET j == [job[p] EXCEPT !.pc = "recording", !.outcome = o]
               IN  j \in Job /\ Shape(j)
    <3> DEFINE j == [job[p] EXCEPT !.pc = "recording", !.outcome = o]
    <3>1. j \in Job
      BY <1>0 DEF Job
    <3>2. Shape(j)
      BY <1>0, <1>7, NoneIsNoValue DEF Job, Outcomes, Shape, FinishReplay
    <3> QED
      BY <3>1, <3>2
  <2> QED
    BY <1>7, <2>1 DEF FinishReplay, Outcomes
<1> QED
  BY <1>1, <1>2, <1>3, <1>4, <1>5, <1>6, <1>7, ViewsAssumption
     DEF Command, CommitDetection, GitUnavailable, CommitInvestigation, CommitCapture,
         RecordVerification, Crash

LEMMA GatheredType ==
    ASSUME NEW i \in Ticks, NEW samples \in SUBSET Commits, NEW seen \in SUBSET Commits
    PROVE  Gathered(i, samples, seen) \in SUBSET Fact
  BY ViewsAssumption DEF Gathered, Fact

\* The row that a detection, respectively an investigation, is about to write.
LEMMA DetectionRow ==
    ASSUME TypeOK, JobShape, NEW p \in Procs, NEW seen \in SUBSET Commits,
           CommitDetection(p, seen)
    PROVE  /\ job[p].incident \in Ticks /\ job[p].row \in Incident
           /\ Gathered(job[p].incident, job[p].seen, seen) \in SUBSET Fact
<1>1. job[p] \in Job /\ Shape(job[p]) /\ job[p].pc = "opening"
  BY DEF TypeOK, JobShape, CommitDetection
<1>2. job[p].incident \in Ticks /\ job[p].row \in Incident /\ job[p].seen \in SUBSET Commits
  BY <1>1 DEF Job, Shape
<1> QED
  BY <1>2, GatheredType

LEMMA InvestigationRow ==
    ASSUME TypeOK, JobShape, RememberedRowsStayValid, NEW p \in Procs,
           CommitInvestigation(p)
    PROVE  /\ job[p].incident \in Committed /\ job[p].row \in Incident
           /\ job[p].row = incidents[job[p].incident]
           /\ job[p].hyp \in HypIds \cup {None}
           /\ job[p].hyp # None => /\ hyps[job[p].hyp] # None
                                   /\ hyps[job[p].hyp].incident = job[p].incident
           /\ FactsOf(job[p].incident) \in SUBSET Fact
<1>1. job[p] \in Job /\ Shape(job[p]) /\ job[p].pc = "superseding"
  BY DEF TypeOK, JobShape, CommitInvestigation
<1>2. job[p].row \in Incident /\ job[p].hyp \in HypIds \cup {None}
  BY <1>1 DEF Job, Shape
<1>3. FactsOf(job[p].incident) \in SUBSET Fact
  BY DEF FactsOf, TypeOK
<1> QED
  BY <1>1, <1>2, <1>3 DEF RememberedRowsStayValid, StillTrue

LEMMA VerificationRow ==
    ASSUME TypeOK, JobShape, NEW p \in Procs, RecordVerification(p)
    PROVE  verifs' \subseteq Verification
<1>1. job[p] \in Job /\ Shape(job[p]) /\ job[p].pc = "recording"
  BY DEF TypeOK, JobShape, RecordVerification
<1>2. job[p].hyp \in HypIds /\ job[p].outcome \in Outcomes /\ job[p].about \in Ticks \cup {None}
  BY <1>1 DEF Job, Shape
<1>3. ExitCode(job[p].outcome) \in 0..2
  BY <1>2 DEF ExitCode, Outcomes
<1>4. VerdictOf(ExitCode(job[p].outcome)) \in Verdicts
  BY DEF VerdictOf, Verdicts
<1> QED
  BY <1>2, <1>3, <1>4 DEF RecordVerification, TypeOK, Verification

LEMMA TypeStep ==
    ASSUME TypeOK, JobShape, RememberedRowsStayValid, [Next]_vars
    PROVE  TypeOK' /\ JobShape'
<1>1. ASSUME NEW p \in Procs, Command(p) PROVE TypeOK' /\ JobShape'
  <2>1. job' \in [Procs -> Job] /\ JobShape'
    <3>1. PICK j \in Job : Shape(j) /\ Continue(p, j)
      BY <1>1, JobStep
    <3> QED
      BY <3>1, ContinueType DEF JobShape
  <2>2. ASSUME NEW samples \in Views, NEW spans \in Views, NEW quantiles \in Views,
               NEW detects \in BOOLEAN, Detect(p, samples, spans, quantiles, detects)
        PROVE  TypeOK'
    <3>1. opened' \in 0..MaxOpens
      BY <2>2, TicksWidth DEF Detect, TypeOK
    <3> QED
      BY <2>2, <3>1, <2>1 DEF Detect, TypeOK
  <2>3. ASSUME NEW seen \in SUBSET Commits, CommitDetection(p, seen) PROVE TypeOK'
    <3> DEFINE i == job[p].incident
               v == job[p].row
               fs == Gathered(i, job[p].seen, seen)
    <3>1. i \in Ticks /\ v \in Incident /\ fs \in SUBSET Fact
      BY <2>3, DetectionRow
    <3>2. incidents' \in [Ticks -> Incident \cup {None}] /\ facts' \subseteq Fact
      BY <2>3, <3>1 DEF CommitDetection, TypeOK
    <3>3. hyps' \in [HypIds -> Hypothesis \cup {None}]
      <4>1. CASE UNCHANGED hyps
        BY <4>1 DEF TypeOK
      <4>2. ASSUME NEW share \in Shares, Supersede(None, None, Correlate(i, v, fs, share))
            PROVE  hyps' \in [HypIds -> Hypothesis \cup {None}]
        <5>1. Correlate(i, v, fs, share) \in Hypothesis
          BY <3>1, CorrelateType
        <5> QED
          BY <4>2, <5>1, SupersedeType
      <4> QED
        BY <2>3, <4>1, <4>2 DEF CommitDetection
    <3> QED
      BY <2>1, <2>3, <3>2, <3>3 DEF CommitDetection, TypeOK
  <2>4. ASSUME CommitInvestigation(p) PROVE TypeOK'
    <3> DEFINE i == job[p].incident
    <3>1. PICK share \in Shares :
             Supersede(job[p].hyp, job[p].loaded,
                       Correlate(i, job[p].row, FactsOf(i), share))
      BY <2>4 DEF CommitInvestigation
    <3>2. i \in Ticks /\ Correlate(i, job[p].row, FactsOf(i), share) \in Hypothesis
      BY <2>4, InvestigationRow, CorrelateType DEF Committed
    <3>3. hyps' \in [HypIds -> Hypothesis \cup {None}]
      BY <2>4, <3>1, <3>2, InvestigationRow, SupersedeType
    <3> QED
      BY <2>1, <2>4, <3>3 DEF CommitInvestigation, TypeOK
  <2>5. ASSUME NEW methods \in SUBSET Methods, CommitCapture(p, methods) PROVE TypeOK'
    <3>1. job[p] \in Job /\ Shape(job[p]) /\ job[p].pc = "capturing"
      BY <2>5 DEF TypeOK, JobShape, CommitCapture
    <3>2. job[p].incident \in Ticks
      BY <3>1 DEF Job, Shape
    <3>3. ASSUME NEW m \in Methods PROVE CapturedRow(job[p].incident, m) \in CapturedRequest
      <4>1. (m \in SafeMethods) \in BOOLEAN
        OBVIOUS
      <4> QED
        BY <3>2, <4>1 DEF CapturedRow, CapturedRequest
    <3>4. captures' \subseteq CapturedRequest
      BY <2>5, <3>3 DEF CommitCapture, TypeOK
    <3> QED
      BY <2>1, <2>5, <3>4 DEF CommitCapture, TypeOK
  <2>6. ASSUME RecordVerification(p) PROVE TypeOK'
    BY <2>1, <2>6, VerificationRow DEF RecordVerification, TypeOK
  <2>7. ASSUME UNCHANGED <<shipped, deploys, opened, incidents, facts, hyps, captures, verifs>>
        PROVE  TypeOK'
    BY <2>1, <2>7 DEF TypeOK
  <2> QED
    BY <1>1, <2>1, <2>2, <2>3, <2>4, <2>5, <2>6, <2>7, ViewsAssumption
       DEF Command, StartInvestigate, GitUnavailable, SelectExisting, StartCapture,
           StartVerify, StartReplay, FinishReplay, Crash
<1>2. ASSUME NEW c \in Commits, Deploy(c) PROVE TypeOK' /\ JobShape'
  <2>1. Serving \in Commits \cup {None}
    <3>1. shipped # <<>> => Len(shipped) \in 1..Len(shipped)
      BY DEF TypeOK
    <3> QED
      BY <3>1 DEF Serving, TypeOK
  <2>2. shipped' \in Seq(Commits)
    BY <1>2 DEF Deploy, TypeOK
  <2>3. ASSUME NEW prev \in {Serving, None}
        PROVE  Append(deploys, [sha |-> c, prev |-> prev]) \in Seq(Deployment)
    <3>1. [sha |-> c, prev |-> prev] \in Deployment
      BY <2>1 DEF Deployment
    <3> QED
      BY <3>1 DEF TypeOK
  <2>4. deploys' \in Seq(Deployment)
    BY <1>2, <2>3 DEF Deploy, TypeOK
  <2> QED
    BY <1>2, <2>2, <2>4 DEF Deploy, TypeOK, JobShape
<1>3. CASE UNCHANGED vars
  BY <1>3 DEF vars, TypeOK, JobShape
<1> QED
  BY <1>1, <1>2, <1>3 DEF Next

\* What supersede() does to each row: nothing, or it becomes the new claim.
LEMMA SupersedeEffect ==
    ASSUME TypeOK, NEW existing \in HypIds \cup {None}, NEW loaded,
           NEW row \in Hypothesis, Supersede(existing, loaded, row),
           existing # None => /\ hyps[existing] # None
                              /\ hyps[existing].incident = row.incident
    PROVE  \A h \in HypIds :
              \/ hyps'[h] = hyps[h]
              \/ /\ hyps'[h] # None
                 /\ hyps'[h].incident = row.incident
                 /\ hyps'[h].kind = row.kind
                 /\ hyps'[h].cites = row.cites
                 /\ hyps[h] # None => hyps[h].incident = row.incident
                 /\ \/ hyps'[h].score = row.score
                    \/ hyps[h] # None /\ hyps'[h].score = hyps[h].score
<1>1. CASE existing = None
  BY <1>1, NoneIsNoValue DEF TypeOK, Supersede, FreeIds
<1>2. CASE existing # None
  <2>1. hyps[existing] \in Hypothesis /\ existing \in HypIds
    BY <1>2 DEF TypeOK
  <2> DEFINE r == Refreshed(hyps[existing], loaded, row)
  <2>2. r \in Hypothesis
    BY <2>1 DEF Refreshed, Hypothesis
  <2>3. /\ r.incident = row.incident /\ r.kind = row.kind /\ r.cites = row.cites
        /\ r.score = row.score \/ r.score = hyps[existing].score
    BY DEF Refreshed
  <2>4. hyps' = [hyps EXCEPT ![existing] = r]
    BY <1>2 DEF Supersede
  <2> HIDE DEF r
  <2>5. r # None
    BY <2>2, NoneIsNoValue
  <2> QED
    BY <1>2, <2>1, <2>3, <2>4, <2>5 DEF TypeOK
<1> QED
  BY <1>1, <1>2

\* A detection's hypothesis, if any, goes to a free id; an investigation's to a
\* free id or to the row of the same incident.
LEMMA HypothesesStep ==
    ASSUME TypeOK, JobShape, RememberedRowsStayValid, NEW p \in Procs,
           NEW seen \in SUBSET Commits,
           CommitDetection(p, seen) \/ CommitInvestigation(p)
    PROVE  LET i == job[p].incident
               v == job[p].row
               fs == IF job[p].pc = "opening" THEN Gathered(i, job[p].seen, seen)
                                              ELSE FactsOf(i)
           IN  /\ i \in Ticks /\ v \in Incident /\ fs \in SUBSET Fact
               /\ \A h \in HypIds :
                     \/ hyps'[h] = hyps[h]
                     \/ \E share \in Shares :
                          /\ hyps'[h] # None
                          /\ hyps'[h].incident = i
                          /\ hyps'[h].kind = Correlate(i, v, fs, share).kind
                          /\ hyps'[h].cites = Supporting(fs)
                          /\ hyps[h] # None => hyps[h].incident = i
                          /\ \/ hyps'[h].score = Correlate(i, v, fs, share).score
                             \/ hyps[h] # None /\ hyps'[h].score = hyps[h].score
<1> DEFINE i == job[p].incident
           v == job[p].row
           fs == IF job[p].pc = "opening" THEN Gathered(i, job[p].seen, seen) ELSE FactsOf(i)
<1>1. i \in Ticks /\ v \in Incident /\ fs \in SUBSET Fact
  BY DetectionRow, InvestigationRow DEF CommitDetection, CommitInvestigation, Committed
<1>2. ASSUME NEW share \in Shares, NEW existing \in HypIds \cup {None}, NEW loaded,
             Supersede(existing, loaded, Correlate(i, v, fs, share)),
             existing # None => hyps[existing] # None /\ hyps[existing].incident = i
      PROVE  \A h \in HypIds :
                \/ hyps'[h] = hyps[h]
                \/ /\ hyps'[h] # None
                   /\ hyps'[h].incident = i
                   /\ hyps'[h].kind = Correlate(i, v, fs, share).kind
                   /\ hyps'[h].cites = Supporting(fs)
                   /\ hyps[h] # None => hyps[h].incident = i
                   /\ \/ hyps'[h].score = Correlate(i, v, fs, share).score
                      \/ hyps[h] # None /\ hyps'[h].score = hyps[h].score
  <2> DEFINE row == Correlate(i, v, fs, share)
  <2>1. row \in Hypothesis
    BY <1>1, CorrelateType
  <2>2. row.incident = i /\ row.cites = Supporting(fs)
    BY DEF Correlate
  <2>3. Supersede(existing, loaded, row)
    BY <1>2
  <2> HIDE DEF row
  <2>4. existing # None => hyps[existing] # None /\ hyps[existing].incident = row.incident
    BY <1>2, <2>2
  <2> QED
    BY <2>1, <2>2, <2>3, <2>4, SupersedeEffect DEF row
<1>3. CASE CommitDetection(p, seen)
  <2>1. CASE UNCHANGED hyps
    BY <1>1, <2>1
  <2>2. ASSUME NEW share \in Shares, Supersede(None, None, Correlate(i, v, fs, share))
        PROVE  \A h \in HypIds :
                \/ hyps'[h] = hyps[h]
                \/ /\ hyps'[h] # None
                   /\ hyps'[h].incident = i
                   /\ hyps'[h].kind = Correlate(i, v, fs, share).kind
                   /\ hyps'[h].cites = Supporting(fs)
                   /\ hyps[h] # None => hyps[h].incident = i
                   /\ \/ hyps'[h].score = Correlate(i, v, fs, share).score
                      \/ hyps[h] # None /\ hyps'[h].score = hyps[h].score
    BY <1>2, <2>2
  <2>3. UNCHANGED hyps \/ \E share \in Shares : Supersede(None, None, Correlate(i, v, fs, share))
    BY <1>3 DEF CommitDetection
  <2> QED
    BY <1>1, <2>1, <2>2, <2>3
<1>4. CASE CommitInvestigation(p)
  <2>1. fs = FactsOf(i)
    BY <1>4 DEF CommitInvestigation
  <2>2. PICK share \in Shares : Supersede(job[p].hyp, job[p].loaded, Correlate(i, v, fs, share))
    BY <1>4, <2>1 DEF CommitInvestigation
  <2>3. /\ job[p].hyp \in HypIds \cup {None}
        /\ job[p].hyp # None => hyps[job[p].hyp] # None /\ hyps[job[p].hyp].incident = i
    BY <1>4, InvestigationRow
  <2> QED
    BY <1>1, <1>2, <2>2, <2>3
<1> QED
  BY <1>3, <1>4

LEMMA GrowsStep ==
    ASSUME TypeOK, JobShape, RememberedRowsStayValid, Next
    PROVE  Grows
<1>1. ASSUME NEW p \in Procs, NEW seen \in SUBSET Commits, CommitDetection(p, seen)
      PROVE  Grows
  <2>1. job[p].incident \in Ticks /\ incidents[job[p].incident] = None
    BY <1>1, HypothesesStep DEF CommitDetection, RememberedRowsStayValid, StillTrue
  <2>2. \A i \in Committed : incidents'[i] = incidents[i]
    BY <1>1, <2>1 DEF CommitDetection, Committed, TypeOK
  <2>3. \A h \in HypIds : hyps[h] # None =>
           hyps'[h] # None /\ hyps'[h].incident = hyps[h].incident
    BY <1>1, HypothesesStep
  <2> QED
    BY <1>1, <2>2, <2>3 DEF CommitDetection, Grows
<1>2. ASSUME NEW p \in Procs, CommitInvestigation(p) PROVE Grows
  <2>1. \A h \in HypIds : hyps[h] # None =>
           hyps'[h] # None /\ hyps'[h].incident = hyps[h].incident
    BY <1>2, HypothesesStep
  <2> QED
    BY <1>2, <2>1 DEF CommitInvestigation, Grows
<1>3. ASSUME NEW p \in Procs, NEW methods \in SUBSET Methods, CommitCapture(p, methods)
      PROVE  Grows
  BY <1>3 DEF CommitCapture, Grows
<1>4. ASSUME NEW p \in Procs, RecordVerification(p) PROVE Grows
  BY <1>4 DEF RecordVerification, Grows
<1>5. ASSUME UNCHANGED <<incidents, facts, hyps, captures, verifs>> PROVE Grows
  BY <1>5 DEF Grows
<1> QED
  BY ZenonT(30), <1>1, <1>2, <1>3, <1>4, <1>5, ViewsAssumption
     DEF Next, Command, Deploy, Detect, StartInvestigate, GitUnavailable, SelectExisting,
         StartCapture, StartVerify, StartReplay, FinishReplay, Crash

-----------------------------------------------------------------------------
(* The inductive invariant.                                                *)

\* A tick is handed out before an incident can have it.
TicksAreHandedOut ==
    /\ \A t \in Ticks : incidents[t] # None => t <= opened
    /\ \A p \in Procs : job[p].pc = "opening" => job[p].incident <= opened

\* capture records every request, and flags the ones that can be replayed.
CapturesAreFlagged == \A r \in captures : r = CapturedRow(r.incident, r.method)

IInv ==
    /\ TypeOK /\ JobShape /\ TicksAreHandedOut /\ RememberedRowsStayValid
    /\ EvidenceIsWhole /\ LatencyIsReproducible
    /\ CitesOwnEvidence /\ ScoreIsEarned
    /\ ConfirmedIsReal /\ NeverAboutOlder
    /\ CapturesAreFlagged /\ SendsOnlySafeRequests

LEMMA IInvInit == Init => IInv
<1> SUFFICES ASSUME Init PROVE IInv
  OBVIOUS
<1>1. TypeOK /\ JobShape
  BY TypedInit
<1>2. Committed = {} /\ facts = {} /\ verifs = {} /\ \A h \in HypIds : hyps[h] = None
  BY DEF Init, Committed
<1>3. \A p \in Procs : job[p].pc = "idle" /\ job[p].hyp = None /\ job[p].about = None
                       /\ job[p].outcome # "reproduced"
  BY NoneIsNoValue DEF Init, Idle, Outcomes
<1>4. TicksAreHandedOut
  BY <1>3 DEF TicksAreHandedOut, Init
<1>5. RememberedRowsStayValid
  BY <1>3 DEF RememberedRowsStayValid, StillTrue
<1>6. EvidenceIsWhole /\ LatencyIsReproducible /\ CitesOwnEvidence /\ ScoreIsEarned
  BY <1>2 DEF EvidenceIsWhole, LatencyIsReproducible, CitesOwnEvidence, ScoreIsEarned
<1>7. ConfirmedIsReal /\ NeverAboutOlder /\ SendsOnlySafeRequests /\ CapturesAreFlagged
  BY <1>2, <1>3 DEF Init, ConfirmedIsReal, NeverAboutOlder, SendsOnlySafeRequests,
                    CapturesAreFlagged
<1> QED
  BY <1>1, <1>4, <1>5, <1>6, <1>7 DEF IInv

\* Only detect() opens an incident, under a tick of its own.
LEMMA OnlyDetectOpens ==
    ASSUME TypeOK, NEW p \in Procs, Command(p), job'[p].pc = "opening"
    PROVE  job'[p].incident = opened + 1 /\ opened' = opened + 1
<1>1. job \in [Procs -> Job]
  BY DEF TypeOK
<1>2. ASSUME NEW j, Continue(p, j) PROVE j.pc = "opening" /\ job'[p] = j
  BY <1>1, <1>2 DEF Continue
<1>3. ~End(p)
  BY <1>2 DEF End, Idle
<1>4. ASSUME NEW samples \in Views, NEW spans \in Views, NEW quantiles \in Views,
             NEW detects \in BOOLEAN, Detect(p, samples, spans, quantiles, detects)
      PROVE  job'[p].incident = opened + 1 /\ opened' = opened + 1
  <2>1. PICK j : Continue(p, j) /\ j.incident = opened + 1
    BY <1>4, DetectOpens
  <2>2. opened' = opened + 1
    BY <1>4 DEF Detect
  <2> QED
    BY <1>2, <2>1, <2>2
<1>5. ASSUME NEW i \in Ticks, StartInvestigate(p, i) \/ StartCapture(p, i) PROVE FALSE
  <2> DEFINE j(pc) == [Idle EXCEPT !.pc = pc, !.incident = i, !.row = incidents[i]]
  <2>1. j("correlating").pc # "opening" /\ j("capturing").pc # "opening"
    BY DEF Idle
  <2>2. Continue(p, j("correlating")) \/ Continue(p, j("capturing"))
    BY <1>5 DEF StartInvestigate, StartCapture, Begin
  <2> HIDE DEF j
  <2> QED
    BY <1>2, <2>1, <2>2
<1>6. ASSUME NEW i \in Ticks, NEW h \in HypIds, StartVerify(p, i, h) PROVE FALSE
  <2> DEFINE j == [Idle EXCEPT !.pc = "verifying", !.incident = i, !.hyp = h]
  <2>1. j.pc # "opening"
    BY DEF Idle
  <2>2. Continue(p, j)
    BY <1>6 DEF StartVerify, Begin
  <2> HIDE DEF j
  <2> QED
    BY <1>2, <2>1, <2>2
<1>7. job[p] \in Job
  BY <1>1
<1>8. ~SelectExisting(p)
  <2>1. [job[p] EXCEPT !.pc = "superseding"].pc # "opening"
    BY <1>7 DEF Job
  <2>2. \A h \in HypIds :
           [job[p] EXCEPT !.pc = "superseding", !.hyp = h, !.loaded = hyps[h].score].pc # "opening"
    BY <1>7 DEF Job
  <2> QED
    BY <1>2, <2>1, <2>2 DEF SelectExisting, HypsOf
<1>9. ~FinishReplay(p)
  <2>1. \A o \in Outcomes : [job[p] EXCEPT !.pc = "recording", !.outcome = o].pc # "opening"
    BY <1>7 DEF Job
  <2> QED
    BY <1>2, <2>1 DEF FinishReplay, Outcomes
<1>10. ASSUME NEW i \in Ticks, StartReplay(p, i) PROVE FALSE
  <2>1. [job[p] EXCEPT !.pc = "recording", !.outcome = "cannot_run"].pc # "opening"
    BY <1>7 DEF Job
  <2>2. ASSUME NEW r \in Replayable(i)
        PROVE  [job[p] EXCEPT !.pc = "replaying", !.about = i, !.sent = r.method].pc # "opening"
    BY <1>7 DEF Job
  <2> QED
    BY <1>2, <1>10, <2>1, <2>2 DEF StartReplay
<1> QED
  BY <1>3, <1>4, <1>5, <1>6, <1>8, <1>9, <1>10, ViewsAssumption
     DEF Command, CommitDetection, GitUnavailable, CommitInvestigation, CommitCapture,
         RecordVerification, Crash

LEMMA TicksStep ==
    ASSUME TypeOK, JobShape, TicksAreHandedOut, Next
    PROVE  TicksAreHandedOut'
<1>1. opened \in Nat /\ \A t \in Ticks : t \in Nat
  BY TicksWidth DEF TypeOK
<1>2. ASSUME NEW p \in Procs, Command(p) PROVE TicksAreHandedOut'
  <2>1. opened' = opened \/ opened' = opened + 1
    BY <1>2, ViewsAssumption DEF Command, Detect, CommitDetection, StartInvestigate, GitUnavailable,
                SelectExisting, CommitInvestigation, StartCapture, CommitCapture, StartVerify,
                StartReplay, FinishReplay, RecordVerification, Crash
  <2>2. \A t \in Ticks : incidents'[t] # None => t <= opened
    <3>1. CASE UNCHANGED incidents
      BY <3>1 DEF TicksAreHandedOut
    <3>2. ASSUME NEW seen \in SUBSET Commits, CommitDetection(p, seen)
          PROVE  \A t \in Ticks : incidents'[t] # None => t <= opened
      BY <3>2 DEF CommitDetection, TypeOK, TicksAreHandedOut
    <3> QED
      BY <1>2, <3>1, <3>2, ViewsAssumption
         DEF Command, Detect, StartInvestigate, GitUnavailable, SelectExisting,
             CommitInvestigation, StartCapture, CommitCapture, StartVerify, StartReplay,
             FinishReplay, RecordVerification, Crash
  <2>3. \A q \in Procs : job'[q].pc = "opening" =>
           \/ job'[q].incident = opened'
           \/ job[q].pc = "opening" /\ job'[q].incident = job[q].incident
    BY <1>2, JobStep, ContinueType, OnlyDetectOpens
  <2>4. \A q \in Procs : job[q].pc = "opening" =>
           job[q].incident \in Nat /\ job[q].incident <= opened
    BY <1>1 DEF TypeOK, JobShape, Job, Shape, TicksAreHandedOut
  <2> QED
    BY <1>1, <2>1, <2>2, <2>3, <2>4 DEF TicksAreHandedOut
<1>3. ASSUME NEW c \in Commits, Deploy(c) PROVE TicksAreHandedOut'
  BY <1>3 DEF Deploy, TicksAreHandedOut
<1> QED
  BY <1>2, <1>3 DEF Next

\* What a command remembers survives any step, unless it is the opening of an
\* incident, which its own commit ends.
LEMMA GrowthKeepsMemory ==
    ASSUME TypeOK, Grows, NEW j \in Job, Shape(j), StillTrue(j), j.pc # "opening"
    PROVE  StillTrue(j)'
<1>1. \A i \in Committed : i \in Ticks /\ incidents'[i] = incidents[i] /\ i \in Committed'
  BY DEF Grows, Committed
<1>2. \A h \in HypIds : hyps[h] # None => hyps'[h] # None /\ hyps'[h].incident = hyps[h].incident
  BY DEF Grows
<1>3. j.hyp \in HypIds \cup {None}
  BY DEF Job
<1>4. j.outcome = "reproduced" => j.about # None /\ Amplified(incidents[j.about])
  BY DEF StillTrue, Shape
<1>5. j.about # None => j.about \in Committed /\ j.incident <= j.about
  BY DEF StillTrue
<1>6. j.outcome = "reproduced" => Amplified(incidents'[j.about])
  BY <1>1, <1>4, <1>5
<1>7. /\ j.about # None => j.about \in Committed' /\ j.incident <= j.about
      /\ j.hyp # None => /\ hyps'[j.hyp] # None
                         /\ j.incident \in Committed'
                         /\ hyps'[j.hyp].incident = j.incident
      /\ j.pc \in {"correlating", "superseding", "capturing"} =>
            j.incident \in Committed' /\ j.row = incidents'[j.incident]
  BY <1>1, <1>2, <1>3, <1>5 DEF StillTrue
<1>8. (Amplified(incidents[j.about]))' <=> Amplified(incidents'[j.about])
  BY DEF Amplified
<1> QED
  BY <1>6, <1>7, <1>8 DEF StillTrue

\* The local variables a command goes on with are true of the trail it leaves.
LEMMA MemoryStep ==
    ASSUME TypeOK, JobShape, TicksAreHandedOut, RememberedRowsStayValid, Grows,
           NEW p \in Procs, Command(p)
    PROVE  StillTrue(job[p])'
<1>0. job[p] \in Job /\ Shape(job[p]) /\ StillTrue(job[p])
  BY DEF TypeOK, JobShape, RememberedRowsStayValid
<1>1. ASSUME NEW j, Continue(p, j) PROVE job'[p] = j
  BY <1>1 DEF Continue, TypeOK
<1>2. CASE End(p)
  <2>1. job'[p] = Idle
    BY <1>1, <1>2 DEF End
  <2>2. Idle.pc = "idle" /\ Idle.hyp = None /\ Idle.about = None /\ Idle.outcome # "reproduced"
    BY NoneIsNoValue DEF Idle, Outcomes
  <2> QED
    BY <2>1, <2>2 DEF StillTrue
<1>3. ASSUME NEW samples \in Views, NEW spans \in Views, NEW quantiles \in Views,
             NEW detects \in BOOLEAN, Detect(p, samples, spans, quantiles, detects)
      PROVE  StillTrue(job[p])'
  <2>1. PICK j : /\ Continue(p, j) /\ opened + 1 \in Ticks
                 /\ j.pc = "opening" /\ j.incident = opened + 1
                 /\ Reproducible(j.row, j.seen)
                 /\ j.hyp = None /\ j.about = None /\ j.outcome # "reproduced"
    BY <1>3, DetectOpens
  <2>2. job'[p] = j
    BY <1>1, <2>1
  <2>3. ~(opened + 1 <= opened) /\ incidents' = incidents
    BY <1>3, TicksWidth DEF Detect, TypeOK
  <2>4. incidents'[j.incident] = None
    BY <2>1, <2>3 DEF TicksAreHandedOut
  <2> QED
    BY <2>1, <2>2, <2>4 DEF StillTrue, Reproducible
<1>4. ASSUME NEW i \in Ticks, StartInvestigate(p, i) \/ StartCapture(p, i)
      PROVE  StillTrue(job[p])'
  <2> DEFINE j(pc) == [Idle EXCEPT !.pc = pc, !.incident = i, !.row = incidents[i]]
  <2>1. ASSUME NEW pc \in {"correlating", "capturing"}
        PROVE  /\ j(pc).pc = pc /\ j(pc).incident = i /\ j(pc).row = incidents[i]
               /\ j(pc).hyp = None /\ j(pc).about = None /\ j(pc).outcome # "reproduced"
    BY NoneIsNoValue DEF Idle, Outcomes
  <2>2. PICK pc \in {"correlating", "capturing"} : Continue(p, j(pc))
    BY <1>4 DEF StartInvestigate, StartCapture, Begin
  <2>3. job'[p] = j(pc)
    BY <1>1, <2>2
  <2>4. i \in Committed' /\ incidents'[i] = incidents[i]
    BY <1>4 DEF StartInvestigate, StartCapture, IsLatest, Committed
  <2> HIDE DEF j
  <2> QED
    BY <2>1, <2>3, <2>4 DEF StillTrue
<1>5. CASE SelectExisting(p)
  <2>1. job[p].pc = "correlating" /\ UNCHANGED <<incidents, hyps>>
    BY <1>5 DEF SelectExisting
  <2>2. job[p].hyp = None /\ job[p].about = None /\ job[p].outcome # "reproduced"
    BY <1>0, <2>1, NoneIsNoValue DEF Shape, Outcomes
  <2>3. /\ job'[p].pc = "superseding"
        /\ job'[p].incident = job[p].incident /\ job'[p].row = job[p].row
        /\ job'[p].about = None /\ job'[p].outcome # "reproduced"
        /\ job'[p].hyp = None \/ job'[p].hyp \in HypsOf(job[p].incident)
    <3>1. CASE Continue(p, [job[p] EXCEPT !.pc = "superseding"])
      BY <1>0, <1>1, <2>2, <3>1 DEF Job
    <3>2. ASSUME NEW h \in HypsOf(job[p].incident),
                 Continue(p, [job[p] EXCEPT !.pc = "superseding", !.hyp = h,
                                            !.loaded = hyps[h].score])
          PROVE  /\ job'[p].pc = "superseding"
                 /\ job'[p].incident = job[p].incident /\ job'[p].row = job[p].row
                 /\ job'[p].about = None /\ job'[p].outcome # "reproduced"
                 /\ job'[p].hyp \in HypsOf(job[p].incident)
      BY <1>0, <1>1, <2>2, <3>2 DEF Job
    <3> QED
      BY <1>5, <3>1, <3>2 DEF SelectExisting
  <2>4. job[p].incident \in Committed /\ job[p].row = incidents[job[p].incident]
    BY <1>0, <2>1 DEF StillTrue
  <2> QED
    BY <2>1, <2>3, <2>4 DEF StillTrue, HypsOf, Committed
<1>6. ASSUME NEW i \in Ticks, NEW h \in HypIds, StartVerify(p, i, h)
      PROVE  StillTrue(job[p])'
  <2> DEFINE j == [Idle EXCEPT !.pc = "verifying", !.incident = i, !.hyp = h]
  <2>1. j.pc = "verifying" /\ j.incident = i /\ j.hyp = h /\ j.about = None
        /\ j.outcome # "reproduced"
    BY NoneIsNoValue DEF Idle, Outcomes
  <2>2. Continue(p, j)
    BY <1>6 DEF StartVerify, Begin
  <2> HIDE DEF j
  <2>3. job'[p] = j
    BY <1>1, <2>2
  <2> QED
    BY <1>6, <2>1, <2>3 DEF StartVerify, IsLatest, HypsOf, Committed, StillTrue
<1>7. ASSUME NEW i \in Ticks, StartReplay(p, i) PROVE StillTrue(job[p])'
  <2>1. /\ job[p].pc = "verifying" /\ UNCHANGED <<incidents, hyps>>
        /\ i \in Committed /\ \A u \in Committed : u <= i
    BY <1>7 DEF StartReplay, IsLatest
  <2>2. job[p].hyp # None /\ job[p].about = None
    BY <1>0, <2>1 DEF Shape
  <2>3. /\ hyps[job[p].hyp] # None /\ job[p].incident \in Committed
        /\ hyps[job[p].hyp].incident = job[p].incident
    BY <1>0, <2>2 DEF StillTrue
  <2>4. /\ job'[p].pc \in {"recording", "replaying"}
        /\ job'[p].incident = job[p].incident /\ job'[p].hyp = job[p].hyp
        /\ job'[p].about \in {None, i} /\ job'[p].outcome # "reproduced"
    <3>1. CASE Continue(p, [job[p] EXCEPT !.pc = "recording", !.outcome = "cannot_run"])
      BY ZenonT(30), <1>0, <1>1, <2>2, <3>1 DEF Job
    <3>2. ASSUME NEW r \in Replayable(i),
                 Continue(p, [job[p] EXCEPT !.pc = "replaying", !.about = i, !.sent = r.method])
          PROVE  /\ job'[p].pc = "replaying"
                 /\ job'[p].incident = job[p].incident /\ job'[p].hyp = job[p].hyp
                 /\ job'[p].about = i /\ job'[p].outcome # "reproduced"
      <4>1. job[p].outcome # "reproduced"
        BY <1>0, <2>1, NoneIsNoValue DEF Shape, Outcomes
      <4> QED
        BY <1>0, <1>1, <3>2, <4>1 DEF Job
    <3> QED
      BY <1>7, <3>1, <3>2 DEF StartReplay
  <2> QED
    BY <2>1, <2>3, <2>4 DEF StillTrue, Committed
<1>8. CASE FinishReplay(p)
  <2>1. job[p].pc = "replaying" /\ UNCHANGED <<incidents, hyps>>
    BY <1>8 DEF FinishReplay
  <2>2. PICK o \in {"unclean", "crashed", IF Amplified(incidents[job[p].about])
                                          THEN "reproduced" ELSE "not_reproduced"} :
           Continue(p, [job[p] EXCEPT !.pc = "recording", !.outcome = o])
    BY <1>8 DEF FinishReplay
  <2>3. /\ job'[p].pc = "recording" /\ job'[p].outcome = o
        /\ job'[p].hyp = job[p].hyp /\ job'[p].incident = job[p].incident
        /\ job'[p].about = job[p].about
    BY <1>0, <1>1, <2>2 DEF Job
  <2>4. o = "reproduced" => Amplified(incidents[job[p].about])
    OBVIOUS
  <2>5. o = "reproduced" => Amplified(incidents'[job'[p].about])
    BY <2>1, <2>3, <2>4
  <2>6. (Amplified(incidents[job[p].about]))' <=> Amplified(incidents'[job'[p].about])
    BY DEF Amplified
  <2> QED
    BY <1>0, <2>1, <2>3, <2>5, <2>6 DEF StillTrue, Committed
<1> QED
  BY <1>2, <1>3, <1>4, <1>5, <1>6, <1>7, <1>8, ViewsAssumption
     DEF Command, CommitDetection, GitUnavailable, CommitInvestigation, CommitCapture,
         RecordVerification, Crash

\* An incident being opened stays free until its own command commits it, and no
\* other command opens it.
LEMMA OpeningStep ==
    ASSUME TypeOK, JobShape, TicksAreHandedOut, RememberedRowsStayValid, NEW p \in Procs,
           Command(p)
    PROVE  /\ \A q \in Procs : q # p /\ job[q].pc = "opening" => StillTrue(job[q])'
           /\ \A q, r \in Procs : /\ job'[q].pc = "opening" /\ job'[r].pc = "opening"
                                  /\ job'[q].incident = job'[r].incident
                                  => q = r
<1>1. \A q \in Procs : q # p => job'[q] = job[q]
  BY JobStep, ContinueType
<1>2. \A q \in Procs : job[q].pc = "opening" =>
         /\ incidents[job[q].incident] = None
         /\ Reproducible(job[q].row, job[q].seen)
         /\ job[q].incident \in Ticks /\ job[q].incident <= opened
         /\ job[q].hyp = None /\ job[q].about = None /\ job[q].outcome # "reproduced"
  BY NoneIsNoValue DEF TypeOK, JobShape, Job, Shape, RememberedRowsStayValid, StillTrue,
                       TicksAreHandedOut, Outcomes
<1>3. \A q, r \in Procs : /\ job[q].pc = "opening" /\ job[r].pc = "opening"
                          /\ job[q].incident = job[r].incident
                          => q = r
  BY DEF RememberedRowsStayValid
<1>4. ASSUME NEW q \in Procs, q # p, job[q].pc = "opening",
             incidents'[job[q].incident] = None
      PROVE  StillTrue(job[q])'
  BY <1>1, <1>2, <1>4 DEF StillTrue, Reproducible
<1>5. ASSUME NEW seen \in SUBSET Commits, CommitDetection(p, seen)
      PROVE  \A q \in Procs : q # p /\ job[q].pc = "opening" =>
                incidents'[job[q].incident] = None
  <2>1. job[p].pc = "opening"
    BY <1>5 DEF CommitDetection
  <2> QED
    BY <1>2, <1>3, <1>5, <2>1 DEF CommitDetection, TypeOK
<1>6. ASSUME UNCHANGED incidents
      PROVE  \A q \in Procs : q # p /\ job[q].pc = "opening" =>
                incidents'[job[q].incident] = None
  BY <1>2, <1>6
<1>7. \A q \in Procs : q # p /\ job[q].pc = "opening" => incidents'[job[q].incident] = None
  BY <1>5, <1>6, ViewsAssumption
     DEF Command, Detect, StartInvestigate, GitUnavailable, SelectExisting, CommitInvestigation,
         StartCapture, CommitCapture, StartVerify, StartReplay, FinishReplay,
         RecordVerification, Crash
<1>8. job'[p].pc = "opening" => job'[p].incident = opened + 1
  BY OnlyDetectOpens
<1>9. opened \in Nat
  BY TicksWidth DEF TypeOK
<1> QED
  BY <1>1, <1>2, <1>3, <1>4, <1>7, <1>8, <1>9, TicksWidth

LEMMA MemoryOfAll ==
    ASSUME TypeOK, JobShape, TicksAreHandedOut, RememberedRowsStayValid, Next
    PROVE  RememberedRowsStayValid'
<1>1. ASSUME NEW p \in Procs, Command(p) PROVE RememberedRowsStayValid'
  <2>1. \A q \in Procs : q # p => job'[q] = job[q]
    BY <1>1, JobStep, ContinueType
  <2>2. ASSUME NEW q \in Procs, q # p, job[q].pc # "opening" PROVE StillTrue(job[q])'
    <3>1. job[q] \in Job /\ Shape(job[q]) /\ StillTrue(job[q])
      BY DEF TypeOK, JobShape, RememberedRowsStayValid
    <3>2. PICK j \in Job : j = job[q]
      BY <3>1
    <3>3. StillTrue(j)'
      BY <2>2, <3>1, <3>2, GrowsStep, GrowthKeepsMemory
    <3>4. job'[q] = j
      BY <2>1, <2>2, <3>2
    <3> QED
      BY <3>3, <3>4 DEF StillTrue
  <2>3. StillTrue(job[p])'
    BY <1>1, GrowsStep, MemoryStep
  <2> QED
    BY <1>1, <2>2, <2>3, OpeningStep DEF RememberedRowsStayValid
<1>2. ASSUME NEW c \in Commits, Deploy(c) PROVE RememberedRowsStayValid'
  BY <1>2 DEF Deploy, RememberedRowsStayValid, StillTrue, Committed, Reproducible, Amplified
<1> QED
  BY <1>1, <1>2 DEF Next

LEMMA GatheredIsWhole ==
    ASSUME NEW i, NEW samples, NEW seen
    PROVE  LET fs == Gathered(i, samples, seen)
           IN  /\ \A f \in fs : f.incident = i /\ f.kind \in Kinds
               /\ \A k \in Kinds : \E f \in fs : f.kind = k
               /\ \A f, g \in fs : f.kind = g.kind => f = g
               /\ \A f \in fs : f.kind = "route_duration_samples" => f.seen = samples
<1> DEFINE row(k) == [incident |-> i, kind |-> k,
                      seen |-> IF k = "route_duration_samples" THEN samples ELSE seen]
           fs == Gathered(i, samples, seen)
<1>1. \A k : /\ row(k).incident = i /\ row(k).kind = k
             /\ k = "route_duration_samples" => row(k).seen = samples
  OBVIOUS
<1>2. fs = {row(k) : k \in Kinds}
  BY DEF Gathered
<1> HIDE DEF row, fs
<1>3. /\ \A f \in fs : f.incident = i /\ f.kind \in Kinds
      /\ \A k \in Kinds : \E f \in fs : f.kind = k
      /\ \A f, g \in fs : f.kind = g.kind => f = g
      /\ \A f \in fs : f.kind = "route_duration_samples" => f.seen = samples
  BY <1>1, <1>2
<1> QED
  BY <1>3 DEF fs

\* A step that commits incident i of versions v with the evidence of one gather().
AddsIncident(i, v, samples, seen) ==
    /\ i \notin Committed
    /\ Reproducible(v, samples)
    /\ incidents' = [incidents EXCEPT ![i] = v]
    /\ facts' = facts \cup Gathered(i, samples, seen)
    /\ {f \in facts' : f.incident = i} = Gathered(i, samples, seen)
    /\ \A k \in Committed : {f \in facts' : f.incident = k} = FactsOf(k)

LEMMA DetectionAddsIncident ==
    ASSUME TypeOK, JobShape, RememberedRowsStayValid, EvidenceIsWhole,
           NEW p \in Procs, NEW seen \in SUBSET Commits, CommitDetection(p, seen)
    PROVE  /\ job[p].incident \in Ticks /\ job[p].row \in Incident
           /\ job[p].seen \in SUBSET Commits
           /\ AddsIncident(job[p].incident, job[p].row, job[p].seen, seen)
<1> DEFINE i == job[p].incident
           v == job[p].row
           samples == job[p].seen
           fs == Gathered(i, samples, seen)
<1>1. i \in Ticks /\ v \in Incident
  BY DetectionRow
<1>2. job[p].pc = "opening" /\ job[p] \in Job
  BY DEF CommitDetection, TypeOK
<1>3. samples \in SUBSET Commits
  BY <1>2 DEF Job
<1>4. i \notin Committed /\ Reproducible(v, samples)
  BY <1>2 DEF RememberedRowsStayValid, StillTrue, Committed
<1>5. FactsOf(i) = {}
  BY <1>4 DEF EvidenceIsWhole, FactsOf
<1>6. incidents' = [incidents EXCEPT ![i] = v] /\ facts' = facts \cup fs
  BY DEF CommitDetection
<1>7. \A f \in fs : f.incident = i
  BY GatheredIsWhole
<1> HIDE DEF v, samples, fs
<1>8. {f \in facts' : f.incident = i} = fs
  BY <1>5, <1>6, <1>7 DEF FactsOf
<1>9. \A k \in Committed : {f \in facts' : f.incident = k} = FactsOf(k)
  BY <1>4, <1>6, <1>7 DEF FactsOf
<1> QED
  BY <1>1, <1>3, <1>4, <1>6, <1>8, <1>9 DEF AddsIncident, v, samples, fs

\* The only step that adds facts or incidents adds one whole incident.
LEMMA NewIncident ==
    ASSUME TypeOK, JobShape, RememberedRowsStayValid, EvidenceIsWhole, Next
    PROVE  \/ UNCHANGED <<incidents, facts>>
           \/ \E i \in Ticks, v \in Incident, samples, seen \in SUBSET Commits :
                 AddsIncident(i, v, samples, seen)
<1>1. ASSUME NEW p \in Procs, NEW seen \in SUBSET Commits, CommitDetection(p, seen)
      PROVE  \E i \in Ticks, v \in Incident, samples, view \in SUBSET Commits :
                 AddsIncident(i, v, samples, view)
  BY <1>1, DetectionAddsIncident
<1>2. ASSUME NEW p \in Procs, Command(p), \A seen \in SUBSET Commits : ~CommitDetection(p, seen)
      PROVE  UNCHANGED <<incidents, facts>>
  BY <1>2, ViewsAssumption
     DEF Command, Detect, StartInvestigate, GitUnavailable, SelectExisting,
         CommitInvestigation, StartCapture, CommitCapture, StartVerify, StartReplay,
         FinishReplay, RecordVerification, Crash
<1>3. ASSUME NEW c \in Commits, Deploy(c) PROVE UNCHANGED <<incidents, facts>>
  BY <1>3 DEF Deploy
<1> QED
  BY <1>1, <1>2, <1>3 DEF Next

LEMMA EvidenceStep ==
    ASSUME TypeOK, JobShape, RememberedRowsStayValid, EvidenceIsWhole, LatencyIsReproducible,
           Next
    PROVE  EvidenceIsWhole' /\ LatencyIsReproducible'
<1>1. CASE UNCHANGED <<incidents, facts>>
  BY <1>1 DEF EvidenceIsWhole, LatencyIsReproducible, Committed, FactsOf, Reproducible
<1>2. ASSUME NEW i \in Ticks, NEW v \in Incident, NEW samples \in SUBSET Commits,
             NEW seen \in SUBSET Commits,
             AddsIncident(i, v, samples, seen)
      PROVE  EvidenceIsWhole' /\ LatencyIsReproducible'
  <2>1. Committed' = Committed \cup {i} /\ incidents'[i] = v
    <3>1. incidents'[i] = v /\ \A t \in Ticks : t # i => incidents'[t] = incidents[t]
      BY <1>2 DEF AddsIncident, TypeOK
    <3>2. v # None
      BY NoneIsNoValue
    <3> QED
      BY <3>1, <3>2 DEF Committed
  <2>2. \A k \in Committed : incidents'[k] = incidents[k]
    BY <1>2 DEF AddsIncident, Committed, TypeOK
  <2>3. EvidenceIsWhole'
    <3>1. \A k \in Committed', kind \in Kinds :
             \E f \in FactsOf(k)' : f.kind = kind /\ \A g \in FactsOf(k)' : g.kind = kind => g = f
      BY <1>2, <2>1, GatheredIsWhole DEF AddsIncident, EvidenceIsWhole, FactsOf
    <3>2. \A f \in facts' : f.incident \in Committed'
      BY <1>2, <2>1, GatheredIsWhole DEF AddsIncident, EvidenceIsWhole, FactsOf
    <3> QED
      BY <3>1, <3>2 DEF EvidenceIsWhole
  <2>4. LatencyIsReproducible'
    <3>1. ASSUME NEW k \in Committed', NEW f \in FactsOf(k)', f.kind = "route_duration_samples"
          PROVE  Reproducible(incidents'[k], f.seen)
      BY <1>2, <2>1, <2>2, <3>1, GatheredIsWhole DEF AddsIncident, LatencyIsReproducible, FactsOf
    <3> QED
      BY <3>1 DEF LatencyIsReproducible, Reproducible
  <2> QED
    BY <2>3, <2>4
<1> QED
  BY <1>1, <1>2, NewIncident

\* The facts a claim is computed from are all those of its incident after the
\* step, and one of them counts the database spans.
LEMMA ClaimEvidence ==
    ASSUME TypeOK, JobShape, RememberedRowsStayValid, EvidenceIsWhole,
           NEW p \in Procs, NEW seen \in SUBSET Commits,
           CommitDetection(p, seen) \/ CommitInvestigation(p)
    PROVE  LET i == job[p].incident
               fs == IF job[p].pc = "opening" THEN Gathered(i, job[p].seen, seen)
                                              ELSE FactsOf(i)
           IN  /\ i \in Committed' /\ incidents'[i] = job[p].row
               /\ {f \in facts' : f.incident = i} = fs
               /\ \E f \in fs : f.kind = "db_spans_per_request"
<1> DEFINE i == job[p].incident
           v == job[p].row
<1>1. CASE CommitDetection(p, seen)
  <2>1. job[p].pc = "opening"
    BY <1>1 DEF CommitDetection
  <2>2. i \in Ticks /\ v \in Incident /\ AddsIncident(i, v, job[p].seen, seen)
    BY <1>1, DetectionAddsIncident
  <2>3. incidents'[i] = v /\ v # None
    BY <2>2, NoneIsNoValue DEF AddsIncident, TypeOK
  <2>4. \E f \in Gathered(i, job[p].seen, seen) : f.kind = "db_spans_per_request"
    BY GatheredIsWhole DEF Kinds
  <2> QED
    BY <2>1, <2>2, <2>3, <2>4 DEF AddsIncident, Committed
<1>2. CASE CommitInvestigation(p)
  <2>1. job[p].pc = "superseding" /\ UNCHANGED <<incidents, facts>>
    BY <1>2 DEF CommitInvestigation
  <2>2. i \in Committed /\ v = incidents[i]
    BY <1>2, InvestigationRow
  <2>3. \E f \in FactsOf(i) : f.kind = "db_spans_per_request"
    BY <2>2 DEF EvidenceIsWhole, Kinds
  <2> QED
    BY <2>1, <2>2, <2>3 DEF Committed, FactsOf
<1> QED
  BY <1>1, <1>2

\* A claim that is written or rewritten cites facts of its incident; above the
\* ceiling they show the new work, even when the score is an older one that the
\* ORM did not write again, because the older evidence is still there.
LEMMA ClaimStep ==
    ASSUME TypeOK, JobShape, RememberedRowsStayValid, EvidenceIsWhole,
           CitesOwnEvidence, ScoreIsEarned, Next,
           NEW p \in Procs, NEW seen \in SUBSET Commits,
           CommitDetection(p, seen) \/ CommitInvestigation(p)
    PROVE  CitesOwnEvidence' /\ ScoreIsEarned'
<1> DEFINE i == job[p].incident
           v == job[p].row
           fs == IF job[p].pc = "opening" THEN Gathered(i, job[p].seen, seen) ELSE FactsOf(i)
<1>1. i \in Ticks /\ v \in Incident /\ fs \in SUBSET Fact
  BY HypothesesStep
<1>2. \A h \in HypIds :
         \/ hyps'[h] = hyps[h]
         \/ \E share \in Shares :
              /\ hyps'[h] # None
              /\ hyps'[h].incident = i
              /\ hyps'[h].kind = Correlate(i, v, fs, share).kind
              /\ hyps'[h].cites = Supporting(fs)
              /\ hyps[h] # None => hyps[h].incident = i
              /\ \/ hyps'[h].score = Correlate(i, v, fs, share).score
                 \/ hyps[h] # None /\ hyps'[h].score = hyps[h].score
  BY HypothesesStep
<1>3. /\ i \in Committed' /\ incidents'[i] = v
      /\ {f \in facts' : f.incident = i} = fs
      /\ \E f \in fs : f.kind = "db_spans_per_request"
  BY ClaimEvidence
<1>4. /\ facts \subseteq facts'
      /\ \A k \in Committed : incidents'[k] = incidents[k] /\ k \in Committed'
  BY GrowsStep DEF Grows, Committed
<1> HIDE DEF i, v, fs
<1>5. /\ Supporting(fs) # {} /\ Supporting(fs) \subseteq fs
      /\ SpansNewWork(v, fs) => SpansNewWork(v, Supporting(fs))
  BY <1>3 DEF Supporting, SpansNewWork
<1>6. \A share \in Shares :
         /\ Correlate(i, v, fs, share).score > TemporalOnlyCeiling => SpansNewWork(v, fs)
         /\ SpansNewWork(v, fs) => Correlate(i, v, fs, share).kind = "change_correlation"
  BY DEF Correlate, Shares, TemporalOnlyCeiling
<1>7. ASSUME NEW h \in HypIds, hyps[h] # None
      PROVE  /\ hyps[h].incident \in Committed
             /\ hyps[h].cites # {}
             /\ hyps[h].cites \subseteq {f \in facts' : f.incident = hyps[h].incident}
             /\ hyps[h].score > TemporalOnlyCeiling =>
                  /\ hyps[h].kind = "change_correlation"
                  /\ SpansNewWork(incidents'[hyps[h].incident], hyps[h].cites)
  BY <1>4, <1>7 DEF CitesOwnEvidence, ScoreIsEarned, FactsOf
<1>8. ASSUME NEW h \in HypIds, hyps'[h] # None
      PROVE  /\ hyps'[h].incident \in Committed'
             /\ hyps'[h].cites # {}
             /\ hyps'[h].cites \subseteq {f \in facts' : f.incident = hyps'[h].incident}
             /\ hyps'[h].score > TemporalOnlyCeiling =>
                  /\ hyps'[h].kind = "change_correlation"
                  /\ SpansNewWork(incidents'[hyps'[h].incident], hyps'[h].cites)
  <2>1. CASE hyps'[h] = hyps[h]
    BY <1>4, <1>7, <1>8, <2>1
  <2>2. CASE hyps'[h] # hyps[h]
    <3>1. PICK share \in Shares :
              /\ hyps'[h].incident = i
              /\ hyps'[h].kind = Correlate(i, v, fs, share).kind
              /\ hyps'[h].cites = Supporting(fs)
              /\ hyps[h] # None => hyps[h].incident = i
              /\ \/ hyps'[h].score = Correlate(i, v, fs, share).score
                 \/ hyps[h] # None /\ hyps'[h].score = hyps[h].score
      BY <1>2, <2>2
    <3>2. hyps'[h].score > TemporalOnlyCeiling => SpansNewWork(v, fs)
      <4>1. CASE hyps'[h].score = Correlate(i, v, fs, share).score
        BY <1>6, <4>1
      <4>2. CASE hyps[h] # None /\ hyps'[h].score = hyps[h].score
        BY <1>3, <1>7, <3>1, <4>2 DEF SpansNewWork
      <4> QED
        BY <3>1, <4>1, <4>2
    <3> QED
      BY <1>3, <1>5, <1>6, <3>1, <3>2
  <2> QED
    BY <2>1, <2>2
<1>9. CitesOwnEvidence'
  BY <1>8 DEF CitesOwnEvidence, FactsOf
<1>10. ScoreIsEarned'
  BY <1>8 DEF ScoreIsEarned, SpansNewWork
<1> QED
  BY <1>9, <1>10

LEMMA ClaimsStep ==
    ASSUME TypeOK, JobShape, RememberedRowsStayValid, EvidenceIsWhole,
           CitesOwnEvidence, ScoreIsEarned, Next
    PROVE  CitesOwnEvidence' /\ ScoreIsEarned'
<1>1. ASSUME NEW p \in Procs, NEW seen \in SUBSET Commits,
             CommitDetection(p, seen) \/ CommitInvestigation(p)
      PROVE  CitesOwnEvidence' /\ ScoreIsEarned'
  BY <1>1, ClaimStep
<1>2. CASE UNCHANGED <<incidents, facts, hyps>>
  BY <1>2 DEF CitesOwnEvidence, ScoreIsEarned, Committed, FactsOf, SpansNewWork
<1>3. {} \in SUBSET Commits
  OBVIOUS
<1> QED
  BY ZenonT(30), <1>1, <1>2, <1>3, ViewsAssumption
     DEF Next, Command, Deploy, Detect, StartInvestigate, GitUnavailable, SelectExisting,
         StartCapture, CommitCapture, StartVerify, StartReplay, FinishReplay,
         RecordVerification, Crash

\* A verification row written now agrees with what its command remembers; the
\* older ones agree with rows that never change.
LEMMA VerificationStep ==
    ASSUME TypeOK, JobShape, RememberedRowsStayValid, ConfirmedIsReal, NeverAboutOlder, Next
    PROVE  ConfirmedIsReal' /\ NeverAboutOlder'
<1>1. /\ \A i \in Committed : incidents'[i] = incidents[i] /\ i \in Committed'
      /\ \A h \in HypIds : hyps[h] # None =>
            hyps'[h] # None /\ hyps'[h].incident = hyps[h].incident
  BY GrowsStep DEF Grows, Committed
<1>2. ASSUME NEW r \in Verification,
             r.verdict = "confirmed" =>
                /\ r.outcome = "reproduced"
                /\ r.about \in Committed
                /\ Amplified(incidents[r.about]),
             hyps[r.hypothesis] # None,
             r.about # None => hyps[r.hypothesis].incident <= r.about
      PROVE  /\ r.verdict = "confirmed" =>
                /\ r.outcome = "reproduced"
                /\ r.about \in Committed'
                /\ Amplified(incidents'[r.about])
             /\ hyps'[r.hypothesis] # None
             /\ r.about # None => hyps'[r.hypothesis].incident <= r.about
  BY <1>1, <1>2 DEF Verification
<1>3. ASSUME NEW r \in verifs
      PROVE  /\ r \in Verification
             /\ r.verdict = "confirmed" =>
                /\ r.outcome = "reproduced"
                /\ r.about \in Committed
                /\ Amplified(incidents[r.about])
             /\ hyps[r.hypothesis] # None
             /\ r.about # None => hyps[r.hypothesis].incident <= r.about
  BY DEF TypeOK, ConfirmedIsReal, NeverAboutOlder
<1>4. ASSUME NEW p \in Procs, RecordVerification(p), NEW r \in verifs', r \notin verifs
      PROVE  /\ r \in Verification
             /\ r.verdict = "confirmed" =>
                /\ r.outcome = "reproduced"
                /\ r.about \in Committed
                /\ Amplified(incidents[r.about])
             /\ hyps[r.hypothesis] # None
             /\ r.about # None => hyps[r.hypothesis].incident <= r.about
  <2>1. job[p] \in Job /\ Shape(job[p]) /\ StillTrue(job[p]) /\ job[p].pc = "recording"
    BY <1>4 DEF TypeOK, JobShape, RememberedRowsStayValid, RecordVerification
  <2>2. /\ r.hypothesis = job[p].hyp /\ r.about = job[p].about /\ r.outcome = job[p].outcome
        /\ r.verdict = VerdictOf(ExitCode(job[p].outcome))
    BY <1>4 DEF RecordVerification
  <2>3. r \in Verification
    BY <1>4, VerificationRow
  <2>4. hyps[r.hypothesis] # None /\ hyps[r.hypothesis].incident = job[p].incident
    BY <2>1, <2>2 DEF Shape, StillTrue
  <2>5. r.verdict = "confirmed" => r.outcome = "reproduced"
    BY <2>1, <2>2 DEF Job, Shape, Outcomes, VerdictOf, ExitCode, InconclusiveCodes
  <2>6. r.outcome = "reproduced" => r.about \in Committed /\ Amplified(incidents[r.about])
    BY <2>1, <2>2 DEF Shape, StillTrue
  <2>7. r.about # None => hyps[r.hypothesis].incident <= r.about
    BY <2>1, <2>2, <2>4 DEF StillTrue
  <2> QED
    BY <2>3, <2>4, <2>5, <2>6, <2>7
<1>5. UNCHANGED verifs \/ \E p \in Procs : RecordVerification(p)
  BY ZenonT(30) DEF Next, Command, Deploy, Detect, CommitDetection, StartInvestigate, GitUnavailable,
         SelectExisting, CommitInvestigation, StartCapture, CommitCapture, StartVerify,
         StartReplay, FinishReplay, Crash
<1>6. ASSUME NEW r \in verifs'
      PROVE  /\ r.verdict = "confirmed" =>
                /\ r.outcome = "reproduced"
                /\ r.about \in Committed'
                /\ Amplified(incidents'[r.about])
             /\ hyps'[r.hypothesis] # None
             /\ r.about # None => hyps'[r.hypothesis].incident <= r.about
  <2>1. CASE r \in verifs
    BY <1>2, <1>3, <2>1
  <2>2. CASE r \notin verifs
    BY <1>2, <1>4, <1>5, <2>2
  <2> QED
    BY <2>1, <2>2
<1>7. ConfirmedIsReal'
  BY <1>6 DEF ConfirmedIsReal, Amplified
<1>8. NeverAboutOlder'
  BY <1>6 DEF NeverAboutOlder
<1> QED
  BY <1>7, <1>8

\* Only StartReplay starts sending, and it sends a request captured as safe.
LEMMA ReplayStart ==
    ASSUME TypeOK, CapturesAreFlagged, NEW p \in Procs, Command(p),
           job'[p].pc = "replaying"
    PROVE  /\ job'[p].sent \in SafeMethods
           /\ CapturedRow(job'[p].about, job'[p].sent) \in captures
<1>1. job \in [Procs -> Job] /\ job[p] \in Job
  BY DEF TypeOK
<1>2. ASSUME NEW j, Continue(p, j) PROVE j.pc = "replaying" /\ job'[p] = j
  BY <1>1, <1>2 DEF Continue
<1>3. ~End(p)
  BY <1>2 DEF End, Idle
<1>4. ASSUME NEW samples \in Views, NEW spans \in Views, NEW quantiles \in Views,
             NEW detects \in BOOLEAN, Detect(p, samples, spans, quantiles, detects)
      PROVE  FALSE
  <2>1. PICK j : Continue(p, j) /\ j.pc = "opening"
    BY <1>4, DetectOpens
  <2> QED
    BY <1>2, <2>1
<1>5. ASSUME NEW i \in Ticks, StartInvestigate(p, i) \/ StartCapture(p, i) PROVE FALSE
  <2> DEFINE j(pc) == [Idle EXCEPT !.pc = pc, !.incident = i, !.row = incidents[i]]
  <2>1. j("correlating").pc # "replaying" /\ j("capturing").pc # "replaying"
    BY DEF Idle
  <2>2. Continue(p, j("correlating")) \/ Continue(p, j("capturing"))
    BY <1>5 DEF StartInvestigate, StartCapture, Begin
  <2> HIDE DEF j
  <2> QED
    BY <1>2, <2>1, <2>2
<1>6. ASSUME NEW i \in Ticks, NEW h \in HypIds, StartVerify(p, i, h) PROVE FALSE
  <2> DEFINE j == [Idle EXCEPT !.pc = "verifying", !.incident = i, !.hyp = h]
  <2>1. j.pc # "replaying"
    BY DEF Idle
  <2>2. Continue(p, j)
    BY <1>6 DEF StartVerify, Begin
  <2> HIDE DEF j
  <2> QED
    BY <1>2, <2>1, <2>2
<1>7. ~SelectExisting(p)
  <2>1. [job[p] EXCEPT !.pc = "superseding"].pc # "replaying"
    BY <1>1 DEF Job
  <2>2. \A h \in HypIds :
           [job[p] EXCEPT !.pc = "superseding", !.hyp = h, !.loaded = hyps[h].score].pc
             # "replaying"
    BY <1>1 DEF Job
  <2> QED
    BY <1>2, <2>1, <2>2 DEF SelectExisting, HypsOf
<1>8. ~FinishReplay(p)
  <2>1. \A o \in Outcomes : [job[p] EXCEPT !.pc = "recording", !.outcome = o].pc # "replaying"
    BY <1>1 DEF Job
  <2> QED
    BY <1>2, <2>1 DEF FinishReplay, Outcomes
<1>9. ASSUME NEW i \in Ticks, StartReplay(p, i)
      PROVE  /\ job'[p].sent \in SafeMethods
             /\ CapturedRow(job'[p].about, job'[p].sent) \in captures
  <2>1. [job[p] EXCEPT !.pc = "recording", !.outcome = "cannot_run"].pc # "replaying"
    BY <1>1 DEF Job
  <2>2. PICK r \in Replayable(i) :
           Continue(p, [job[p] EXCEPT !.pc = "replaying", !.about = i, !.sent = r.method])
    BY <1>2, <1>9, <2>1 DEF StartReplay
  <2>3. job'[p].about = i /\ job'[p].sent = r.method
    <3>1. /\ [job[p] EXCEPT !.pc = "replaying", !.about = i, !.sent = r.method].about = i
          /\ [job[p] EXCEPT !.pc = "replaying", !.about = i, !.sent = r.method].sent = r.method
      BY <1>1 DEF Job
    <3> QED
      BY <1>2, <2>2, <3>1
  <2>4. r \in captures /\ r.incident = i /\ r.replay_safe /\ r = CapturedRow(i, r.method)
    BY <2>2 DEF Replayable, CapturesAreFlagged
  <2>5. r.method \in SafeMethods
    <3> DEFINE safe == r.method \in SafeMethods
    <3>1. CapturedRow(i, r.method).replay_safe = safe
      BY DEF CapturedRow
    <3>2. r.replay_safe = safe
      BY <2>4, <3>1
    <3> QED
      BY <2>4, <3>2, Zenon
  <2> QED
    BY <2>3, <2>4, <2>5
<1> QED
  BY <1>3, <1>4, <1>5, <1>6, <1>7, <1>8, <1>9, ViewsAssumption
     DEF Command, CommitDetection, GitUnavailable, CommitInvestigation, CommitCapture,
         RecordVerification, Crash

LEMMA SafeStep ==
    ASSUME TypeOK, JobShape, CapturesAreFlagged, SendsOnlySafeRequests, Next
    PROVE  CapturesAreFlagged' /\ SendsOnlySafeRequests'
<1>1. ASSUME NEW p \in Procs, NEW methods \in SUBSET Methods, CommitCapture(p, methods)
      PROVE  CapturesAreFlagged' /\ captures \subseteq captures'
  <2>1. \A i, m : CapturedRow(i, m).incident = i /\ CapturedRow(i, m).method = m
    BY DEF CapturedRow
  <2>2. \A r \in captures' :
           r \in captures \/ \E m \in methods : r = CapturedRow(job[p].incident, m)
    BY <1>1 DEF CommitCapture
  <2>3. \A r \in captures' : r = CapturedRow(r.incident, r.method)
    BY <2>1, <2>2 DEF CapturesAreFlagged
  <2>4. CapturesAreFlagged'
    BY <2>3 DEF CapturesAreFlagged, CapturedRow
  <2> QED
    BY <1>1, <2>4 DEF CommitCapture
<1>2. ASSUME UNCHANGED captures PROVE CapturesAreFlagged' /\ captures \subseteq captures'
  BY <1>2 DEF CapturesAreFlagged, CapturedRow
<1>3. CapturesAreFlagged' /\ captures \subseteq captures'
  <2>1. \/ UNCHANGED captures
        \/ \E p \in Procs, methods \in SUBSET Methods : CommitCapture(p, methods)
    <3>1. CASE \E c \in Commits : Deploy(c)
      BY <3>1 DEF Deploy
    <3>2. ASSUME NEW p \in Procs, Command(p)
          PROVE  \/ UNCHANGED captures
                 \/ \E methods \in SUBSET Methods : CommitCapture(p, methods)
      BY ZenonT(30), <3>2
         DEF Command, Detect, CommitDetection, StartInvestigate, GitUnavailable,
             SelectExisting, CommitInvestigation, StartCapture, StartVerify, StartReplay,
             FinishReplay, RecordVerification, Crash
    <3> QED
      BY <3>1, <3>2 DEF Next
  <2> QED
    BY <1>1, <1>2, <2>1
<1>4. ASSUME NEW p \in Procs, Command(p) PROVE SendsOnlySafeRequests'
  <2>1. \A q \in Procs : q # p => job'[q] = job[q]
    BY <1>4, JobStep, ContinueType
  <2>2. job'[p].pc = "replaying" =>
           /\ job'[p].sent \in SafeMethods
           /\ CapturedRow(job'[p].about, job'[p].sent) \in captures
    BY <1>4, ReplayStart
  <2>3. \A q \in Procs : job'[q].pc = "replaying" =>
           /\ job'[q].sent \in SafeMethods
           /\ CapturedRow(job'[q].about, job'[q].sent) \in captures'
    BY <1>3, <2>1, <2>2 DEF SendsOnlySafeRequests
  <2> QED
    BY <2>3 DEF SendsOnlySafeRequests, CapturedRow
<1>5. ASSUME NEW c \in Commits, Deploy(c) PROVE SendsOnlySafeRequests'
  BY <1>5 DEF Deploy, SendsOnlySafeRequests, CapturedRow
<1> QED
  BY <1>3, <1>4, <1>5 DEF Next

LEMMA IInvStep == IInv /\ [Next]_vars => IInv'
<1> SUFFICES ASSUME IInv, [Next]_vars PROVE IInv'
  OBVIOUS
<1>1. CASE Next
  <2>1. TypeOK' /\ JobShape'
    BY <1>1, TypeStep DEF IInv
  <2>2. TicksAreHandedOut'
    BY <1>1, TicksStep DEF IInv
  <2>3. RememberedRowsStayValid'
    BY <1>1, MemoryOfAll DEF IInv
  <2>4. EvidenceIsWhole' /\ LatencyIsReproducible'
    BY <1>1, EvidenceStep DEF IInv
  <2>5. CitesOwnEvidence' /\ ScoreIsEarned'
    BY <1>1, ClaimsStep DEF IInv
  <2>6. ConfirmedIsReal' /\ NeverAboutOlder'
    BY <1>1, VerificationStep DEF IInv
  <2>7. CapturesAreFlagged' /\ SendsOnlySafeRequests'
    BY <1>1, SafeStep DEF IInv
  <2> QED
    BY <2>1, <2>2, <2>3, <2>4, <2>5, <2>6, <2>7 DEF IInv
<1>2. CASE UNCHANGED vars
  <2>1. UNCHANGED <<shipped, deploys, opened, incidents, facts, hyps, captures, verifs, job>>
    BY <1>2 DEF vars
  <2>2. TypeOK' /\ JobShape' /\ TicksAreHandedOut'
    BY <2>1 DEF IInv, TypeOK, JobShape, TicksAreHandedOut
  <2>3. RememberedRowsStayValid'
    BY <2>1 DEF IInv, RememberedRowsStayValid, StillTrue, Committed, Reproducible
  <2>4. EvidenceIsWhole' /\ LatencyIsReproducible'
    BY <2>1 DEF IInv, EvidenceIsWhole, LatencyIsReproducible, Committed, FactsOf, Reproducible
  <2>5. CitesOwnEvidence' /\ ScoreIsEarned'
    BY <2>1 DEF IInv, CitesOwnEvidence, ScoreIsEarned, Committed, FactsOf, SpansNewWork
  <2>6. ConfirmedIsReal' /\ NeverAboutOlder'
    BY <2>1 DEF IInv, ConfirmedIsReal, NeverAboutOlder, Committed, Amplified
  <2>7. CapturesAreFlagged' /\ SendsOnlySafeRequests'
    BY <2>1 DEF IInv, CapturesAreFlagged, SendsOnlySafeRequests, CapturedRow
  <2> QED
    BY <2>2, <2>3, <2>4, <2>5, <2>6, <2>7 DEF IInv
<1> QED
  BY <1>1, <1>2

-----------------------------------------------------------------------------
(* What holds of every execution.                                          *)

LEMMA IInvAlways == Spec => []IInv
  BY IInvInit, IInvStep, PTL DEF Spec

\* Every table row and every local variable of a command has its type.
THEOREM TypeCorrect == Spec => []TypeOK
<1>1. IInv => TypeOK
  BY DEF IInv
<1> QED
  BY <1>1, IInvAlways, PTL

\* What a command read from the trail stays true until it uses it, whatever the
\* other commands commit in between.
THEOREM MemoryIsValid == Spec => []RememberedRowsStayValid
<1>1. IInv => RememberedRowsStayValid
  BY DEF IInv
<1> QED
  BY <1>1, IInvAlways, PTL

\* A visible incident has its whole evidence and no fact is without its incident.
THEOREM EvidenceIntegrity == Spec => []EvidenceIsWhole
<1>1. IInv => EvidenceIsWhole
  BY DEF IInv
<1> QED
  BY <1>1, IInvAlways, PTL

\* The samples an incident cites still trigger the verdict it was opened for.
THEOREM ReproducibleLatency == Spec => []LatencyIsReproducible
<1>1. IInv => LatencyIsReproducible
  BY DEF IInv
<1> QED
  BY <1>1, IInvAlways, PTL

\* A hypothesis cites at least one fact, and only facts of its incident.
THEOREM CitationIntegrity == Spec => []CitesOwnEvidence
<1>1. IInv => CitesOwnEvidence
  BY DEF IInv
<1> QED
  BY <1>1, IInvAlways, PTL

\* A score above the timing-only ceiling rests on a cited fact with new work.
THEOREM EarnedScore == Spec => []ScoreIsEarned
<1>1. IInv => ScoreIsEarned
  BY DEF IInv
<1> QED
  BY <1>1, IInvAlways, PTL

\* A recorded confirmation is of a regression that is really there.
THEOREM RealConfirmation == Spec => []ConfirmedIsReal
<1>1. IInv => ConfirmedIsReal
  BY DEF IInv
<1> QED
  BY <1>1, IInvAlways, PTL

\* Level-3 evidence is never about an incident older than its hypothesis's.
THEOREM NeverOlder == Spec => []NeverAboutOlder
<1>1. IInv => NeverAboutOlder
  BY DEF IInv
<1> QED
  BY <1>1, IInvAlways, PTL

\* A sandbox only receives requests that were captured as safe to replay.
THEOREM SafeReplay == Spec => []SendsOnlySafeRequests
<1>1. IInv => SendsOnlySafeRequests
  BY DEF IInv
<1> QED
  BY <1>1, IInvAlways, PTL

\* Nothing that was committed is ever removed or given to another incident.
THEOREM AppendOnlyTrail == Spec => TrailOnlyGrows
<1>1. IInv /\ [Next]_vars => [Grows]_vars
  BY GrowsStep DEF IInv
<1> QED
  BY <1>1, IInvAlways, PTL DEF Spec, TrailOnlyGrows

-----------------------------------------------------------------------------
(* One process at a time.                                                  *)

\* What supersede() found stays so until it writes.
FoundNone(p) == job[p].pc = "superseding" /\ job[p].hyp = None => HypsOf(job[p].incident) = {}

\* A row for an incident without one, or the rewritten row of the incident.
LEMMA SupersedeKeepsOne ==
    ASSUME TypeOK, OneClaimPerIncident, NEW existing \in HypIds \cup {None}, NEW loaded,
           NEW row \in Hypothesis, Supersede(existing, loaded, row),
           existing = None => HypsOf(row.incident) = {},
           existing # None => /\ hyps[existing] # None
                              /\ hyps[existing].incident = row.incident
    PROVE  OneClaimPerIncident'
<1>1. CASE existing = None
  <2>1. PICK h \in FreeIds : hyps' = [hyps EXCEPT ![h] = row]
    BY <1>1 DEF Supersede
  <2>2. \A g \in HypIds : hyps[g] # None => hyps[g].incident # row.incident
    BY <1>1 DEF HypsOf
  <2> QED
    BY <2>1, <2>2 DEF OneClaimPerIncident, FreeIds, TypeOK
<1>2. CASE existing # None
  <2> DEFINE r == Refreshed(hyps[existing], loaded, row)
  <2>1. r.incident = row.incident
    BY DEF Refreshed
  <2>2. hyps' = [hyps EXCEPT ![existing] = r] /\ existing \in HypIds
    BY <1>2 DEF Supersede
  <2> HIDE DEF r
  <2> QED
    BY <1>2, <2>1, <2>2 DEF OneClaimPerIncident, TypeOK
<1> QED
  BY <1>1, <1>2

\* A command that writes no hypothesis supersedes next only after its SELECT.
LEMMA SupersedesAfterSelect ==
    ASSUME TypeOK, JobShape, NEW p \in Procs, Command(p), ~SelectExisting(p)
    PROVE  job'[p].pc # "superseding"
<1>1. job[p] \in Job
  BY DEF TypeOK
<1>2. ASSUME NEW j, Continue(p, j), j.pc # "superseding"
      PROVE  job'[p].pc # "superseding"
  BY <1>2 DEF TypeOK, Continue
<1>3. Idle.pc # "superseding"
  BY DEF Idle
<1>4. ASSUME NEW samples \in Views, NEW spans \in Views, NEW quantiles \in Views,
             NEW detects \in BOOLEAN, Detect(p, samples, spans, quantiles, detects)
      PROVE  job'[p].pc # "superseding"
  BY <1>2, <1>4, DetectOpens
<1>5. CASE \/ \E seen \in Views : CommitDetection(p, seen)
           \/ GitUnavailable(p) \/ CommitInvestigation(p) \/ RecordVerification(p) \/ Crash(p)
           \/ \E methods \in SUBSET Methods : CommitCapture(p, methods)
  <2>1. Continue(p, Idle)
    BY <1>5 DEF CommitDetection, GitUnavailable, CommitInvestigation, RecordVerification,
       Crash, CommitCapture, End
  <2> QED
    BY <1>2, <1>3, <2>1
<1>6. CASE \E i \in Ticks : StartInvestigate(p, i) \/ StartCapture(p, i)
  <2>1. PICK i \in Ticks, pc \in {"correlating", "capturing"} :
           Continue(p, [Idle EXCEPT !.pc = pc, !.incident = i, !.row = incidents[i]])
    BY <1>6 DEF StartInvestigate, StartCapture, Begin
  <2>2. [Idle EXCEPT !.pc = pc, !.incident = i, !.row = incidents[i]].pc = pc
    BY DEF Idle
  <2> QED
    BY <1>2, <2>1, <2>2
<1>7. CASE \E i \in Ticks, h \in HypIds : StartVerify(p, i, h)
  <2>1. PICK i \in Ticks, h \in HypIds :
           Continue(p, [Idle EXCEPT !.pc = "verifying", !.incident = i, !.hyp = h])
    BY <1>7 DEF StartVerify, Begin
  <2>2. [Idle EXCEPT !.pc = "verifying", !.incident = i, !.hyp = h].pc = "verifying"
    BY DEF Idle
  <2> QED
    BY <1>2, <2>1, <2>2
<1>8. CASE (\E j \in Ticks : StartReplay(p, j)) \/ FinishReplay(p)
  <2>1. CASE \E j \in Ticks : StartReplay(p, j)
    <3>1. \/ \E x : Continue(p, [job[p] EXCEPT !.pc = "recording", !.outcome = x])
          \/ \E x, y : Continue(p, [job[p] EXCEPT !.pc = "replaying", !.about = x, !.sent = y])
      BY <2>1 DEF StartReplay
    <3>2. \A x : [job[p] EXCEPT !.pc = "recording", !.outcome = x].pc = "recording"
      BY <1>1 DEF Job
    <3>3. \A x, y : [job[p] EXCEPT !.pc = "replaying", !.about = x, !.sent = y].pc = "replaying"
      BY <1>1 DEF Job
    <3> QED
      BY <1>2, <3>1, <3>2, <3>3
  <2>2. CASE FinishReplay(p)
    <3>1. PICK x : Continue(p, [job[p] EXCEPT !.pc = "recording", !.outcome = x])
      BY <2>2 DEF FinishReplay
    <3>2. [job[p] EXCEPT !.pc = "recording", !.outcome = x].pc = "recording"
      BY <1>1 DEF Job
    <3> QED
      BY <1>2, <3>1, <3>2
  <2> QED
    BY <1>8, <2>1, <2>2
<1> QED
  BY <1>4, <1>5, <1>6, <1>7, <1>8 DEF Command

LEMMA OneClaimStep ==
    ASSUME NEW p, Procs = {p}, IInv, OneClaimPerIncident, FoundNone(p), [Next]_vars
    PROVE  OneClaimPerIncident' /\ FoundNone(p)'
<1>1. TypeOK /\ JobShape /\ RememberedRowsStayValid /\ CitesOwnEvidence /\ p \in Procs
  BY DEF IInv
<1>2. CASE UNCHANGED vars \/ \E c \in Commits : Deploy(c)
  BY <1>2 DEF vars, Deploy, OneClaimPerIncident, FoundNone, HypsOf
<1>3. CASE SelectExisting(p)
  <2>1. hyps' = hyps /\ OneClaimPerIncident'
    BY <1>3 DEF SelectExisting, OneClaimPerIncident
  <2>2. CASE HypsOf(job[p].incident) = {}
    <3>1. job[p] \in Job /\ Continue(p, [job[p] EXCEPT !.pc = "superseding"])
      BY <1>1, <1>3, <2>2 DEF SelectExisting, TypeOK
    <3>2. job'[p].incident = job[p].incident
      BY <1>1, <3>1 DEF Continue, Job, TypeOK
    <3> QED
      BY <2>1, <2>2, <3>2 DEF FoundNone, HypsOf
  <2>3. CASE HypsOf(job[p].incident) # {}
    <3>1. PICK h \in HypsOf(job[p].incident) :
             Continue(p, [job[p] EXCEPT !.pc = "superseding", !.hyp = h, !.loaded = hyps[h].score])
      BY <1>3, <2>3 DEF SelectExisting
    <3>2. job[p] \in Job /\ job \in [Procs -> Job]
      BY <1>1 DEF TypeOK
    <3>3. job'[p].hyp = h
      BY <1>1, <3>1, <3>2 DEF Continue, Job
    <3>4. h # None
      BY <3>1, NoneIsNoValue DEF HypsOf
    <3> QED
      BY <2>1, <3>3, <3>4 DEF FoundNone
  <2> QED
    BY <2>2, <2>3
<1>4. CASE Command(p) /\ ~SelectExisting(p)
  <2>1. FoundNone(p)'
    BY <1>1, <1>4, SupersedesAfterSelect DEF FoundNone
  <2>2. CASE CommitInvestigation(p)
    <3> DEFINE i == job[p].incident
    <3>1. PICK share \in Shares :
             Supersede(job[p].hyp, job[p].loaded, Correlate(i, job[p].row, FactsOf(i), share))
      BY <2>2 DEF CommitInvestigation
    <3> DEFINE row == Correlate(i, job[p].row, FactsOf(i), share)
    <3>2. row.incident = i
      BY DEF Correlate
    <3>3. /\ i \in Ticks /\ job[p].row \in Incident /\ FactsOf(i) \in SUBSET Fact
          /\ job[p].hyp \in HypIds \cup {None}
          /\ job[p].hyp # None => hyps[job[p].hyp] # None /\ hyps[job[p].hyp].incident = i
      BY <1>1, <2>2, InvestigationRow DEF Committed
    <3>4. row \in Hypothesis
      BY <3>3, CorrelateType
    <3>5. job[p].hyp = None => HypsOf(i) = {}
      BY <2>2 DEF CommitInvestigation, FoundNone
    <3>6. Supersede(job[p].hyp, job[p].loaded, row)
      BY <3>1
    <3> HIDE DEF row, i
    <3>7. OneClaimPerIncident'
      BY <1>1, <3>2, <3>3, <3>4, <3>5, <3>6, SupersedeKeepsOne
    <3> QED
      BY <2>1, <3>7
  <2>3. ASSUME NEW seen \in Views, CommitDetection(p, seen)
        PROVE  OneClaimPerIncident'
    <3> DEFINE i == job[p].incident
               fs == Gathered(i, job[p].seen, seen)
    <3>1. i \in Ticks /\ job[p].row \in Incident /\ fs \in SUBSET Fact
      BY <1>1, <2>3, ViewsAssumption, DetectionRow
    <3>2. i \notin Committed
      BY <1>1, <2>3 DEF CommitDetection, RememberedRowsStayValid, StillTrue, Committed
    <3>3. HypsOf(i) = {}
      BY <1>1, <3>2 DEF CitesOwnEvidence, HypsOf
    <3>4. CASE UNCHANGED hyps
      BY <3>4 DEF OneClaimPerIncident
    <3>5. ASSUME NEW share \in Shares, Supersede(None, None, Correlate(i, job[p].row, fs, share))
          PROVE  OneClaimPerIncident'
      <4> DEFINE row == Correlate(i, job[p].row, fs, share)
      <4>1. row.incident = i
        BY DEF Correlate
      <4>2. row \in Hypothesis
        BY <3>1, CorrelateType
      <4>3. Supersede(None, None, row)
        BY <3>5
      <4> HIDE DEF row, i
      <4> QED
        BY <1>1, <3>3, <4>1, <4>2, <4>3, SupersedeKeepsOne
    <3>6. UNCHANGED hyps \/ \E share \in Shares : Supersede(None, None, Correlate(i, job[p].row, fs, share))
      BY <2>3 DEF CommitDetection
    <3> QED
      BY <3>4, <3>5, <3>6
  <2>4. CASE ~CommitInvestigation(p) /\ \A seen \in Views : ~CommitDetection(p, seen)
    <3>1. hyps' = hyps
      BY <1>4, <2>4 DEF Command, Detect, StartInvestigate, GitUnavailable, SelectExisting,
         StartCapture, CommitCapture, StartVerify, StartReplay, FinishReplay,
         RecordVerification, Crash
    <3>2. OneClaimPerIncident'
      BY <3>1 DEF OneClaimPerIncident
    <3> QED
      BY <2>1, <3>2
  <2> QED
    BY <2>1, <2>2, <2>3, <2>4
<1> QED
  BY <1>2, <1>3, <1>4 DEF Next

\* When commands run one after the other, an incident never has two claims: the row
\* that supersede() selected is the one it rewrites, and a claim that comes with a
\* detection is the first.
THEOREM OneClaim ==
    ASSUME NEW p, Procs = {p}
    PROVE  Spec => []OneClaimPerIncident
<1>1. Init => OneClaimPerIncident /\ FoundNone(p)
  BY DEF Init, OneClaimPerIncident, FoundNone, Idle
<1>2. IInv /\ OneClaimPerIncident /\ FoundNone(p) /\ [Next]_vars
         => OneClaimPerIncident' /\ FoundNone(p)'
  BY OneClaimStep
<1> QED
  BY <1>1, <1>2, IInvAlways, PTL DEF Spec
=============================================================================
