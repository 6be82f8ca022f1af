------------------------------ MODULE AuditTrail ------------------------------
(***************************************************************************)
(* The audit trail of AfterMerge: the Postgres tables of store/tables.py   *)
(* and the commands that write them (deploy.sh, `detect`, `investigate`,   *)
(* `capture`, `replay` and `verify`), run by concurrent processes.         *)
(*                                                                         *)
(* A command works in one session_scope, hence one transaction: what it    *)
(* reads is committed data (READ COMMITTED, the default), what it writes   *)
(* becomes visible at its commit and vanishes if the process stops first.  *)
(* A command that ends before it writes (nothing to compare, no incident,  *)
(* no regression) changes nothing and has no action.                       *)
(*                                                                         *)
(* One service and one route: every query of the source filters on them.   *)
(***************************************************************************)
EXTENDS Naturals, Sequences, FiniteSets

CONSTANTS
    Procs,       \* processes that run CLI commands
    Commits,     \* commits that can be deployed
    TrueWork,    \* [Commits -> Nat]: database operations per request of a commit
    Slow,        \* commits whose p95 breaches the SLO
    Failing,     \* commits whose error rate exceeds SLO.max_error_rate
    Views,       \* the sets of versions a query may find in its lookback window
    Methods,     \* HTTP methods seen in production
    HypIds,      \* the uuids uuid4() hands to hypotheses (bounds their number)
    MaxDeploys,  \* bound on the runs of deploy.sh
    MaxOpens,    \* bound on the calls of IncidentRepository.open
    MaxVerifs,   \* bound on the rows of `verifications`
    None         \* Python's None

ASSUME BoundsAssumption == MaxDeploys \in Nat /\ MaxOpens \in Nat /\ MaxVerifs \in Nat

ASSUME ViewsAssumption == Views \subseteq SUBSET Commits

\* The instants of detected_at: open() reads the clock, so every call gets a
\* tick of its own. An incident is known by that tick.
Ticks == 1..MaxOpens

Signals == {"latency", "work", "errors"}

\* Columns of an incident: the versions compared and what its summary says.
Incident == [base : Commits, cand : Commits, reasons : SUBSET Signals]

\* specs_for()'s three kinds, in order, and the duration samples detect() adds.
Kinds == {"route_latency_quantiles", "db_spans_per_request",
          "dependency_attribution", "route_duration_samples"}

\* A fact with the versions its query found in the lookback window.
Fact == [incident : Ticks, kind : Kinds, seen : SUBSET Commits]

\* Scores are percentages.
Hypothesis == [incident : Ticks, kind : {"change_correlation", "temporal_correlation"},
               score : 0..100, cites : SUBSET Fact]

ASSUME WorkAssumption == TrueWork \in [Commits -> Nat]

SafeMethods == {"GET", "HEAD", "OPTIONS"}
Outcomes    == {"reproduced", "not_reproduced", "unclean", "crashed", "cannot_run"}
Verdicts    == {"confirmed", "refuted", "errored"}

\* None is no value of any column or local variable that can hold one.
ASSUME NoneAssumption ==
    /\ None \notin Ticks /\ None \notin HypIds /\ None \notin Incident
    /\ None \notin Hypothesis /\ None \notin Outcomes /\ None \notin Methods
    /\ None \notin Commits /\ None \notin 0..100

CapturedRequest == [incident : Ticks, method : Methods, replay_safe : BOOLEAN]

\* `about` and `outcome` are not columns: they remember which incident the
\* replay subprocess measured (None when it measured none) and what happened.
Verification == [hypothesis : HypIds, about : Ticks \cup {None}, outcome : Outcomes,
                 exit_code : 0..2, verdict : Verdicts]

\* The local variables of a running command.
Job == [pc       : {"idle", "opening", "correlating", "superseding", "capturing",
                    "verifying", "replaying", "recording"},
        detects  : BOOLEAN,                    \* `investigate` ran detection itself
        row      : Incident \cup {None},       \* the incident opened or read
        incident : Ticks \cup {None},
        seen     : SUBSET Commits,             \* versions in the duration samples
        hyp      : HypIds \cup {None},
        loaded   : (0..100) \cup {None},       \* score of `existing` when selected
        about    : Ticks \cup {None},          \* incident the subprocess reads
        sent     : Methods \cup {None},
        outcome  : Outcomes \cup {None}]

Idle == [pc |-> "idle", detects |-> FALSE, row |-> None, incident |-> None,
         seen |-> {}, hyp |-> None, loaded |-> None, about |-> None,
         sent |-> None, outcome |-> None]

VARIABLES
    shipped,    \* the versions deployed so far, in order; the last one serves
    deploys,    \* table deployments, by deployed_at: [sha, prev]
    opened,     \* number of detected_at values handed out
    incidents,  \* table incidents, None while not committed
    facts,      \* table facts
    hyps,       \* table hypotheses (generated_by = "correlation.correlate")
    captures,   \* table captured_requests
    verifs,     \* table verifications
    job         \* what each process is doing

vars == <<shipped, deploys, opened, incidents, facts, hyps, captures, verifs, job>>

Deployment == [sha : Commits, prev : Commits \cup {None}]

TypeOK ==
    /\ shipped \in Seq(Commits)
    /\ deploys \in Seq(Deployment)
    /\ opened \in 0..MaxOpens
    /\ incidents \in [Ticks -> Incident \cup {None}]
    /\ facts \subseteq Fact
    /\ hyps \in [HypIds -> Hypothesis \cup {None}]
    /\ captures \subseteq CapturedRequest
    /\ verifs \subseteq Verification
    /\ job \in [Procs -> Job]

Init ==
    /\ shipped = <<>>
    /\ deploys = <<>>
    /\ opened = 0
    /\ incidents = [t \in Ticks |-> None]
    /\ facts = {}
    /\ hyps = [h \in HypIds |-> None]
    /\ captures = {}
    /\ verifs = {}
    /\ job = [p \in Procs |-> Idle]

-----------------------------------------------------------------------------
(* What the tables show a reader.                                          *)

Committed == {t \in Ticks : incidents[t] # None}
\* Mutated: list_recent() without desc().
IsOldest(t) == t \in Committed /\ \A u \in Committed : t <= u
IsLatest(t) == t \in Committed /\ \A u \in Committed : u <= t
FactsOf(i) == {f \in facts : f.incident = i}
HypsOf(i) == {h \in HypIds : hyps[h] # None /\ hyps[h].incident = i}
FreeIds == {h \in HypIds : hyps[h] = None}
\* Mutated: replayable_for_incident() without its replay_safe filter.
AllCaptured(i) == {r \in captures : r.incident = i}
Replayable(i) == {r \in captures : r.incident = i /\ r.replay_safe}

Continue(p, j) == job' = [job EXCEPT ![p] = j]
Begin(p, j) == job[p] = Idle /\ Continue(p, j)
End(p) == Continue(p, Idle)

-----------------------------------------------------------------------------
(* Production: deploys and the telemetry they emit.                        *)

Serving == IF shipped = <<>> THEN None ELSE shipped[Len(shipped)]
Served == {shipped[k] : k \in DOMAIN shipped}

\* A query finds spans of some of the versions that served: a version's spans
\* arrive late and leave the lookback window, so each query chooses afresh.
\* deploy.sh reads the version it replaces from /health, which may not answer,
\* and only warns when the record cannot be written.
Deploy(c) ==
    /\ Len(shipped) < MaxDeploys
    /\ shipped' = Append(shipped, c)
    /\ \/ \E prev \in {Serving, None} :
              deploys' = Append(deploys, [sha |-> c, prev |-> prev])
       \/ UNCHANGED deploys
    /\ UNCHANGED <<opened, incidents, facts, hyps, captures, verifs, job>>

-----------------------------------------------------------------------------
(* detect                                                                  *)

\* DEFAULT_MIN_AMPLIFICATION and DEFAULT_THRESHOLD.
AmplificationThreshold == 3

Work(c, seen) == IF c \in seen THEN TrueWork[c] ELSE 0

\* What evaluate() says of three results that found these versions: a baseline
\* without spans has no ratio, and only the candidate's errors count.
Reasons(d, samples, spans, quantiles) ==
    {s \in Signals :
        \/ s = "latency" /\ d.sha \in samples /\ d.sha \in Slow
        \/ /\ s = "work"
           /\ Work(d.prev, spans) > 0
           /\ Work(d.sha, spans) >= AmplificationThreshold * Work(d.prev, spans)
        \/ s = "errors" /\ d.sha \in quantiles /\ d.sha \in Failing}

\* Latency alone needs enough samples of both versions.
Triggered(d, samples, reasons) ==
    /\ reasons # {}
    /\ reasons = {"latency"} => d.prev \in samples

\* Reads the window and the telemetry, decides, and opens the incident in a
\* transaction that is not committed yet. The three queries run one after the
\* other. `investigate` comes here by itself when it finds no incident (detects).
Detect(p, samples, spans, quantiles, detects) ==
    /\ detects => Committed = {}
    /\ deploys # <<>>
    /\ opened < MaxOpens
    /\ samples \cup spans \cup quantiles \subseteq Served
    /\ LET d == deploys[Len(deploys)]
           reasons == Reasons(d, samples, spans, quantiles)
       IN  /\ d.prev # None /\ d.prev # d.sha
           /\ Triggered(d, samples, reasons)
           /\ Begin(p, [Idle EXCEPT !.pc = "opening", !.detects = detects,
                                    !.row = [base |-> d.prev, cand |-> d.sha,
                                             reasons |-> reasons],
                                    !.incident = opened + 1, !.seen = samples])
    /\ opened' = opened + 1
    /\ UNCHANGED <<shipped, deploys, incidents, facts, hyps, captures, verifs>>

\* Mutated: the samples of the verdict are queried once more.
GatheredAgain(i, samples, seen) ==
    {[incident |-> i, kind |-> k, seen |-> seen] : k \in Kinds}

\* Mutated: a query without rows records no fact.
GatheredNonEmpty(i, samples, seen) ==
    {[incident |-> i, kind |-> k, seen |-> samples] :
        k \in {k \in Kinds : k = "route_duration_samples" \/ seen # {}}}

\* gather(): three queries run again, the duration samples passed through. Of
\* the three only the span counts are read afterwards, so one choice of what
\* the telemetry shows stands for all of them.
Gathered(i, samples, seen) ==
    {[incident |-> i, kind |-> k,
      seen |-> IF k = "route_duration_samples" THEN samples ELSE seen] : k \in Kinds}

-----------------------------------------------------------------------------
(* correlate and supersede                                                 *)

MaterialWorkDelta == 1
TemporalOnlyCeiling == 35

\* Percentages of the new work that the diff's files can account for.
Shares == {0, 100}

\* new_work_total of _site_deltas: a version without rows counts as zero.
NewWork(v, seen) ==
    IF Work(v.cand, seen) > Work(v.base, seen)
    THEN Work(v.cand, seen) - Work(v.base, seen) ELSE 0

\* Mutated: only the span counts that found rows, and no fallback.
SupportingNonEmpty(fs) == {f \in fs : f.kind = "db_spans_per_request" /\ f.seen # {}}

Supporting(fs) ==
    LET spans == {f \in fs : f.kind = "db_spans_per_request"}
    IN  IF spans # {} THEN spans ELSE {f \in fs : f.kind = "route_latency_quantiles"}

SpansNewWork(v, fs) ==
    \E f \in fs : /\ f.kind = "db_spans_per_request"
                  /\ NewWork(v, f.seen) >= MaterialWorkDelta

\* Mutated: no ceiling on a claim that rests on timing alone.
CorrelateUncapped(i, v, fs, share) ==
    [incident |-> i,
     kind  |-> IF SpansNewWork(v, fs) THEN "change_correlation" ELSE "temporal_correlation",
     score |-> share,
     cites |-> Supporting(fs)]

Correlate(i, v, fs, share) ==
    [incident |-> i,
     kind  |-> IF SpansNewWork(v, fs) THEN "change_correlation" ELSE "temporal_correlation",
     score |-> IF SpansNewWork(v, fs) THEN share ELSE TemporalOnlyCeiling,
     cites |-> Supporting(fs)]

\* The ORM writes only the attributes that differ from what the SELECT loaded.
Refreshed(old, loaded, row) ==
    [incident |-> row.incident, kind |-> row.kind, cites |-> row.cites,
     score |-> IF row.score = loaded THEN old.score ELSE row.score]

\* Mutated: the old row is deleted and the new claim inserted.
SupersedeByDelete(existing, loaded, row) ==
    \E h \in FreeIds :
        hyps' = [g \in HypIds |-> CASE g = h -> row
                                     [] g = existing -> None
                                     [] OTHER -> hyps[g]]

\* Mutated: propose() instead of supersede().
SupersedeByInsert(existing, loaded, row) ==
    \E h \in FreeIds : hyps' = [hyps EXCEPT ![h] = row]

\* supersede(): insert when the SELECT found no row, else update that row.
Supersede(existing, loaded, row) ==
    \/ /\ existing = None
       /\ \E h \in FreeIds : hyps' = [hyps EXCEPT ![h] = row]
    \/ /\ existing # None
       /\ hyps' = [hyps EXCEPT ![existing] = Refreshed(hyps[existing], loaded, row)]

\* The transaction of detect() commits: the incident with all of its facts, and
\* in `investigate` the hypothesis too, unless git cannot resolve the commits.
CommitDetection(p, seen) ==
    /\ job[p].pc = "opening"
    /\ seen \subseteq Served
    /\ LET i  == job[p].incident
           v  == job[p].row
           fs == Gathered(i, job[p].seen, seen)
       IN  /\ incidents' = [incidents EXCEPT ![i] = v]
           /\ facts' = facts \cup fs
           /\ \/ UNCHANGED hyps
              \/ /\ job[p].detects
                 /\ \E share \in Shares : Supersede(None, None, Correlate(i, v, fs, share))
    /\ End(p)
    /\ UNCHANGED <<shipped, deploys, opened, captures, verifs>>

-----------------------------------------------------------------------------
(* investigate (and testgen, certify, fix, pr, which call it first)        *)

StartInvestigate(p, i) ==
    /\ IsLatest(i)
    /\ Begin(p, [Idle EXCEPT !.pc = "correlating", !.incident = i, !.row = incidents[i]])
    /\ UNCHANGED <<shipped, deploys, opened, incidents, facts, hyps, captures, verifs>>

\* GitUnavailable is caught: a note in the report and no hypothesis.
GitUnavailable(p) ==
    /\ job[p].pc = "correlating"
    /\ End(p)
    /\ UNCHANGED <<shipped, deploys, opened, incidents, facts, hyps, captures, verifs>>

\* The SELECT of supersede(); .first() is any one of the rows.
SelectExisting(p) ==
    /\ job[p].pc = "correlating"
    /\ LET found == HypsOf(job[p].incident)
       IN  \/ /\ found = {}
              /\ Continue(p, [job[p] EXCEPT !.pc = "superseding"])
           \/ \E h \in found :
                 Continue(p, [job[p] EXCEPT !.pc = "superseding", !.hyp = h,
                                            !.loaded = hyps[h].score])
    /\ UNCHANGED <<shipped, deploys, opened, incidents, facts, hyps, captures, verifs>>

CommitInvestigation(p) ==
    /\ job[p].pc = "superseding"
    /\ \E share \in Shares :
          LET i == job[p].incident
          IN  Supersede(job[p].hyp, job[p].loaded,
                        Correlate(i, job[p].row, FactsOf(i), share))
    /\ End(p)
    /\ UNCHANGED <<shipped, deploys, opened, incidents, facts, captures, verifs>>

-----------------------------------------------------------------------------
(* capture                                                                 *)

StartCapture(p, i) ==
    /\ IsLatest(i)
    /\ Begin(p, [Idle EXCEPT !.pc = "capturing", !.incident = i, !.row = incidents[i]])
    /\ UNCHANGED <<shipped, deploys, opened, incidents, facts, hyps, captures, verifs>>

\* A request with a body is recorded, and flagged as one not to replay.
CapturedRow(i, m) ==
    [incident |-> i, method |-> m, replay_safe |-> m \in SafeMethods]

CommitCapture(p, methods) ==
    /\ job[p].pc = "capturing"
    /\ captures' = captures \cup {CapturedRow(job[p].incident, m) : m \in methods}
    /\ End(p)
    /\ UNCHANGED <<shipped, deploys, opened, incidents, facts, hyps, verifs>>

-----------------------------------------------------------------------------
(* verify and the replay it runs as a subprocess                           *)

\* for_incident() orders by score: the claim verified is the first row.
StartVerify(p, i, h) ==
    /\ IsLatest(i)
    /\ h \in HypsOf(i)
    /\ \A g \in HypsOf(i) : hyps[g].score <= hyps[h].score
    /\ Begin(p, [Idle EXCEPT !.pc = "verifying", !.incident = i, !.hyp = h])
    /\ UNCHANGED <<shipped, deploys, opened, incidents, facts, hyps, captures, verifs>>

\* The subprocess opens a session of its own and reads the latest incident and
\* its replayable requests again: it was not told which incident to replay.
StartReplay(p, j) ==
    /\ job[p].pc = "verifying"
    /\ IsLatest(j)
    /\ \/ /\ Replayable(j) = {}
          /\ Continue(p, [job[p] EXCEPT !.pc = "recording", !.outcome = "cannot_run"])
       \/ \E r \in Replayable(j) :
             Continue(p, [job[p] EXCEPT !.pc = "replaying", !.about = j, !.sent = r.method])
    /\ UNCHANGED <<shipped, deploys, opened, incidents, facts, hyps, captures, verifs>>

\* DifferentialResult.ratio >= threshold; no work on the good side is infinity.
Amplified(v) ==
    IF TrueWork[v.base] = 0
    THEN TrueWork[v.cand] > 0
    ELSE TrueWork[v.cand] >= AmplificationThreshold * TrueWork[v.base]

\* Both sandboxes answer every request cleanly, some request fails, or an
\* exception (SandboxError, WorktreeError) ends the replay.
FinishReplay(p) ==
    /\ job[p].pc = "replaying"
    /\ \E o \in {"unclean", "crashed",
                 IF Amplified(incidents[job[p].about]) THEN "reproduced" ELSE "not_reproduced"} :
          Continue(p, [job[p] EXCEPT !.pc = "recording", !.outcome = o])
    /\ UNCHANGED <<shipped, deploys, opened, incidents, facts, hyps, captures, verifs>>

\* Mutated: the requests that failed are only counted.
ExitCodeIgnoringFailures(o) ==
    CASE o \in {"reproduced", "unclean"} -> 0
      [] o \in {"not_reproduced", "crashed"} -> 1
      [] o = "cannot_run" -> 2

\* The exit codes of `replay`; an uncaught exception ends Python with 1.
ExitCode(o) ==
    CASE o = "reproduced" -> 0
      [] o \in {"not_reproduced", "unclean", "crashed"} -> 1
      [] o = "cannot_run" -> 2

InconclusiveCodes == {2}

VerdictOf(code) ==
    IF code = 0 THEN "confirmed"
    ELSE IF code \in InconclusiveCodes THEN "errored" ELSE "refuted"

RecordVerification(p) ==
    /\ job[p].pc = "recording"
    /\ Cardinality(verifs) < MaxVerifs
    /\ LET code == ExitCode(job[p].outcome)
       IN  verifs' = verifs \cup {[hypothesis |-> job[p].hyp, about |-> job[p].about,
                                   outcome |-> job[p].outcome, exit_code |-> code,
                                   verdict |-> VerdictOf(code)]}
    /\ End(p)
    /\ UNCHANGED <<shipped, deploys, opened, incidents, facts, hyps, captures>>

-----------------------------------------------------------------------------
\* A process is killed, raises, or overruns verify's 1800 s timeout: its
\* session_scope rolls back.
Crash(p) ==
    /\ job[p].pc # "idle"
    /\ End(p)
    /\ UNCHANGED <<shipped, deploys, opened, incidents, facts, hyps, captures, verifs>>

Command(p) ==
    \/ \E samples, spans, quantiles \in Views, detects \in BOOLEAN :
          Detect(p, samples, spans, quantiles, detects)
    \/ \E seen \in Views : CommitDetection(p, seen)
    \/ \E i \in Ticks : StartInvestigate(p, i)
    \/ GitUnavailable(p)
    \/ SelectExisting(p)
    \/ CommitInvestigation(p)
    \/ \E i \in Ticks : StartCapture(p, i)
    \/ \E methods \in SUBSET Methods : CommitCapture(p, methods)
    \/ \E i \in Ticks, h \in HypIds : StartVerify(p, i, h)
    \/ \E j \in Ticks : StartReplay(p, j)
    \/ FinishReplay(p)
    \/ RecordVerification(p)
    \/ Crash(p)

Next ==
    \/ \E c \in Commits : Deploy(c)
    \/ \E p \in Procs : Command(p)

Spec == Init /\ [][Next]_vars

-----------------------------------------------------------------------------
(* Properties.                                                             *)

\* An incident that another session can see has the whole evidence set of
\* gather() and the duration samples, each exactly once, and no fact belongs
\* to an incident that is not there (store/tables.py Fact.incident_id; detect()
\* opens the incident and gathers in one transaction).
EvidenceIsWhole ==
    /\ \A i \in Committed, k \in Kinds :
          \E f \in FactsOf(i) : f.kind = k /\ \A g \in FactsOf(i) : g.kind = k => g = f
    /\ \A f \in facts : f.incident \in Committed

Reproducible(row, samples) ==
    /\ "latency" \in row.reasons <=> row.cand \in samples /\ row.cand \in Slow
    /\ row.reasons = {"latency"} => row.base \in samples

\* What an incident says of latency can be recomputed from the duration samples
\* it cites, however the telemetry moved before it was committed ("so the
\* incident should cite exactly those rows", detector/service.py).
LatencyIsReproducible ==
    \A i \in Committed : \A f \in FactsOf(i) :
        f.kind = "route_duration_samples" => Reproducible(incidents[i], f.seen)

\* "facts.query_name + facts.query_params fully reproduces any number in a
\* report" (docs/PLAN.md): the rise in database work that opened the incident is
\* in the span counts it cites.
WorkIsReproducible ==
    \A i \in Committed : \A f \in FactsOf(i) :
        "work" \in incidents[i].reasons /\ f.kind = "db_spans_per_request" =>
            {incidents[i].base, incidents[i].cand} \subseteq f.seen

\* An inference cites at least one recorded observation, and only observations
\* of its own incident, whoever wrote or rewrote it (HypothesisRepository).
CitesOwnEvidence ==
    \A h \in HypIds : hyps[h] # None =>
        /\ hyps[h].incident \in Committed
        /\ hyps[h].cites # {}
        /\ hyps[h].cites \subseteq FactsOf(hyps[h].incident)

\* A claim above the timing-only ceiling is mechanical, and one of the facts it
\* cites shows the new work it talks about (TEMPORAL_ONLY_CEILING,
\* MATERIAL_WORK_DELTA). Rows are rewritten by later runs, facts are not.
ScoreIsEarned ==
    \A h \in HypIds : hyps[h] # None /\ hyps[h].score > TemporalOnlyCeiling =>
        /\ hyps[h].kind = "change_correlation"
        /\ SpansNewWork(incidents[hyps[h].incident], hyps[h].cites)

\* A recorded confirmation is never believed: both sandboxes answered cleanly
\* and the two commits of the replayed incident really differ by the threshold,
\* whatever signal opened the incident and whatever happened meanwhile.
ConfirmedIsReal ==
    \A r \in verifs : r.verdict = "confirmed" =>
        /\ r.outcome = "reproduced"
        /\ r.about \in Committed
        /\ Amplified(incidents[r.about])

\* The replay of `verify` reads the latest incident on its own. It can miss the
\* hypothesis's incident only for a newer one: the evidence attached to a
\* hypothesis is never about an incident older than the hypothesis's.
NeverAboutOlder ==
    \A r \in verifs :
        /\ hyps[r.hypothesis] # None
        /\ r.about # None => hyps[r.hypothesis].incident <= r.about

\* No request that carries a body reaches a sandbox, and what is sent was
\* captured for the very incident being replayed.
SendsOnlySafeRequests ==
    \A p \in Procs : job[p].pc = "replaying" =>
        /\ job[p].sent \in SafeMethods
        /\ CapturedRow(job[p].about, job[p].sent) \in captures

StillTrue(j) ==
    /\ j.pc = "opening" => incidents[j.incident] = None /\ Reproducible(j.row, j.seen)
    /\ j.pc \in {"correlating", "superseding", "capturing"} =>
          j.incident \in Committed /\ j.row = incidents[j.incident]
    /\ j.hyp # None =>
          /\ hyps[j.hyp] # None
          /\ j.incident \in Committed
          /\ hyps[j.hyp].incident = j.incident
    /\ j.about # None => j.about \in Committed /\ j.incident <= j.about
    /\ j.outcome = "reproduced" => Amplified(incidents[j.about])

\* What a running command remembers of the trail stays true while others commit:
\* the incident it opens is still free, its own, and reproducible from the samples
\* it read; the rows it read are still there and still belong together; and the
\* incident the replay reads is no older than the one `verify` read.
RememberedRowsStayValid ==
    \A p \in Procs :
        /\ StillTrue(job[p])
        /\ \A q \in Procs :
              /\ job[p].pc = "opening" /\ job[q].pc = "opening"
              /\ job[p].incident = job[q].incident
              => p = q

\* supersede(): "Re-running an investigation must not stack a second,
\* contradictory hypothesis beside the first".
OneClaimPerIncident ==
    \A g, h \in HypIds :
        hyps[g] # None /\ hyps[h] # None /\ hyps[g].incident = hyps[h].incident => g = h

\* Verification's docstring: "A run that crashed or could not start is
\* `errored`, never `refuted`".
BrokenRunIsErrored ==
    \A r \in verifs : r.outcome \in {"crashed", "unclean", "cannot_run"} => r.verdict = "errored"

\* verify: "Reproduce the incident in isolation and record the outcome as
\* evidence" -- the incident whose hypothesis receives the evidence.
EvidenceIsAboutItsHypothesis ==
    \A r \in verifs : r.about # None => r.about = hyps[r.hypothesis].incident

\* correlation.py: "no new work at all -> timing alone, capped low". Work is
\* new when the candidate really does more of it than the baseline.
MechanicalClaimHasNewWork ==
    \A h \in HypIds : hyps[h] # None /\ hyps[h].kind = "change_correlation" =>
        LET v == incidents[hyps[h].incident] IN TrueWork[v.cand] > TrueWork[v.base]

\* The trail only grows: what was committed is never removed, and a hypothesis
\* keeps its row and its incident when it is superseded, so the verifications
\* that reference it survive ("deleting one would cascade and destroy level-3
\* evidence").
Grows ==
    /\ facts \subseteq facts' /\ verifs \subseteq verifs' /\ captures \subseteq captures'
    /\ \A i \in Committed : incidents'[i] = incidents[i]
    /\ \A h \in HypIds : hyps[h] # None =>
          hyps'[h] # None /\ hyps'[h].incident = hyps[h].incident

TrailOnlyGrows == [][Grows]_vars
=============================================================================
