----------------------------- MODULE Measurement -----------------------------
(***************************************************************************)
(* reproducer/replay.py and the waits of reproducer/sandbox.py: one        *)
(* captured request is sent a number of times to a sandbox, and the spans  *)
(* this leaves in the sandbox's own trace table are counted. Two such      *)
(* readings make an experiment: a differential of two commits, a generated *)
(* test that replays at two page sizes against one sandbox, the comparison *)
(* of a patched build with the good one.                                   *)
(*                                                                         *)
(* A request leaves a root span and one database span per operation. They  *)
(* reach the table in batches, in any order and any time after the         *)
(* response: every service exports on a timer of its own, the collector on *)
(* another. The readiness polls of a sandbox leave root spans as well.     *)
(***************************************************************************)
EXTENDS Naturals, Sequences, FiniteSets

CONSTANTS
    Experiments,  \* [judge, replays]: what is replayed, and how it is judged
    Repeat,       \* requests of one replay
    Settle,       \* settle_polls
    Patience,     \* seconds until a wait gives up
    Threshold,    \* --threshold of a differential
    Allowance,    \* SCALING_ALLOWANCE
    Checks,       \* readiness polls whose spans may still be on their way
    MaxFailures,  \* bound on the requests of a replay that fail
    MaxFaults     \* bound on the docker commands that fail and the spans lost

Judges == {"differential", "scaling", "validation"}

\* A fresh replay has a sandbox of its own, any other shares the previous one's.
Replay == [work : Nat, fresh : BOOLEAN]

ASSUME MeasurementAssumption ==
    /\ Repeat \in Nat \ {0} /\ Settle \in Nat \ {0} /\ Patience \in Nat
    /\ Threshold \in Nat \ {0} /\ Allowance \in Nat
    /\ Checks \in Nat /\ MaxFailures \in Nat /\ MaxFaults \in Nat
    /\ \A e \in Experiments :
          /\ e.judge \in Judges
          /\ e.replays \in Seq(Replay) /\ Len(e.replays) = 2 /\ e.replays[1].fresh
          /\ e.judge # "scaling" => e.replays[2].fresh

\* <<replay, request, operation>>: operation 0 is the root span of the request, and
\* replay 0 the readiness polls.
Span == Nat \X Nat \X Nat
IsRoot(s) == s[3] = 0
CheckRoots == {0} \X (1..Checks) \X {0}

VARIABLES
    experiment,  \* the member of Experiments this is
    replay,      \* the replay that runs
    step,        \* where it is
    sent,        \* requests sent
    failures,    \* requests that failed
    held,        \* spans on their way: with the application, or with the collector
    stored,      \* otel_traces of the sandbox
    seen,        \* the last span count
    unchanged,   \* polls that found it unchanged
    waited,      \* seconds of the present wait
    idle,        \* seconds since spans last arrived, up to Settle
    faults,      \* docker commands that failed and spans lost
    readings,    \* measurements made: the spans counted, and the failures
\* What only the properties read:
    disturbed,   \* was a span of an operation lost, or left in the table by a reset?
    paused       \* did operations stay away for Settle seconds when the roots were in?

vars == <<experiment, replay, step, sent, failures, held, stored, seen, unchanged,
          waited, idle, faults, readings, disturbed, paused>>
requests == <<experiment, replay, sent, failures>>
table == <<held, stored, disturbed>>
clock == <<waited, idle, paused>>

Steps == {"ready", "sending", "rooting", "counting", "settling", "measuring",
          "judged", "failed"}

Work == experiment.replays[replay].work

\* The spans of a request, and the operations of a replay.
Spans(n, r, work) == {n} \X {r} \X (0..work)
OwnOperations(n) == {n} \X (1..Repeat) \X (1..experiment.replays[n].work)

\* Mutated: every span counts, not those of the database alone.
AllSpans(spans) == {s \in spans : TRUE}

Operations(spans) == {s \in spans : ~IsRoot(s)}

TypeOK ==
    /\ experiment \in Experiments
    /\ replay \in 1..2
    /\ step \in Steps
    /\ sent \in 0..Repeat
    /\ failures \in 0..Repeat
    /\ held \in SUBSET Span /\ IsFiniteSet(held)
    /\ stored \in SUBSET Span /\ IsFiniteSet(stored)
    /\ seen \in Nat
    /\ unchanged \in 0..Settle
    /\ waited \in 0..Patience
    /\ idle \in 0..Settle
    /\ disturbed \in BOOLEAN /\ paused \in BOOLEAN
    /\ faults \in 0..MaxFaults
    /\ readings \in Seq([spans : SUBSET Span, failures : 0..Repeat])

Init ==
    /\ experiment \in Experiments
    /\ replay = 1
    /\ step = "ready"
    /\ sent = 0 /\ failures = 0
    /\ held \in SUBSET CheckRoots
    /\ stored = CheckRoots \ held
    /\ seen = 0 /\ unchanged = 0 /\ waited = 0 /\ idle = 0
    /\ disturbed = FALSE /\ paused = FALSE
    /\ faults = 0
    /\ readings = <<>>

-----------------------------------------------------------------------------
(* Counting, and the seconds between two counts.                           *)

RootCount == Cardinality({s \in stored : IsRoot(s)})
SpanCount == Cardinality(stored)
Delivered == Repeat - failures

\* Nothing bounds the pause between two batches: it may be as long as the settling.
Second ==
    /\ waited' = waited + 1
    /\ idle' = IF idle < Settle THEN idle + 1 ELSE idle
    /\ paused' = (paused \/ (/\ RootCount >= Delivered /\ idle' = Settle
                             /\ \E s \in Operations(held) : s[1] = replay))

-----------------------------------------------------------------------------
(* Spans on their way to the table.                                        *)

\* A batch is any number of arrivals with no second between them.
Arrive ==
    /\ step \notin {"judged", "failed"}
    /\ \E s \in held : held' = held \ {s} /\ stored' = stored \cup {s}
    /\ idle' = 0
    /\ UNCHANGED <<requests, step, seen, unchanged, waited, faults, readings, disturbed, paused>>

\* A full queue, or an export that fails, drops spans.
Lose ==
    /\ step \notin {"judged", "failed"}
    /\ faults < MaxFaults
    /\ faults' = faults + 1
    /\ \E s \in held : held' = held \ {s} /\ disturbed' = (disturbed \/ ~IsRoot(s))
    /\ UNCHANGED <<requests, step, stored, seen, unchanged, clock, readings>>

-----------------------------------------------------------------------------
(* replay().                                                               *)

\* reset_traces() does not look at the exit code of the command.
Reset ==
    /\ step = "ready"
    /\ step' = "sending"
    /\ \/ stored' = {} /\ UNCHANGED <<disturbed, faults>>
       \/ /\ faults < MaxFaults
          /\ faults' = faults + 1
          /\ disturbed' = (disturbed \/ Operations(stored) # {})
          /\ UNCHANGED stored
    /\ UNCHANGED <<requests, held, seen, unchanged, clock, readings>>

\* A request that fails may have reached the gateway, or the order service.
Send ==
    /\ step = "sending"
    /\ sent < Repeat
    /\ sent' = sent + 1
    /\ LET spans == Spans(replay, sent + 1, Work)
       IN  \/ held' = held \cup spans /\ UNCHANGED failures
           \/ /\ failures < MaxFailures /\ failures' = failures + 1
              /\ \E some \in {{}, {s \in spans : IsRoot(s)}, spans} : held' = held \cup some
    /\ UNCHANGED <<experiment, replay, step, stored, disturbed, seen, unchanged, clock,
                   faults, readings>>

BeginWait ==
    /\ step = "sending"
    /\ sent = Repeat
    /\ step' = "rooting"
    /\ waited' = 0 /\ idle' = 0
    /\ UNCHANGED <<requests, table, seen, unchanged, faults, readings, paused>>

\* A count whose docker command fails is 0.
Counted(count, n) ==
    \/ n = count /\ UNCHANGED faults
    \/ n = 0 /\ faults < MaxFaults /\ faults' = faults + 1

GiveUp ==
    /\ step \in {"rooting", "counting", "settling"}
    /\ waited = Patience
    /\ step' = "failed"
    /\ UNCHANGED <<requests, table, seen, unchanged, clock, faults, readings>>

\* Mutated: the wait for the roots is left out.
SkipRoots ==
    /\ step = "rooting"
    /\ step' = "counting"
    /\ UNCHANGED <<requests, table, seen, unchanged, clock, faults, readings>>

\* Mutated: every poll starts the deadline anew.
AwaitRootsForever ==
    /\ step = "rooting"
    /\ waited' = 0 /\ UNCHANGED <<idle, paused>>
    /\ step' = IF RootCount >= Delivered THEN "counting" ELSE step
    /\ UNCHANGED <<requests, table, seen, unchanged, faults, readings>>

\* wait_for_traces(delivered)
AwaitRoots ==
    /\ step = "rooting"
    /\ waited < Patience
    /\ \E n \in {RootCount, 0} :
          /\ Counted(RootCount, n)
          /\ IF n >= Delivered
             THEN step' = "counting" /\ waited' = 0 /\ UNCHANGED <<idle, paused>>
             ELSE Second /\ UNCHANGED step
    /\ UNCHANGED <<requests, table, seen, unchanged, readings>>

\* wait_until_quiet(minimum=delivered) begins with wait_for_spans(minimum).
AwaitSpans ==
    /\ step = "counting"
    /\ waited < Patience
    /\ \E n \in {SpanCount, 0} :
          /\ Counted(SpanCount, n)
          /\ seen' = n
          /\ IF n >= Delivered
             THEN step' = "settling" /\ waited' = 0 /\ unchanged' = 0 /\ UNCHANGED <<idle, paused>>
             ELSE Second /\ UNCHANGED <<step, unchanged>>
    /\ UNCHANGED <<requests, table, readings>>

\* A second passes, and the spans are counted.
PollSpans ==
    /\ step = "settling"
    /\ waited < Patience
    /\ Second
    /\ \E n \in {SpanCount, 0} :
          /\ Counted(SpanCount, n)
          /\ seen' = n
          /\ unchanged' = IF n = seen THEN unchanged + 1 ELSE 0
          /\ step' = IF unchanged' = Settle THEN "measuring" ELSE step
    /\ UNCHANGED <<requests, table, readings>>

\* The named query span_count_per_trace. A second replay of the same sandbox begins
\* only if the first one measured, not only if it was clean.
Measure ==
    /\ step = "measuring"
    /\ readings' = Append(readings, [spans |-> Operations(stored), failures |-> failures])
    /\ IF replay = 1
       THEN /\ replay' = 2 /\ step' = "ready" /\ sent' = 0 /\ failures' = 0
            /\ IF experiment.replays[2].fresh
               THEN held' \in SUBSET CheckRoots /\ stored' = CheckRoots \ held'
               ELSE UNCHANGED <<held, stored>>
       ELSE step' = "judged" /\ UNCHANGED <<replay, sent, failures, held, stored>>
    /\ seen' = 0 /\ unchanged' = 0 /\ waited' = 0 /\ idle' = 0
    /\ UNCHANGED <<experiment, disturbed, paused, faults>>

-----------------------------------------------------------------------------
(* What is concluded. The work of a request is the quotient of a reading's *)
(* operations and the requests they belong to.                             *)

Larger(a, b) == IF a >= b THEN a ELSE b

PerRequest(reading) ==
    [ops |-> Cardinality(reading.spans),
     per |-> Larger(1, Cardinality({<<s[1], s[2]>> : s \in reading.spans}))]

Exactly(work) == [ops |-> work, per |-> 1]

AtLeast(a, factor, b) == a.ops * b.per >= factor * b.ops * a.per
AtMostMore(a, b, extra) == a.ops * b.per <= (b.ops + extra * b.per) * a.per

\* 1.5 times the good build's work, or one operation more.
AtMostHalfMore(a, b) == 2 * a.ops * b.per <= 3 * b.ops * a.per

Clean(reading) == reading.failures = 0

\* DifferentialResult.ratio >= threshold: infinite over a baseline of nothing.
Amplified(good, bad) ==
    IF good.ops = 0 THEN bad.ops > 0 ELSE AtLeast(bad, Threshold, good)

\* What an experiment says of the two works: the regression reproduces, the work
\* does not grow with the page, the patch restores the work.
Judgement(judge, first, second) ==
    CASE judge = "differential" -> Amplified(first, second)
      [] judge = "scaling"      -> AtMostMore(second, first, Allowance)
      [] judge = "validation"   -> AtMostHalfMore(second, first) \/ AtMostMore(second, first, 1)

\* validate() alone does not ask whether its replays were clean.
Verdict ==
    /\ experiment.judge # "validation" => Clean(readings[1]) /\ Clean(readings[2])
    /\ Judgement(experiment.judge, PerRequest(readings[1]), PerRequest(readings[2]))

-----------------------------------------------------------------------------
Driver ==
    \/ Reset \/ Send \/ BeginWait \/ AwaitRoots \/ AwaitSpans \/ PollSpans \/ Measure
    \/ GiveUp

\* An experiment that is judged, or failed, is over.
Over == step \in {"judged", "failed"} /\ UNCHANGED vars

Next == Driver \/ Arrive \/ Lose \/ Over

Spec == Init /\ [][Next]_vars

\* replay() goes on, and spans that are not lost arrive.
FairSpec == Spec /\ WF_vars(Driver) /\ WF_vars(Arrive)

-----------------------------------------------------------------------------
(* Properties.                                                             *)

Undisturbed(n) ==
    /\ ~disturbed /\ ~paused /\ faults <= Settle
    /\ \A m \in 1..n : Clean(readings[m])

Exact(n) == readings[n].spans = OwnOperations(n)

\* "Measuring while spans are still arriving understates the per-request count, and
\* does so silently" (replay). Whatever is late, lost or failing, a sandbox of its own
\* never makes a replay count more than its own operations. And a clean replay counts
\* all of them, and in a shared sandbox no other's, whatever late roots of readiness
\* polls or earlier requests stand in for its own, if no operation was lost or left
\* behind, and none stayed away for as long as the settling lasts: the waits guarantee
\* no more, and the services' exporters do not guarantee that they need not.
MeasuresItsOwn ==
    \A n \in DOMAIN readings :
        /\ experiment.replays[n].fresh => readings[n].spans \subseteq OwnOperations(n)
        /\ Undisturbed(n) => Exact(n)

Warranted ==
    Judgement(experiment.judge, Exactly(experiment.replays[1].work),
              Exactly(experiment.replays[2].work))

\* What an experiment of two such replays concludes is what the works of the two builds,
\* or of the two page sizes, warrant. And once the good build was measured exactly, a
\* differential claims no amplification that is not there, whatever spans of the bad
\* build were lost, late or never sent.
VerdictIsTrue ==
    step = "judged" =>
        /\ Undisturbed(2) => (Verdict <=> Warranted)
        /\ (experiment.judge = "differential" /\ Exact(1) /\ Verdict) => Warranted

\* Whatever is lost on the way, an experiment ends: it is judged, or it failed.
EveryExperimentEnds == <>(step \in {"judged", "failed"})

\* "The request count is known exactly, so waiting for it is not a guess"
\* (wait_for_traces): when that wait ends, every request that was delivered has
\* its root in the table.
RootsAreAccountedFor ==
    (step \in {"counting", "settling"} /\ failures = 0 /\ faults = 0) =>
        {replay} \X (1..Repeat) \X {0} \subseteq stored

\* "Block until the span count stops rising" (wait_until_quiet), "before measuring": a
\* clean replay of which nothing was lost counts every operation. It would need that no
\* exporter pauses for longer than the count takes to settle.
NothingIsMissed ==
    \A n \in DOMAIN readings :
        (~disturbed /\ faults = 0 /\ \A m \in 1..n : Clean(readings[m])) => Exact(n)

\* "The comparison is not trustworthy" of a replay that did not complete cleanly
\* (differential.py): a conclusion rests on two clean replays.
ConclusionsAreTrustworthy ==
    (step = "judged" /\ Verdict) => \A n \in 1..2 : Clean(readings[n])
=============================================================================
