---------------------------- MODULE StreamConsumer ----------------------------
(***************************************************************************)
(* `aftermerge stream` (streaming/): a Kafka consumer folds spans into a   *)
(* window per deployed version and tells a verdict whenever it changes.    *)
(*                                                                         *)
(* The topic has one partition; offsets count from 0, and a position or a  *)
(* committed offset is that of the next message. A message is one span, or *)
(* something decode() makes no spans of, or something it cannot read.      *)
(* The consumer runs in one thread: between two calls of the broker it is  *)
(* one step. It can stop at any of them (killed, Ctrl-C, a broker error)   *)
(* and be started again with the same group.                               *)
(***************************************************************************)
EXTENDS Naturals, Sequences

CONSTANTS
    Versions,       \* versions that can be deployed
    TrueWork,       \* [Versions -> Nat]: database spans per request of a version
    Slow,           \* versions whose p95 breaches the SLO
    Failing,        \* versions whose error rate exceeds SLO.max_error_rate
    Junk,           \* messages that are no spans: "malformed" for what json.loads()
                    \* rejects, "not_an_object" for JSON that decode() trips over
    FromBeginning,  \* --from-beginning: auto.offset.reset is "earliest"
    MaxSamples,     \* max_samples
    MinSamples,     \* min_samples
    EvaluateEvery,  \* evaluate_every
    MaxSpans,       \* max_messages
    MaxLog,         \* bound on the messages of the topic
    MaxDeploys,     \* bound on deploys
    MaxStarts,      \* bound on the starts of the consumer
    None            \* Python's None

ASSUME BoundsAssumption ==
    /\ MaxSamples \in Nat \ {0} /\ MinSamples \in Nat /\ EvaluateEvery \in Nat \ {0}
    /\ MaxSpans \in Nat /\ MaxLog \in Nat /\ MaxDeploys \in Nat /\ MaxStarts \in Nat
    /\ FromBeginning \in BOOLEAN /\ TrueWork \in [Versions -> Nat]
    /\ Junk \subseteq {"malformed", "not_an_object"}

\* What observe() keeps of a span: a request of the route, or the database work
\* of one. "other" is every span it does not count.
Message == [version : Versions, part : {"server", "db", "other"}]
               \cup [version : {None}, part : Junk]

Offsets == 0..MaxLog

\* VersionWindow: the offsets of the spans it holds, oldest first, and when it last
\* took one: after which offset, 0 before the first.
Window == [server : Seq(Offsets), db : Seq(Offsets), last_seen : Offsets]
NoWindow == [server |-> <<>>, db |-> <<>>, last_seen |-> 0]

\* The signature of a verdict.
Verdict == [base : Versions, cand : Versions, triggered : BOOLEAN]

\* None is no version, no offset and no verdict.
ASSUME NoneAssumption == None \notin Versions \cup Offsets \cup Verdict

\* consume(): its local variables, and where this process began to read.
Consumer == [pc : {"down", "polling", "committing", "evaluating", "ended", "raised"},
             start : Offsets, position : Offsets, seen : Offsets, since : Offsets,
             last : Verdict \cup {None}]

VARIABLES
    deployed,   \* versions deployed, in order; the last one is live
    log,        \* the topic
    committed,  \* the offset the group has committed, None when it has none
    consumer,
    windows,    \* StreamState.windows
    starts,     \* times the consumer was started
    folded      \* offsets some process of the group has folded in

vars == <<deployed, log, committed, consumer, windows, starts, folded>>
state == <<windows, folded>>

TypeOK ==
    /\ deployed \in Seq(Versions)
    /\ log \in Seq(Message)
    /\ committed \in Offsets \cup {None}
    /\ consumer \in Consumer
    /\ windows \in [Versions -> Window]
    /\ starts \in 0..MaxStarts
    /\ folded \subseteq Offsets

Down == [pc |-> "down", start |-> 0, position |-> 0, seen |-> 0, since |-> 0, last |-> None]

Init ==
    /\ deployed = <<>>
    /\ log = <<>>
    /\ committed = None
    /\ consumer = Down
    /\ windows = [v \in Versions |-> NoWindow]
    /\ starts = 0
    /\ folded = {}

-----------------------------------------------------------------------------
(* Production.                                                             *)

Deploy(v) ==
    /\ Len(deployed) < MaxDeploys
    /\ deployed' = Append(deployed, v)
    /\ UNCHANGED <<log, committed, consumer, windows, starts, folded>>

\* Spans of any version deployed so far: a rollout serves two versions at once,
\* and the collector exports in batches.
Produce(m) ==
    /\ Len(log) < MaxLog
    /\ m.version = None \/ \E k \in DOMAIN deployed : m.version = deployed[k]
    /\ log' = Append(log, m)
    /\ UNCHANGED <<deployed, committed, consumer, windows, starts, folded>>

-----------------------------------------------------------------------------
(* StreamState.                                                            *)

\* Mutated: a deque without maxlen.
KeepAll(s, o, maxlen) == Append(s, o)

\* deque(maxlen = ...).append
Keep(s, o, maxlen) == IF Len(s) < maxlen THEN Append(s, o) ELSE Append(Tail(s), o)

\* Mutated: ordering by first_seen.
TouchedFirst(w, o) == IF w.last_seen = 0 THEN [w EXCEPT !.last_seen = o + 1] ELSE w

\* last_seen = time.monotonic(): each offset is later than the one before.
Touched(w, o) == [w EXCEPT !.last_seen = o + 1]

Observed(w, part, o) ==
    CASE part = "server" -> [Touched(w, o) EXCEPT !.server = Keep(@, o, MaxSamples)]
      [] part = "db"     -> [Touched(w, o) EXCEPT !.db = Keep(@, o, MaxSamples * 60)]

PerRequest(v) == IF windows[v].db = <<>> THEN 0 ELSE TrueWork[v]

\* evaluate() over the windows, with its thresholds.
Triggered(b, c) ==
    \/ PerRequest(b) > 0 /\ PerRequest(c) >= 3 * PerRequest(b)
    \/ c \in Failing /\ windows[c].server # <<>>
    \/ /\ c \in Slow
       /\ Len(windows[b].server) >= MinSamples /\ Len(windows[c].server) >= MinSamples

\* versions_by_recency()
Seen == {v \in Versions : windows[v].last_seen > 0}
Newest(S) == CHOOSE v \in S : \A u \in S : windows[u].last_seen <= windows[v].last_seen

\* The version active last against the one before it.
Compare ==
    IF \A u, v \in Seen : u = v THEN None
    ELSE LET c == Newest(Seen)
             b == Newest(Seen \ {c})
         IN  [base |-> b, cand |-> c, triggered |-> Triggered(b, c)]

-----------------------------------------------------------------------------
(* consume().                                                              *)

Running == consumer.pc \in {"polling", "committing", "evaluating"}

\* subscribe(): the group's offset, or what auto.offset.reset says.
Position ==
    IF committed # None THEN committed
    ELSE IF FromBeginning THEN 0 ELSE Len(log)

Start ==
    /\ ~Running
    /\ starts < MaxStarts
    /\ starts' = starts + 1
    /\ consumer' = [Down EXCEPT !.pc = "polling", !.start = Position, !.position = Position]
    /\ windows' = [v \in Versions |-> NoWindow]
    /\ UNCHANGED <<deployed, log, committed, folded>>

\* The message after the position, and the span decode() finds in it if any.
Polled == log[consumer.position + 1]

Counts == Polled.part \in {"server", "db"}

\* poll() returns a message; its spans are folded in.
Fold ==
    /\ consumer.pc = "polling"
    /\ consumer.seen < MaxSpans
    /\ consumer.position < Len(log)
    /\ Polled.part # "not_an_object"
    /\ IF Counts
       THEN windows' = [windows EXCEPT ![Polled.version] =
                            Observed(@, Polled.part, consumer.position)]
       ELSE UNCHANGED windows
    /\ folded' = folded \cup {consumer.position}
    /\ LET spans == IF Polled.version = None THEN 0 ELSE 1
       IN  consumer' = [consumer EXCEPT !.pc = "committing", !.position = @ + 1,
                                        !.seen = @ + spans, !.since = @ + spans]
    /\ UNCHANGED <<deployed, log, committed, starts>>

\* Mutated: decode() lets the error of json.loads() through.
RaiseOnAnyJunk ==
    /\ consumer.pc = "polling"
    /\ consumer.seen < MaxSpans
    /\ consumer.position < Len(log)
    /\ Polled.part \in Junk
    /\ consumer' = [consumer EXCEPT !.pc = "raised"]
    /\ UNCHANGED <<deployed, log, committed, windows, starts, folded>>

\* JSON that is not an object has no get(): decode() raises, and consume() with it.
Raise ==
    /\ consumer.pc = "polling"
    /\ consumer.seen < MaxSpans
    /\ consumer.position < Len(log)
    /\ Polled.part = "not_an_object"
    /\ consumer' = [consumer EXCEPT !.pc = "raised"]
    /\ UNCHANGED <<deployed, log, committed, windows, starts, folded>>

\* Mutated: commit() of the partition's end.
CommitEnd ==
    /\ consumer.pc = "committing"
    /\ committed' = Len(log)
    /\ consumer' = [consumer EXCEPT
           !.pc = IF consumer.since < EvaluateEvery THEN "polling" ELSE "evaluating"]
    /\ UNCHANGED <<deployed, log, starts, state>>

\* commit(message = message, asynchronous = False)
Commit ==
    /\ consumer.pc = "committing"
    /\ committed' = consumer.position
    /\ consumer' = [consumer EXCEPT
           !.pc = IF consumer.since < EvaluateEvery THEN "polling" ELSE "evaluating"]
    /\ UNCHANGED <<deployed, log, starts, state>>

\* A verdict is told when its signature is not the last one told.
Told == IF Compare = None THEN consumer.last ELSE Compare

Evaluate ==
    /\ consumer.pc = "evaluating"
    /\ consumer' = [consumer EXCEPT !.pc = "polling", !.since = 0, !.last = Told]
    /\ UNCHANGED <<deployed, log, committed, starts, state>>

\* Mutated: no evaluation after the loop.
EndSilently ==
    /\ consumer.pc = "polling"
    /\ consumer.seen >= MaxSpans \/ consumer.position = Len(log)
    /\ consumer' = [consumer EXCEPT !.pc = "ended"]
    /\ UNCHANGED <<deployed, log, committed, starts, state>>

\* Enough spans, or nothing to poll for idle_timeout; then a last evaluation.
End ==
    /\ consumer.pc = "polling"
    /\ consumer.seen >= MaxSpans \/ consumer.position = Len(log)
    /\ consumer' = [consumer EXCEPT !.pc = "ended", !.last = Told]
    /\ UNCHANGED <<deployed, log, committed, starts, state>>

\* The process stops, or the commit raises: the windows are gone with it.
Stop ==
    /\ Running
    /\ consumer' = Down
    /\ UNCHANGED <<deployed, log, committed, starts, state>>

Consume == Fold \/ Raise \/ Commit \/ Evaluate

Next ==
    \/ \E v \in Versions : Deploy(v)
    \/ \E m \in Message : Produce(m)
    \/ Start \/ Consume \/ End \/ Stop

Spec == Init /\ [][Next]_vars

\* poll() returns what is there, the broker answers a commit, and the loop ends
\* when it has seen enough.
FairSpec == Spec /\ WF_vars(Consume) /\ WF_vars(consumer.seen >= MaxSpans /\ End)

-----------------------------------------------------------------------------
(* Properties.                                                             *)

\* No message behind the committed offset was left out of every window: "a crash
\* replays the batch rather than skipping it" (build_consumer). A group that does
\* not read from the beginning owes nothing before the first message it folded.
NothingIsSkipped ==
    committed # None =>
        \A o \in 0..(committed - 1) :
            o \in folded \/ (~FromBeginning /\ \A n \in 0..o : n \notin folded)

\* The offsets this process has read that hold a span of one kind.
ReadOf(v, part) ==
    {o \in consumer.start..(consumer.position - 1) : log[o + 1] = [version |-> v, part |-> part]}

\* s lists the last n members of a set of offsets, in their order.
AreLast(s, n, offsets) ==
    /\ Len(s) <= n
    /\ \A k \in DOMAIN s : s[k] \in offsets
    /\ \A j, k \in DOMAIN s : j < k => s[j] < s[k]
    /\ \A o \in offsets : (\A k \in DOMAIN s : s[k] # o) => Len(s) = n /\ o < s[1]

\* The windows hold the last max_samples requests of each version that this process
\* has read, each once and in order, whatever was replayed, and the last database
\* spans (VersionWindow).
WindowsAreExact ==
    consumer.pc # "down" => \A v \in Versions :
        /\ AreLast(windows[v].server, MaxSamples, ReadOf(v, "server"))
        /\ AreLast(windows[v].db, MaxSamples * 60, ReadOf(v, "db"))

\* What a consumer that never stopped would have read by now.
EverRead(v, part) ==
    {o \in 0..(consumer.position - 1) : log[o + 1] = [version |-> v, part |-> part]}

\* A restart is forgotten: a window that has filled up again is the one that a
\* consumer which began with the topic and never stopped would have.
FullWindowsRecover ==
    consumer.pc # "down" => \A v \in Versions :
        /\ Len(windows[v].server) = MaxSamples =>
               AreLast(windows[v].server, MaxSamples, EverRead(v, "server"))
        /\ Len(windows[v].db) = MaxSamples * 60 =>
               AreLast(windows[v].db, MaxSamples * 60, EverRead(v, "db"))

\* A synchronous commit after each message moves the offset of the group by one, and
\* never back; only the first one of all sets it.
OffsetOnlyAdvances ==
    [][committed' # committed /\ committed # None => committed' = committed + 1]_vars

\* Of all that was ever folded, at most the message at the group's offset is read
\* again: a stop costs one message, not a batch.
AtMostOneIsReplayed == committed # None => folded \subseteq 0..committed

\* What this process has counted of a version.
CountedOf(v) == ReadOf(v, "server") \cup ReadOf(v, "db")

\* The versions compared are the two that this process saw last: since the last span
\* of the baseline only the candidate's came, and nothing is compared only if no two
\* versions were seen.
NewestLast ==
    consumer.pc # "down" =>
        IF Compare = None
        THEN \A u, v \in Versions : CountedOf(u) # {} /\ CountedOf(v) # {} => u = v
        ELSE \E o \in CountedOf(Compare.base) :
                 /\ \E n \in CountedOf(Compare.cand) : o < n
                 /\ \A v \in Versions : \A n \in CountedOf(v) : o < n => v = Compare.cand

\* A consumer that ends by itself has told the verdict its windows give at the
\* end, even if they never were evaluated before.
FinalVerdictIsTold ==
    consumer.pc = "ended" /\ Compare # None => consumer.last = Compare

\* A running consumer commits past every message that decode() can read or skip ("the
\* offset still advances", decode), unless someone stops it or it has seen enough: that
\* it raised is no excuse. One decode() trips over, and all behind it, wait for good.
KeepsUp ==
    \A o \in 1..MaxLog :
        /\ Running /\ Len(log) >= o
        /\ \A n \in 1..o : log[n].part # "not_an_object"
        ~> consumer.pc \in {"down", "ended"} \/ (committed # None /\ committed >= o)

\* decode(): "A malformed message yields no spans rather than raising: one bad
\* payload should not stop a consumer that is otherwise healthy".
MalformedStopsNobody == consumer.pc # "raised"

DeployedAfter(v, u) ==
    \E k \in DOMAIN deployed : deployed[k] = v /\ \A n \in k..Len(deployed) : deployed[n] # u

\* versions_by_recency(): "Least recently active first, so the candidate is the
\* live version".
CandidateIsLive ==
    consumer.last # None => ~DeployedAfter(consumer.last.base, consumer.last.cand)

-----------------------------------------------------------------------------
(* The refinement: of a message of the topic, the group handles what some  *)
(* process folds in, and acknowledges what it commits.                     *)

Group == INSTANCE AtLeastOnce WITH
    size <- Len(log), handled <- folded, offset <- committed

\* Killed, stopped or restarted anywhere, the processes of a group handle its topic
\* in order and at least once: build_consumer's reason to commit after each message.
DeliversInOrder == Group!Spec
=============================================================================
