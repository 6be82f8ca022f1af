---------------------------- MODULE RollupRefresh ----------------------------
(***************************************************************************)
(* warehouse/rollup.py: `aftermerge warehouse refresh` brings the daily    *)
(* rollup tables of ClickHouse up to date with the raw spans, one day      *)
(* partition at a time, while spans keep arriving, some of them late.      *)
(*                                                                         *)
(* ClickHouse has no transaction here: DROP PARTITION and INSERT ... SELECT *)
(* are each atomic, nothing between them is. An INSERT runs on the server: *)
(* it aggregates the spans that are there when it starts and adds its part *)
(* when it ends. AggregatingMergeTree merges equal keys, so a part that is *)
(* added to a day counts on top of what the day already holds.             *)
(*                                                                         *)
(* An INSERT may outlive the client that sent it: ClickHouse goes on with  *)
(* a query whose connection is lost. And raw spans expire: the collector's *)
(* exporter creates otel_traces with a TTL.                                *)
(*                                                                         *)
(* A table's rows for a day are modelled by the number of spans they count.*)
(***************************************************************************)
EXTENDS Naturals, Sequences, FiniteSets, FiniteSetsExt

CONSTANTS
    Procs,       \* processes that run the refresh
    LOADS,       \* the rollup tables, in the order they are loaded
    Modes,       \* values of --full in use
    Lookback,    \* --lookback-days
    MaxLate,     \* how many days late a span may arrive
    Retention,   \* days after its own at which a raw span begins to expire
    Lingers,     \* whether an INSERT may outlive the client that sent it
    LastDay,     \* bound on the calendar
    MaxSpans,    \* bound on the spans that arrive
    MaxFailures  \* bound on the refreshes that fail

ASSUME BoundsAssumption ==
    /\ Lookback \in Nat /\ MaxLate \in Nat /\ Retention \in Nat
    /\ LastDay \in Nat \ {0} /\ MaxSpans \in Nat /\ MaxFailures \in Nat
    /\ Modes \subseteq BOOLEAN /\ Lingers \in BOOLEAN
    /\ LOADS \in Seq(STRING) /\ LOADS # <<>>

Days == 1..LastDay
Tables == {LOADS[n] : n \in DOMAIN LOADS}
Counts == [Tables -> [Days -> Nat]]
Empty == [t \in Tables |-> [d \in Days |-> 0]]

\* One INSERT ... SELECT: who sent it and the part it will add to a partition.
Insert == [by : Procs, attempt : 0..MaxFailures, table : Tables, day : Days, rows : Nat]

\* The local variables of refresh(), and the spans there were when it began.
Refresh == [pc : {"idle", "listing", "loading", "dropped", "inserting", "done"},
            attempt : 0..MaxFailures, full : BOOLEAN, next : 1..Len(LOADS),
            days : SUBSET Days, began : Counts]

VARIABLES
    today,     \* the day the newest spans belong to
    ever,      \* spans that ever arrived, per table that counts them and day
    raw,       \* those of them that otel_traces still has
    rollup,    \* spans counted by the rows of a rollup table, per table and day
    inserts,   \* the INSERTs the server is executing
    job,       \* what each process is doing
    failures,  \* refreshes that failed
    \* History, read by the properties only:
    overtaken, \* days whose INSERT, left behind by a refresh that failed, still
               \* ran when the next refresh listed the days of the table
    unbuilt    \* days that a refresh --full dropped and nothing has filled since

vars == <<today, ever, raw, rollup, inserts, job, failures, overtaken, unbuilt>>

TypeOK ==
    /\ today \in Days
    /\ ever \in Counts /\ raw \in Counts /\ rollup \in Counts
    /\ inserts \subseteq Insert
    /\ job \in [Procs -> Refresh]
    /\ failures \in 0..MaxFailures
    /\ overtaken \subseteq Tables \X Days
    /\ unbuilt \subseteq Tables \X Days

Idle == [pc |-> "idle", attempt |-> 0, full |-> FALSE, next |-> 1,
         days |-> {}, began |-> Empty]

Init ==
    /\ today = 1
    /\ ever = Empty
    /\ raw = Empty
    /\ rollup = Empty
    /\ inserts = {}
    /\ job = [p \in Procs |-> Idle]
    /\ failures = 0
    /\ overtaken = {}
    /\ unbuilt = {}

-----------------------------------------------------------------------------
(* Production.                                                             *)

Arrive(t, d) ==
    /\ d <= today /\ today <= d + MaxLate
    /\ SumFunction([u \in Tables |-> SumFunction(ever[u])]) < MaxSpans
    /\ ever' = [ever EXCEPT ![t][d] = @ + 1]
    /\ raw' = [raw EXCEPT ![t][d] = @ + 1]
    /\ UNCHANGED <<today, rollup, inserts, job, failures, overtaken, unbuilt>>

NewDay ==
    /\ today < LastDay
    /\ today' = today + 1
    /\ UNCHANGED <<ever, raw, rollup, inserts, job, failures, overtaken, unbuilt>>

\* The spans of a day are all there until the oldest of them reach the TTL.
Retained(d) == today < d + Retention

Expire(t, d) ==
    /\ ~Retained(d)
    /\ raw[t][d] > 0
    /\ raw' = [raw EXCEPT ![t][d] = @ - 1]
    /\ UNCHANGED <<today, ever, rollup, inserts, job, failures, overtaken, unbuilt>>

-----------------------------------------------------------------------------
(* Which days a table reloads.                                             *)

Loaded(t) == {d \in Days : rollup[t][d] > 0}

\* The newest day present in a rollup, 0 for an empty one.
Watermark(t) == IF Loaded(t) = {} THEN 0 ELSE Max(Loaded(t))

RawDays == {d \in Days : \E t \in Tables : raw[t][d] > 0}

\* Mutated: the watermark day, but no trailing window.
DaysFromWatermark(t, full) ==
    {d \in RawDays : full \/ d >= Watermark(t)}

DaysToLoad(t, full) ==
    {d \in RawDays : full \/ Watermark(t) = 0 \/ d + Lookback >= Watermark(t)}

-----------------------------------------------------------------------------
(* refresh(), one process.                                                 *)

Table(p) == LOADS[job[p].next]

\* Mutated: newest day first.
NewestDay(p) == Max(job[p].days)

NextDay(p) == Min(job[p].days)

Become(p, j) == job' = [job EXCEPT ![p] = j]

Begin(p, full) ==
    /\ job[p].pc \in {"idle", "done"}
    /\ Become(p, [Idle EXCEPT !.pc = "listing", !.attempt = failures,
                              !.full = full, !.began = raw])
    /\ UNCHANGED <<today, ever, raw, rollup, inserts, failures, overtaken, unbuilt>>

ListDays(p) ==
    /\ job[p].pc = "listing"
    /\ Become(p, [job[p] EXCEPT !.pc = "loading", !.days = DaysToLoad(Table(p), job[p].full)])
    /\ overtaken' = overtaken \cup {<<i.table, i.day>> : i \in {k \in inserts : k.table = Table(p)}}
    /\ UNCHANGED <<today, ever, raw, rollup, inserts, failures, unbuilt>>

\* Mutated: the new rows are inserted on top of the old ones.
DropNothing(p) ==
    /\ job[p].pc = "loading"
    /\ job[p].days # {}
    /\ Become(p, [job[p] EXCEPT !.pc = "dropped"])
    /\ unbuilt' = IF job[p].full THEN unbuilt \cup {<<Table(p), NextDay(p)>>} ELSE unbuilt
    /\ UNCHANGED <<today, ever, raw, rollup, inserts, failures, overtaken>>

DropPartition(p) ==
    /\ job[p].pc = "loading"
    /\ job[p].days # {}
    /\ rollup' = [rollup EXCEPT ![Table(p)][NextDay(p)] = 0]
    /\ Become(p, [job[p] EXCEPT !.pc = "dropped"])
    /\ unbuilt' = IF job[p].full THEN unbuilt \cup {<<Table(p), NextDay(p)>>} ELSE unbuilt
    /\ UNCHANGED <<today, ever, raw, inserts, failures, overtaken>>

StartInsert(p) ==
    /\ job[p].pc = "dropped"
    /\ inserts' = inserts \cup {[by |-> p, attempt |-> job[p].attempt, table |-> Table(p),
                                 day |-> NextDay(p), rows |-> raw[Table(p)][NextDay(p)]]}
    /\ Become(p, [job[p] EXCEPT !.pc = "inserting"])
    /\ UNCHANGED <<today, ever, raw, rollup, failures, overtaken, unbuilt>>

\* The INSERT that its client still waits for.
Awaited(i) == job[i.by].pc = "inserting" /\ i.attempt = job[i.by].attempt

\* The server adds a part. The client that waits for it, if it is still there,
\* goes on with the next day.
FinishInsert(i) ==
    /\ i \in inserts
    /\ inserts' = inserts \ {i}
    /\ rollup' = [rollup EXCEPT ![i.table][i.day] = @ + i.rows]
    /\ unbuilt' = unbuilt \ {<<i.table, i.day>>}
    /\ IF Awaited(i)
       THEN Become(i.by, [job[i.by] EXCEPT !.pc = "loading", !.days = @ \ {i.day}])
       ELSE UNCHANGED job
    /\ UNCHANGED <<today, ever, raw, failures, overtaken>>

\* Mutated: off by one.
NextTableButLast(p) ==
    /\ job[p].pc = "loading"
    /\ job[p].days = {}
    /\ IF job[p].next + 1 < Len(LOADS)
       THEN Become(p, [job[p] EXCEPT !.pc = "listing", !.next = @ + 1])
       ELSE Become(p, [job[p] EXCEPT !.pc = "done"])
    /\ UNCHANGED <<today, ever, raw, rollup, inserts, failures, overtaken, unbuilt>>

NextTable(p) ==
    /\ job[p].pc = "loading"
    /\ job[p].days = {}
    /\ IF job[p].next < Len(LOADS)
       THEN Become(p, [job[p] EXCEPT !.pc = "listing", !.next = @ + 1])
       ELSE Become(p, [job[p] EXCEPT !.pc = "done"])
    /\ UNCHANGED <<today, ever, raw, rollup, inserts, failures, overtaken, unbuilt>>

\* The process is killed, or ClickHouse answers with an error or not in time.
\* Whatever it was doing, the days it did not get to keep what they had.
Fail(p) ==
    /\ job[p].pc \notin {"idle", "done"}
    /\ failures < MaxFailures
    /\ failures' = failures + 1
    /\ Become(p, Idle)
    /\ \/ inserts' = {i \in inserts : ~(i.by = p /\ Awaited(i))}
       \/ Lingers /\ UNCHANGED inserts
    /\ UNCHANGED <<today, ever, raw, rollup, overtaken, unbuilt>>

Step(p) ==
    \/ ListDays(p) \/ DropPartition(p) \/ StartInsert(p) \/ NextTable(p)
    \/ \E i \in inserts : i.by = p /\ FinishInsert(i)

Next ==
    \/ \E t \in Tables, d \in Days : Arrive(t, d) \/ Expire(t, d)
    \/ NewDay
    \/ \E p \in Procs :
          \/ \E full \in Modes : Begin(p, full)
          \/ Step(p)
          \/ Fail(p)

Spec == Init /\ [][Next]_vars

\* The DAG runs the refresh every hour, and what ClickHouse executes ends.
FairSpec == /\ Spec
            /\ \A p \in Procs : WF_vars(Step(p)) /\ WF_vars(\E full \in Modes : Begin(p, full))

-----------------------------------------------------------------------------
(* Properties.                                                             *)

\* A rollup never counts a span twice, whatever fails, except a day whose INSERT
\* still ran when the refresh after the one that failed listed the days to load.
NeverOverstates ==
    \A t \in Tables, d \in Days :
        <<t, d>> \notin overtaken => rollup[t][d] <= ever[t][d]

\* "Dropping first is what makes this safe to re-run, which is what a scheduler needs
\* when it retries a failed task" (load_day), with no exception. Not so: the run of
\* MCRollupRefresh_retried.cfg drops a day that an INSERT is still to add to.
SafeToRerun == \A t \in Tables, d \in Days : rollup[t][d] <= ever[t][d]

\* The refreshes of t never overtook an INSERT of theirs.
Undisturbed(t) == \A d \in Days : <<t, d>> \notin overtaken

\* The days that the refreshes of t look after: not those that a refresh --full has
\* dropped and not rebuilt.
Kept(t, d) == Undisturbed(t) /\ <<t, d>> \notin unbuilt

\* A day whose rollup lacks spans that otel_traces has (they were late, or a refresh
\* failed between the drop and the insert) is one the next refresh reloads.
LagIsReachable ==
    \A t \in Tables, d \in Days :
        Kept(t, d) /\ rollup[t][d] < raw[t][d] => Watermark(t) = 0 \/ d + Lookback >= Watermark(t)

\* When a refresh has finished, the rollups count at least the spans there were when
\* it began, on every day whose spans have not begun to expire.
CompletedRefreshIsUpToDate ==
    \A p \in Procs : job[p].pc = "done" =>
        \A t \in Tables, d \in Days :
            Kept(t, d) /\ Retained(d) => job[p].began[t][d] <= rollup[t][d]

\* "Bring the rollups up to date" (refresh), with no exception. Not so: the run of
\* MCRollupRefresh_full.cfg finishes over a day that a failed --full has emptied.
BringsUpToDate ==
    \A p \in Procs : job[p].pc = "done" =>
        \A t \in Tables, d \in Days : Retained(d) => job[p].began[t][d] <= rollup[t][d]

\* However refreshes fail, again and again the rollups count what otel_traces has, and
\* nothing that never was there.
AgreesAgain ==
    []<>(\A t \in Tables, d \in Days :
            Kept(t, d) => raw[t][d] <= rollup[t][d] /\ rollup[t][d] <= ever[t][d])
=============================================================================
