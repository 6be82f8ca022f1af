------------------------- MODULE RollupRefreshProofs -------------------------
(***************************************************************************)
(* Theorems about RollupRefresh, for any tables, days, lookback, retention *)
(* and number of failures, with or without --full, whether or not an       *)
(* INSERT outlives its client, where one process refreshes                 *)
(* (max_active_runs=1). No span is counted twice on a day whose INSERT no  *)
(* later refresh overtook; when the lookback covers how late spans arrive, *)
(* every lag stays within reach and a finished refresh is up to date; and  *)
(* the steps of a refresh are bounded, however many spans arrive meanwhile.*)
(***************************************************************************)
EXTENDS RollupRefresh, FiniteSetTheorems, TLAPS

\* A nonempty set of days has an oldest and a newest one.
Before == {ds \in Nat \X Nat : ds[1] < ds[2]}

LEMMA BeforeIsWellFounded == IsWellFoundedOn(Before, Nat)
  <1>1. OpToRel(<, Nat) = Before
    BY DEF OpToRel, Before
  <1> QED BY <1>1, NatLessThanWellFounded

LEMMA MinOf ==
    ASSUME NEW S \in SUBSET Nat, S # {}
    PROVE  Min(S) \in S /\ \A y \in S : Min(S) <= y
  <1>1. PICK x \in S : \A y \in S : <<y, x>> \notin Before
    BY BeforeIsWellFounded, WFMin
  <1>2. \A y \in S : x <= y
    <2> SUFFICES ASSUME NEW y \in S PROVE x <= y
      OBVIOUS
    <2>1. ~(y < x) /\ x \in Nat /\ y \in Nat
      BY <1>1 DEF Before
    <2> QED BY <2>1
  <1> QED BY <1>2 DEF Min

LEMMA MaxOf ==
    ASSUME NEW S \in SUBSET Days, S # {}
    PROVE  Max(S) \in S /\ \A y \in S : y <= Max(S)
  <1> DEFINE T == {LastDay - d : d \in S}
  <1>1. LastDay \in Nat
    BY BoundsAssumption
  <1>2. T \in SUBSET Nat /\ T # {}
    <2>1. \A d \in S : LastDay - d \in Nat
      BY <1>1 DEF Days
    <2> QED BY <2>1
  <1>3. PICK m \in S : Min(T) = LastDay - m
    BY <1>2, MinOf
  <1>4. \A y \in S : LastDay - m <= LastDay - y
    <2>1. \A z \in T : LastDay - m <= z
      BY <1>2, <1>3, MinOf
    <2> QED BY <2>1
  <1>5. \A y \in S : m >= y
    BY <1>1, <1>4 DEF Days
  <1> QED BY <1>1, <1>5 DEF Max, Days

-----------------------------------------------------------------------------
(* What each action of the one process p does.                             *)

LEMMA Constants ==
    /\ \A n \in 1..Len(LOADS) : LOADS[n] \in Tables
    /\ 1 \in 1..Len(LOADS) /\ Days \in SUBSET Nat /\ Empty \in Counts
  <1>1. DOMAIN LOADS = 1..Len(LOADS) /\ Len(LOADS) \in Nat /\ Len(LOADS) # 0
    BY BoundsAssumption
  <1> QED BY <1>1 DEF Tables, Days, Empty, Counts

LEMMA JobFields ==
    ASSUME TypeOK, NEW p \in Procs
    PROVE  /\ job[p] \in Refresh
           /\ job[p].pc \in {"idle", "listing", "loading", "dropped", "inserting", "done"}
           /\ job[p].attempt \in 0..MaxFailures /\ job[p].full \in BOOLEAN
           /\ job[p].next \in 1..Len(LOADS) /\ job[p].days \in SUBSET Days
           /\ job[p].began \in Counts /\ Table(p) \in Tables
           /\ today \in Nat /\ ever \in Counts /\ raw \in Counts /\ rollup \in Counts
  <1>1. job[p] \in Refresh
    BY DEF TypeOK
  <1>2. Table(p) \in Tables
    BY <1>1, Constants DEF Table, Refresh
  <1>3. today \in Nat
    BY BoundsAssumption DEF TypeOK, Days
  <1> QED BY <1>1, <1>2, <1>3 DEF Refresh, TypeOK

LEMMA Counted ==
    ASSUME NEW f \in Counts, NEW t \in Tables, NEW d \in Days
    PROVE  f[t][d] \in Nat
  BY DEF Counts

\* What an update of one day of one table does.
Put(f, t, d, n) == [f EXCEPT ![t][d] = n]

LEMMA SetOne ==
    ASSUME NEW f \in Counts, NEW t \in Tables, NEW d \in Days, NEW n \in Nat
    PROVE  /\ Put(f, t, d, n) \in Counts /\ Put(f, t, d, n)[t][d] = n
           /\ \A u \in Tables, e \in Days :
                 <<u, e>> # <<t, d>> => Put(f, t, d, n)[u][e] = f[u][e]
  <1> DEFINE h == [f[t] EXCEPT ![d] = n]
             g == Put(f, t, d, n)
  <1>1. /\ h \in [Days -> Nat] /\ h[d] = n /\ \A e \in Days : e # d => h[e] = f[t][e]
    BY DEF Counts
  <1>2. g = [f EXCEPT ![t] = h]
    BY DEF Put
  <1> HIDE DEF g, h
  <1>3. g \in Counts /\ g[t] = h /\ \A u \in Tables : u # t => g[u] = f[u]
    BY <1>1, <1>2 DEF Counts
  <1>4. g[t][d] = n /\ \A u \in Tables, e \in Days : <<u, e>> # <<t, d>> => g[u][e] = f[u][e]
    BY <1>1, <1>3
  <1> QED BY <1>3, <1>4 DEF g

LEMMA Became ==
    ASSUME TypeOK, NEW p, Procs = {p}, NEW j \in Refresh, Become(p, j)
    PROVE  job' \in [Procs -> Refresh] /\ job'[p] = j
  BY DEF Become, TypeOK

LEMMA ArriveDoes ==
    ASSUME TypeOK, NEW t \in Tables, NEW d \in Days, Arrive(t, d)
    PROVE  /\ TypeOK'
           /\ UNCHANGED <<today, rollup, inserts, job, failures, overtaken, unbuilt>>
           /\ d <= today /\ today <= d + MaxLate
           /\ raw'[t][d] = raw[t][d] + 1 /\ ever'[t][d] = ever[t][d] + 1
           /\ \A u \in Tables, e \in Days : <<u, e>> # <<t, d>> =>
                 raw'[u][e] = raw[u][e] /\ ever'[u][e] = ever[u][e]
  <1> DEFINE n == ever[t][d] + 1
             m == raw[t][d] + 1
  <1>1. ever \in Counts /\ raw \in Counts /\ n \in Nat /\ m \in Nat
    BY Counted DEF TypeOK
  <1>2. ever' = Put(ever, t, d, n) /\ raw' = Put(raw, t, d, m)
    BY DEF Arrive, Put
  <1> HIDE DEF n, m
  <1>3. /\ ever' \in Counts /\ ever'[t][d] = n
        /\ \A u \in Tables, e \in Days : <<u, e>> # <<t, d>> => ever'[u][e] = ever[u][e]
    <2> DEFINE g == Put(ever, t, d, n)
    <2>1. /\ g \in Counts /\ g[t][d] = n
          /\ \A u \in Tables, e \in Days : <<u, e>> # <<t, d>> => g[u][e] = ever[u][e]
      BY <1>1, SetOne
    <2>2. ever' = g
      BY <1>2
    <2> HIDE DEF g
    <2> QED BY <2>1, <2>2
  <1>4. /\ raw' \in Counts /\ raw'[t][d] = m
        /\ \A u \in Tables, e \in Days : <<u, e>> # <<t, d>> => raw'[u][e] = raw[u][e]
    <2> DEFINE g == Put(raw, t, d, m)
    <2>1. /\ g \in Counts /\ g[t][d] = m
          /\ \A u \in Tables, e \in Days : <<u, e>> # <<t, d>> => g[u][e] = raw[u][e]
      BY <1>1, SetOne
    <2>2. raw' = g
      BY <1>2
    <2> HIDE DEF g
    <2> QED BY <2>1, <2>2
  <1> QED BY <1>3, <1>4 DEF Arrive, TypeOK, n, m

LEMMA ExpireDoes ==
    ASSUME TypeOK, NEW t \in Tables, NEW d \in Days, Expire(t, d)
    PROVE  /\ TypeOK'
           /\ UNCHANGED <<today, ever, rollup, inserts, job, failures, overtaken, unbuilt>>
           /\ ~Retained(d) /\ raw'[t][d] = raw[t][d] - 1
           /\ \A u \in Tables, e \in Days : <<u, e>> # <<t, d>> => raw'[u][e] = raw[u][e]
  <1> DEFINE m == raw[t][d] - 1
             g == Put(raw, t, d, m)
  <1>1. raw \in Counts /\ m \in Nat
    BY Counted DEF TypeOK, Expire
  <1>2. raw' = g
    BY DEF Expire, Put
  <1> HIDE DEF m
  <1>3. /\ g \in Counts /\ g[t][d] = m
        /\ \A u \in Tables, e \in Days : <<u, e>> # <<t, d>> => g[u][e] = raw[u][e]
    BY <1>1, SetOne
  <1> HIDE DEF g
  <1>4. /\ raw' \in Counts /\ raw'[t][d] = m
        /\ \A u \in Tables, e \in Days : <<u, e>> # <<t, d>> => raw'[u][e] = raw[u][e]
    BY <1>2, <1>3
  <1> QED BY <1>4 DEF Expire, TypeOK, m

LEMMA NewDayDoes ==
    ASSUME TypeOK, NewDay
    PROVE  /\ TypeOK' /\ today' = today + 1
           /\ UNCHANGED <<ever, raw, rollup, inserts, job, failures, overtaken, unbuilt>>
  BY BoundsAssumption DEF TypeOK, NewDay, Days

LEMMA BeginDoes ==
    ASSUME TypeOK, NEW p, Procs = {p}, NEW full \in Modes, Begin(p, full)
    PROVE  /\ TypeOK'
           /\ UNCHANGED <<today, ever, raw, rollup, inserts, failures, overtaken, unbuilt>>
           /\ job[p].pc \in {"idle", "done"} /\ job'[p].pc = "listing" /\ job'[p].days = {}
           /\ job'[p].next = 1 /\ job'[p].attempt = failures /\ job'[p].began = raw
  <1> DEFINE j == [Idle EXCEPT !.pc = "listing", !.attempt = failures,
                               !.full = full, !.began = raw]
  <1>1. raw \in Counts /\ failures \in 0..MaxFailures /\ full \in BOOLEAN
    BY BoundsAssumption DEF TypeOK
  <1>2. /\ j \in Refresh /\ j.pc = "listing" /\ j.days = {} /\ j.next = 1
        /\ j.attempt = failures /\ j.began = raw
    BY <1>1, Constants DEF Idle, Refresh
  <1> HIDE DEF j
  <1>3. job' \in [Procs -> Refresh] /\ job'[p] = j
    BY <1>2, Became DEF Begin, j
  <1> QED BY <1>2, <1>3 DEF Begin, TypeOK

LEMMA ListDaysDoes ==
    ASSUME TypeOK, NEW p, Procs = {p}, ListDays(p)
    PROVE  /\ TypeOK' /\ UNCHANGED <<today, ever, raw, rollup, inserts, failures, unbuilt>>
           /\ job[p].pc = "listing" /\ job'[p].pc = "loading"
           /\ job'[p].days = DaysToLoad(Table(p), job[p].full)
           /\ job'[p].next = job[p].next /\ job'[p].full = job[p].full
           /\ job'[p].began = job[p].began /\ job'[p].attempt = job[p].attempt
           /\ overtaken \subseteq overtaken'
           /\ \A i \in inserts : i.table = Table(p) => <<i.table, i.day>> \in overtaken'
  <1> DEFINE S == DaysToLoad(Table(p), job[p].full)
             j == [job[p] EXCEPT !.pc = "loading", !.days = S]
             O == {<<i.table, i.day>> : i \in {k \in inserts : k.table = Table(p)}}
  <1>1. S \in SUBSET Days
    BY DEF DaysToLoad, RawDays
  <1>2. O \subseteq Tables \X Days
    BY DEF TypeOK, Insert
  <1>3. overtaken' = overtaken \cup O /\ overtaken' \subseteq Tables \X Days
    BY <1>2 DEF ListDays, TypeOK
  <1>4. \A i \in inserts : i.table = Table(p) => <<i.table, i.day>> \in overtaken'
    BY <1>3
  <1> HIDE DEF S, O
  <1>5. /\ j \in Refresh /\ j.pc = "loading" /\ j.days = S /\ j.next = job[p].next
        /\ j.full = job[p].full /\ j.began = job[p].began /\ j.attempt = job[p].attempt
    BY <1>1, JobFields DEF Refresh
  <1> HIDE DEF j
  <1>6. job' \in [Procs -> Refresh] /\ job'[p] = j
    BY <1>5, Became DEF ListDays, j, S
  <1> QED BY <1>3, <1>4, <1>5, <1>6 DEF ListDays, TypeOK, S

LEMMA DropPartitionDoes ==
    ASSUME TypeOK, NEW p, Procs = {p}, DropPartition(p)
    PROVE  /\ TypeOK' /\ UNCHANGED <<today, ever, raw, inserts, failures, overtaken>>
           /\ job[p].pc = "loading" /\ job'[p].pc = "dropped"
           /\ job[p].days # {} /\ NextDay(p) \in job[p].days /\ NextDay(p) \in Days
           /\ job'[p].days = job[p].days
           /\ job'[p].next = job[p].next /\ job'[p].full = job[p].full
           /\ job'[p].began = job[p].began /\ job'[p].attempt = job[p].attempt
           /\ rollup'[Table(p)][NextDay(p)] = 0
           /\ \A u \in Tables, e \in Days :
                 <<u, e>> # <<Table(p), NextDay(p)>> => rollup'[u][e] = rollup[u][e]
  <1> DEFINE j == [job[p] EXCEPT !.pc = "dropped"]
  <1>1. job[p].days # {} /\ job[p].days \in SUBSET Nat
    BY JobFields, Constants DEF DropPartition
  <1>2. NextDay(p) \in job[p].days /\ NextDay(p) \in Days
    BY <1>1, MinOf, JobFields DEF NextDay
  <1>3. /\ j \in Refresh /\ j.pc = "dropped" /\ j.days = job[p].days /\ j.next = job[p].next
        /\ j.full = job[p].full /\ j.began = job[p].began /\ j.attempt = job[p].attempt
    BY JobFields DEF Refresh
  <1> HIDE DEF j
  <1>4. job' \in [Procs -> Refresh] /\ job'[p] = j
    BY <1>3, Became DEF DropPartition, j
  <1>5. /\ rollup' \in Counts /\ rollup'[Table(p)][NextDay(p)] = 0
        /\ \A u \in Tables, e \in Days :
              <<u, e>> # <<Table(p), NextDay(p)>> => rollup'[u][e] = rollup[u][e]
    <2>1. rollup \in Counts /\ Table(p) \in Tables
      BY JobFields
    <2>2. rollup' = Put(rollup, Table(p), NextDay(p), 0)
      BY DEF DropPartition, Put
    <2> QED BY <1>2, <2>1, <2>2, SetOne
  <1>6. unbuilt' \subseteq Tables \X Days
    BY <1>2, JobFields DEF DropPartition, TypeOK
  <1> QED BY <1>1, <1>2, <1>3, <1>4, <1>5, <1>6 DEF DropPartition, TypeOK

LEMMA DropPartitionMarks ==
    ASSUME NEW p, DropPartition(p)
    PROVE  /\ unbuilt \subseteq unbuilt'
           /\ job[p].full => <<Table(p), NextDay(p)>> \in unbuilt'
  BY DEF DropPartition

LEMMA StartInsertDoes ==
    ASSUME TypeOK, NEW p, Procs = {p}, StartInsert(p), job[p].days # {}
    PROVE  /\ TypeOK' /\ UNCHANGED <<today, ever, raw, rollup, failures, overtaken, unbuilt>>
           /\ job[p].pc = "dropped" /\ job'[p].pc = "inserting"
           /\ job'[p].days = job[p].days
           /\ job'[p].next = job[p].next /\ job'[p].full = job[p].full
           /\ job'[p].began = job[p].began /\ job'[p].attempt = job[p].attempt
           /\ NextDay(p) \in job[p].days /\ NextDay(p) \in Days
           /\ \E i \in Insert :
                 /\ inserts' = inserts \cup {i}
                 /\ i.by = p /\ i.attempt = job[p].attempt /\ i.table = Table(p)
                 /\ i.day = NextDay(p) /\ i.rows = raw[Table(p)][NextDay(p)]
  <1> DEFINE j == [job[p] EXCEPT !.pc = "inserting"]
             i == [by |-> p, attempt |-> job[p].attempt, table |-> Table(p),
                   day |-> NextDay(p), rows |-> raw[Table(p)][NextDay(p)]]
  <1>1. NextDay(p) \in job[p].days /\ NextDay(p) \in Days
    BY MinOf, JobFields, Constants DEF NextDay
  <1>2. /\ j \in Refresh /\ j.pc = "inserting" /\ j.days = job[p].days /\ j.next = job[p].next
        /\ j.full = job[p].full /\ j.began = job[p].began /\ j.attempt = job[p].attempt
    BY JobFields DEF Refresh
  <1>3. /\ i \in Insert /\ i.by = p /\ i.attempt = job[p].attempt /\ i.table = Table(p)
        /\ i.day = NextDay(p) /\ i.rows = raw[Table(p)][NextDay(p)]
    <2>1. raw[Table(p)][NextDay(p)] \in Nat
      BY <1>1, JobFields, Counted
    <2> QED BY <1>1, <2>1, JobFields DEF Insert
  <1>4. inserts' = inserts \cup {i} /\ job[p].pc = "dropped"
    BY DEF StartInsert
  <1> HIDE DEF i, j
  <1>5. job' \in [Procs -> Refresh] /\ job'[p] = j
    BY <1>2, Became DEF StartInsert, j
  <1> QED BY <1>1, <1>2, <1>3, <1>4, <1>5 DEF StartInsert, TypeOK

\* An INSERT that ends, whether the one process waits for it or not.
LEMMA FinishInsertDoes ==
    ASSUME TypeOK, NEW p, Procs = {p}, NEW i, FinishInsert(i)
    PROVE  /\ TypeOK' /\ UNCHANGED <<today, ever, raw, failures, overtaken>>
           /\ i \in inserts /\ inserts' = inserts \ {i} /\ i.by = p
           /\ i.table \in Tables /\ i.day \in Days /\ i.rows \in Nat
           /\ unbuilt' = unbuilt \ {<<i.table, i.day>>}
           /\ job'[p].next = job[p].next /\ job'[p].full = job[p].full
           /\ job'[p].began = job[p].began /\ job'[p].attempt = job[p].attempt
           /\ Awaited(i) => job'[p].pc = "loading" /\ job'[p].days = job[p].days \ {i.day}
           /\ ~Awaited(i) => job' = job
           /\ rollup'[i.table][i.day] = rollup[i.table][i.day] + i.rows
           /\ \A u \in Tables, e \in Days :
                 <<u, e>> # <<i.table, i.day>> => rollup'[u][e] = rollup[u][e]
  <1> DEFINE j == [job[p] EXCEPT !.pc = "loading", !.days = job[p].days \ {i.day}]
  <1>1. i \in inserts /\ inserts' = inserts \ {i} /\ i \in Insert
    BY DEF FinishInsert, TypeOK
  <1>2. i.by = p /\ i.table \in Tables /\ i.day \in Days /\ i.rows \in Nat
    BY <1>1 DEF Insert
  <1>3. /\ j \in Refresh /\ j.pc = "loading" /\ j.days = job[p].days \ {i.day}
        /\ j.next = job[p].next /\ j.full = job[p].full /\ j.began = job[p].began
        /\ j.attempt = job[p].attempt
    BY JobFields DEF Refresh
  <1>4. Awaited(i) => Become(p, j)
    BY <1>2 DEF FinishInsert
  <1>5. ~Awaited(i) => job' = job
    BY DEF FinishInsert
  <1> HIDE DEF j
  <1>6. Awaited(i) => job' \in [Procs -> Refresh] /\ job'[p] = j
    BY <1>3, <1>4, Became
  <1>7. job' \in [Procs -> Refresh]
    BY <1>5, <1>6 DEF TypeOK
  <1>8. /\ rollup' \in Counts /\ rollup'[i.table][i.day] = rollup[i.table][i.day] + i.rows
        /\ \A u \in Tables, e \in Days :
              <<u, e>> # <<i.table, i.day>> => rollup'[u][e] = rollup[u][e]
    <2> DEFINE t == i.table
               d == i.day
               n == rollup[t][d] + i.rows
    <2>1. rollup \in Counts /\ n \in Nat /\ t \in Tables /\ d \in Days
      BY <1>2, Counted DEF TypeOK
    <2>2. rollup' = Put(rollup, t, d, n)
      BY DEF FinishInsert, Put
    <2> HIDE DEF t, d, n
    <2>3. /\ rollup' \in Counts /\ rollup'[t][d] = n
          /\ \A u \in Tables, e \in Days : <<u, e>> # <<t, d>> => rollup'[u][e] = rollup[u][e]
      BY <2>1, <2>2, SetOne
    <2> QED BY <2>3 DEF t, d, n
  <1>9. unbuilt' = unbuilt \ {<<i.table, i.day>>} /\ unbuilt' \subseteq Tables \X Days
    BY DEF FinishInsert, TypeOK
  <1> QED BY <1>1, <1>2, <1>3, <1>5, <1>6, <1>7, <1>8, <1>9 DEF FinishInsert, TypeOK

LEMMA NextTableDoes ==
    ASSUME TypeOK, NEW p, Procs = {p}, NextTable(p)
    PROVE  /\ TypeOK' /\ UNCHANGED <<today, ever, raw, rollup, inserts, failures,
                                  overtaken, unbuilt>>
           /\ job[p].pc = "loading" /\ job[p].days = {} /\ job'[p].days = {}
           /\ job'[p].full = job[p].full /\ job'[p].began = job[p].began
           /\ job'[p].attempt = job[p].attempt
           /\ \/ /\ job[p].next < Len(LOADS)
                 /\ job'[p].pc = "listing" /\ job'[p].next = job[p].next + 1
              \/ /\ job[p].next = Len(LOADS)
                 /\ job'[p].pc = "done" /\ job'[p].next = job[p].next
  <1> DEFINE n == job[p].next
             j == [job[p] EXCEPT !.pc = "listing", !.next = n + 1]
             k == [job[p] EXCEPT !.pc = "done"]
  <1>1. n \in Nat /\ Len(LOADS) \in Nat /\ n \in 1..Len(LOADS) /\ n <= Len(LOADS)
    BY JobFields, BoundsAssumption
  <1>2. CASE n < Len(LOADS)
    <2>1. n + 1 \in 1..Len(LOADS)
      BY <1>1, <1>2
    <2>2. /\ j \in Refresh /\ j.pc = "listing" /\ j.days = job[p].days
          /\ j.next = n + 1 /\ j.full = job[p].full /\ j.began = job[p].began
          /\ j.attempt = job[p].attempt
      BY <2>1, JobFields DEF Refresh
    <2>3. Become(p, j)
      BY <1>2 DEF NextTable
    <2> HIDE DEF j
    <2>4. job' \in [Procs -> Refresh] /\ job'[p] = j
      BY <2>2, <2>3, Became
    <2> QED BY <1>2, <2>2, <2>4 DEF NextTable, TypeOK
  <1>3. CASE n = Len(LOADS)
    <2>1. /\ k \in Refresh /\ k.pc = "done" /\ k.days = job[p].days
          /\ k.next = n /\ k.full = job[p].full /\ k.began = job[p].began
          /\ k.attempt = job[p].attempt
      BY JobFields DEF Refresh
    <2>2. Become(p, k)
      BY <1>1, <1>3 DEF NextTable
    <2> HIDE DEF k
    <2>3. job' \in [Procs -> Refresh] /\ job'[p] = k
      BY <2>1, <2>2, Became
    <2> QED BY <1>3, <2>1, <2>3 DEF NextTable, TypeOK
  <1> QED BY <1>1, <1>2, <1>3

LEMMA FailDoes ==
    ASSUME TypeOK, NEW p, Procs = {p}, Fail(p)
    PROVE  /\ TypeOK' /\ UNCHANGED <<today, ever, raw, rollup, overtaken, unbuilt>>
           /\ job[p].pc \notin {"idle", "done"} /\ failures' = failures + 1
           /\ job'[p].pc = "idle" /\ job'[p].days = {} /\ job'[p].began = Empty
           /\ inserts' \subseteq inserts
  <1>1. Idle \in Refresh /\ Idle.pc = "idle" /\ Idle.days = {} /\ Idle.began = Empty
    BY Constants, BoundsAssumption DEF Idle, Refresh
  <1>2. job' \in [Procs -> Refresh] /\ job'[p] = Idle
    BY <1>1, Became DEF Fail
  <1>3. inserts' \subseteq inserts
    BY DEF Fail
  <1>4. failures' \in 0..MaxFailures
    BY BoundsAssumption DEF Fail, TypeOK
  <1> QED BY <1>1, <1>2, <1>3, <1>4 DEF Fail, TypeOK

LEMMA Typed ==
    ASSUME TypeOK, NEW p, Procs = {p}
    PROVE  /\ Lookback \in Nat /\ MaxLate \in Nat /\ Retention \in Nat
           /\ today \in Nat /\ failures \in Nat
           /\ \A d \in Days : d \in Nat
           /\ \A t \in Tables, d \in Days :
                 ever[t][d] \in Nat /\ raw[t][d] \in Nat /\ rollup[t][d] \in Nat
           /\ \A t \in Tables, d \in Days : job[p].began[t][d] \in Nat
           /\ job[p].days \subseteq Days /\ Table(p) \in Tables
           /\ \A i \in inserts : /\ i.by = p /\ i.table \in Tables /\ i.day \in Days
                                 /\ i.rows \in Nat /\ i.attempt \in Nat
           /\ \A t \in Tables : Loaded(t) \subseteq Days
  <1>1. /\ Lookback \in Nat /\ MaxLate \in Nat /\ Retention \in Nat /\ MaxFailures \in Nat
        /\ \A d \in Days : d \in Nat
    BY BoundsAssumption, Constants
  <1>2. failures \in Nat /\ \A i \in inserts : i \in Insert
    BY <1>1 DEF TypeOK
  <1>3. /\ today \in Nat /\ ever \in Counts /\ raw \in Counts /\ rollup \in Counts
        /\ job[p].began \in Counts /\ job[p].days \subseteq Days /\ Table(p) \in Tables
    BY JobFields
  <1>4. \A i \in inserts : /\ i.by = p /\ i.table \in Tables /\ i.day \in Days
                           /\ i.rows \in Nat /\ i.attempt \in Nat
    BY <1>1, <1>2 DEF Insert
  <1> QED BY <1>1, <1>2, <1>3, <1>4, Counted DEF Loaded

-----------------------------------------------------------------------------
(* One process never counts a span twice on a day it did not overtake.     *)

\* The tables whose days the refresh has listed.
Listed(p, t) ==
    \/ job[p].pc = "done"
    \/ \E n \in 1..Len(LOADS) :
          /\ LOADS[n] = t
          /\ \/ job[p].pc \in {"loading", "dropped", "inserting"} /\ n = job[p].next
             \/ job[p].pc \in {"listing", "loading", "dropped", "inserting"} /\ n < job[p].next

\* Nothing is counted of a day that has not come.
Known ==
    \A t \in Tables, d \in Days :
        /\ raw[t][d] <= ever[t][d]
        /\ ever[t][d] > 0 \/ rollup[t][d] > 0 => d <= today

\* The day p has dropped is empty, unless an INSERT it overtook has ended since.
Local(p) ==
    /\ \A d \in job[p].days : d <= today
    /\ job[p].pc \in {"idle", "listing", "done"} => job[p].days = {}
    /\ job[p].pc \notin {"idle", "done"} => job[p].attempt = failures
    /\ job[p].pc \in {"dropped", "inserting"} =>
          /\ job[p].days # {}
          /\ <<Table(p), NextDay(p)>> \notin overtaken => rollup[Table(p)][NextDay(p)] = 0

\* An INSERT is the one p waits for or was left behind, and then p overtakes it when it
\* comes to its table; until it is overtaken, it is alone and meets an empty day.
Inserting(p) ==
    \A i \in inserts :
        /\ i.day <= today /\ i.attempt <= failures /\ i.rows <= ever[i.table][i.day]
        /\ i.attempt = failures =>
              /\ job[p].pc = "inserting" /\ i.table = Table(p) /\ i.day = NextDay(p)
              /\ \A k \in inserts : k.attempt = failures => k = i
        /\ Listed(p, i.table) => i.attempt = failures \/ <<i.table, i.day>> \in overtaken
        /\ <<i.table, i.day>> \notin overtaken =>
              /\ rollup[i.table][i.day] = 0
              /\ \A k \in inserts :
                    k.table = i.table /\ <<k.table, k.day>> \notin overtaken => k = i

Sound(p) == TypeOK /\ Known /\ NeverOverstates /\ Local(p) /\ Inserting(p)

LEMMA SameTable ==
    ASSUME NEW p, job'[p].next = job[p].next
    PROVE  Table(p)' = Table(p)
  BY DEF Table

LEMMA SameDay ==
    ASSUME NEW p, job'[p].days = job[p].days
    PROVE  NextDay(p)' = NextDay(p)
  BY DEF NextDay

\* While p loads a table, the tables it has listed are the same.
LEMMA SameListed ==
    ASSUME NEW p, job'[p].next = job[p].next,
           job[p].pc \in {"loading", "dropped", "inserting"},
           job'[p].pc \in {"loading", "dropped", "inserting"}
    PROVE  \A t : Listed(p, t)' <=> Listed(p, t)
  BY DEF Listed

LEMMA ListedTable ==
    ASSUME TypeOK, NEW p, Procs = {p}, job[p].pc \in {"loading", "dropped", "inserting"}
    PROVE  Listed(p, Table(p))
  BY JobFields DEF Listed, Table

\* The INSERT that p waits for is the one of the attempt that is under way.
LEMMA AwaitedIs ==
    ASSUME NEW p, Procs = {p}, Sound(p), NEW i \in inserts
    PROVE  Awaited(i) <=> i.attempt = failures
  <1>1. i.by = p
    BY Typed DEF Sound
  <1>2. Awaited(i) => i.attempt = failures
    BY <1>1 DEF Awaited, Sound, Local
  <1>3. i.attempt = failures => Awaited(i)
    BY <1>1 DEF Awaited, Sound, Local, Inserting
  <1> QED BY <1>2, <1>3

\* Spans that arrive or expire, and the calendar.
LEMMA SoundProduction ==
    ASSUME NEW p, Procs = {p}, Sound(p), TypeOK',
           UNCHANGED <<rollup, inserts, job, failures, overtaken>>, today <= today',
           \A t \in Tables, d \in Days :
               /\ ever[t][d] <= ever'[t][d] /\ raw'[t][d] <= ever'[t][d]
               /\ ever'[t][d] > 0 => ever[t][d] > 0 \/ d <= today
    PROVE  Sound(p)'
  <1>1. Table(p)' = Table(p) /\ NextDay(p)' = NextDay(p) /\ \A t : Listed(p, t)' <=> Listed(p, t)
    BY SameTable, SameDay DEF Listed
  <1>2. today \in Nat /\ today' \in Nat
    BY JobFields, BoundsAssumption DEF Sound, TypeOK, Days
  <1>3. \A t \in Tables, d \in Days : ever[t][d] \in Nat /\ ever'[t][d] \in Nat /\ rollup[t][d] \in Nat
    BY Typed, Counted DEF Sound, TypeOK
  <1>4. \A d \in Days : d <= today => d <= today'
    <2>1. \A d \in Days : d \in Nat
      BY Constants
    <2> QED BY <1>2, <2>1
  <1>5. Known'
    BY <1>4 DEF Sound, Known
  <1>6. NeverOverstates'
    <2> SUFFICES ASSUME NEW t \in Tables, NEW d \in Days, <<t, d>> \notin overtaken
                 PROVE  rollup[t][d] <= ever'[t][d]
      BY DEF NeverOverstates
    <2>1. rollup[t][d] <= ever[t][d]
      BY DEF Sound, NeverOverstates
    <2> QED BY <1>3, <2>1
  <1>7. Local(p)'
    <2>1. \A d \in job[p].days : d <= today'
      BY <1>4, Typed DEF Sound, Local
    <2> QED BY <1>1, <2>1 DEF Sound, Local
  <1>8. Inserting(p)'
    <2>1. \A i \in inserts : i.rows <= ever'[i.table][i.day] /\ i.day <= today'
      <3> SUFFICES ASSUME NEW i \in inserts
                   PROVE  i.rows <= ever'[i.table][i.day] /\ i.day <= today'
        OBVIOUS
      <3>1. i.table \in Tables /\ i.day \in Days /\ i.rows \in Nat
        BY Typed DEF Sound
      <3>2. i.rows <= ever[i.table][i.day] /\ i.day <= today
        BY DEF Sound, Inserting
      <3> QED BY <1>3, <1>4, <3>1, <3>2
    <2> QED BY <1>1, <2>1 DEF Sound, Inserting
  <1> QED BY <1>5, <1>6, <1>7, <1>8 DEF Sound

\* Steps that move no row, after which p has no INSERT to wait for.
LEMMA SoundQuiet ==
    ASSUME NEW p, Procs = {p}, Sound(p), TypeOK', UNCHANGED <<today, ever, raw, rollup>>,
           overtaken \subseteq overtaken', inserts' \subseteq inserts,
           job'[p].pc \in {"idle", "listing", "loading", "done"},
           \A d \in job'[p].days : d <= today,
           job'[p].pc \in {"idle", "listing", "done"} => job'[p].days = {},
           job'[p].pc \notin {"idle", "done"} => job'[p].attempt = failures',
           \A i \in inserts' : i.attempt < failures',
           \A i \in inserts' : Listed(p, i.table)' => <<i.table, i.day>> \in overtaken'
    PROVE  Sound(p)'
  <1>1. Known' /\ NeverOverstates'
    BY DEF Sound, Known, NeverOverstates
  <1>2. Local(p)'
    BY DEF Local
  <1>3. \A i \in inserts' : i.attempt # failures' /\ i.attempt <= failures'
    <2>1. failures' \in Nat /\ \A i \in inserts' : i.attempt \in Nat
      BY BoundsAssumption, Typed DEF TypeOK, Sound
    <2> QED BY <2>1
  <1>4. Inserting(p)'
    BY <1>3 DEF Sound, Inserting
  <1> QED BY <1>1, <1>2, <1>4 DEF Sound

LEMMA SoundBegin ==
    ASSUME NEW p, Procs = {p}, Sound(p), NEW full \in Modes, Begin(p, full)
    PROVE  Sound(p)'
  <1>1. /\ TypeOK' /\ UNCHANGED <<today, ever, raw, rollup, inserts, failures, overtaken>>
        /\ job[p].pc \in {"idle", "done"} /\ job'[p].pc = "listing" /\ job'[p].days = {}
        /\ job'[p].next = 1 /\ job'[p].attempt = failures
    BY BeginDoes DEF Sound
  <1>2. \A i \in inserts : i.attempt < failures
    <2>1. \A i \in inserts : /\ i.attempt <= failures /\ i.attempt # failures
                             /\ i.attempt \in Nat /\ failures \in Nat
      BY <1>1, Typed DEF Sound, Inserting
    <2> QED BY <2>1
  <1>3. \A t : ~Listed(p, t)'
    BY <1>1, BoundsAssumption DEF Listed
  <1> QED BY <1>1, <1>2, <1>3, SoundQuiet

LEMMA SoundList ==
    ASSUME NEW p, Procs = {p}, Sound(p), ListDays(p)
    PROVE  Sound(p)'
  <1>1. /\ TypeOK' /\ UNCHANGED <<today, ever, raw, rollup, inserts, failures>>
        /\ job[p].pc = "listing" /\ job'[p].pc = "loading"
        /\ job'[p].days = DaysToLoad(Table(p), job[p].full)
        /\ job'[p].next = job[p].next /\ job'[p].attempt = job[p].attempt
        /\ overtaken \subseteq overtaken'
        /\ \A i \in inserts : i.table = Table(p) => <<i.table, i.day>> \in overtaken'
    BY ListDaysDoes DEF Sound
  <1>2. \A d \in job'[p].days : d <= today
    <2> SUFFICES ASSUME NEW d \in Days, NEW t \in Tables, raw[t][d] > 0
                 PROVE  d <= today
      BY <1>1 DEF DaysToLoad, RawDays
    <2>1. ever[t][d] > 0
      <3>1. raw[t][d] <= ever[t][d] /\ raw[t][d] \in Nat /\ ever[t][d] \in Nat
        BY Typed DEF Sound, Known
      <3> QED BY <3>1
    <2> QED BY <2>1 DEF Sound, Known
  <1>3. \A i \in inserts : i.attempt # failures /\ i.attempt < failures
    <2>1. \A i \in inserts : /\ i.attempt <= failures /\ i.attempt # failures
                             /\ i.attempt \in Nat /\ failures \in Nat
      BY <1>1, Typed DEF Sound, Inserting
    <2> QED BY <2>1
  <1>4. \A t : Listed(p, t)' => Listed(p, t) \/ t = Table(p)
    BY <1>1 DEF Listed, Table
  <1>5. \A i \in inserts : Listed(p, i.table)' => <<i.table, i.day>> \in overtaken'
    BY <1>1, <1>3, <1>4 DEF Sound, Inserting
  <1>6. job'[p].attempt = failures
    BY <1>1 DEF Sound, Local
  <1> QED BY <1>1, <1>2, <1>3, <1>5, <1>6, SoundQuiet

\* The next table's days are yet to be listed.
LEMMA ListedNext ==
    ASSUME TypeOK, NEW p, Procs = {p}, NextTable(p), NEW t \in Tables, Listed(p, t)'
    PROVE  Listed(p, t)
  <1>1. /\ job[p].pc = "loading"
        /\ \/ /\ job[p].next < Len(LOADS)
              /\ job'[p].pc = "listing" /\ job'[p].next = job[p].next + 1
           \/ /\ job[p].next = Len(LOADS)
              /\ job'[p].pc = "done" /\ job'[p].next = job[p].next
    BY NextTableDoes
  <1>2. job[p].next \in 1..Len(LOADS) /\ Len(LOADS) \in Nat
    BY JobFields, BoundsAssumption
  <1>3. CASE job'[p].pc = "done"
    <2>1. PICK n \in 1..Len(LOADS) : LOADS[n] = t
      BY BoundsAssumption DEF Tables
    <2>2. n < job[p].next \/ n = job[p].next
      BY <1>1, <1>2, <1>3
    <2> QED BY <1>1, <2>1, <2>2 DEF Listed
  <1>4. CASE job'[p].pc = "listing" /\ job'[p].next = job[p].next + 1
    <2>1. PICK n \in 1..Len(LOADS) : LOADS[n] = t /\ n < job[p].next + 1
      BY <1>4 DEF Listed
    <2>2. n < job[p].next \/ n = job[p].next
      BY <1>2, <2>1
    <2> QED BY <1>1, <2>1, <2>2 DEF Listed
  <1> QED BY <1>1, <1>3, <1>4

LEMMA SoundNext ==
    ASSUME NEW p, Procs = {p}, Sound(p), NextTable(p)
    PROVE  Sound(p)'
  <1>1. /\ TypeOK' /\ UNCHANGED <<today, ever, raw, rollup, inserts, failures, overtaken>>
        /\ job[p].pc = "loading" /\ job'[p].days = {} /\ job'[p].attempt = job[p].attempt
        /\ job'[p].pc \in {"listing", "done"}
    BY NextTableDoes DEF Sound
  <1>2. \A i \in inserts : i.attempt # failures /\ i.attempt < failures
    <2>1. \A i \in inserts : /\ i.attempt <= failures /\ i.attempt # failures
                             /\ i.attempt \in Nat /\ failures \in Nat
      BY <1>1, Typed DEF Sound, Inserting
    <2> QED BY <2>1
  <1>3. \A t \in Tables : Listed(p, t)' => Listed(p, t)
    BY ListedNext DEF Sound
  <1>4. \A i \in inserts : Listed(p, i.table)' => <<i.table, i.day>> \in overtaken'
    BY <1>1, <1>2, <1>3, Typed DEF Sound, Inserting
  <1>5. job'[p].attempt = failures
    BY <1>1 DEF Sound, Local
  <1> QED BY <1>1, <1>2, <1>4, <1>5, SoundQuiet

LEMMA SoundFail ==
    ASSUME NEW p, Procs = {p}, Sound(p), Fail(p)
    PROVE  Sound(p)'
  <1>1. /\ TypeOK' /\ UNCHANGED <<today, ever, raw, rollup, overtaken>>
        /\ failures' = failures + 1 /\ inserts' \subseteq inserts
        /\ job'[p].pc = "idle" /\ job'[p].days = {}
    BY FailDoes DEF Sound
  <1>2. \A i \in inserts' : i.attempt < failures'
    <2>1. \A i \in inserts : i.attempt <= failures /\ i.attempt \in Nat /\ failures \in Nat
      BY Typed DEF Sound, Inserting
    <2> QED BY <1>1, <2>1
  <1>3. \A t : ~Listed(p, t)'
    BY <1>1 DEF Listed
  <1> QED BY <1>1, <1>2, <1>3, SoundQuiet

LEMMA SoundDrop ==
    ASSUME NEW p, Procs = {p}, Sound(p), DropPartition(p)
    PROVE  Sound(p)'
  <1> DEFINE T == Table(p)
             m == NextDay(p)
  <1>1. /\ TypeOK' /\ UNCHANGED <<today, ever, raw, inserts, failures, overtaken>>
        /\ job[p].pc = "loading" /\ job'[p].pc = "dropped" /\ job[p].days # {}
        /\ job'[p].days = job[p].days /\ job'[p].next = job[p].next
        /\ job'[p].attempt = job[p].attempt
        /\ rollup'[T][m] = 0
        /\ \A u \in Tables, e \in Days : <<u, e>> # <<T, m>> => rollup'[u][e] = rollup[u][e]
    <2>1. TypeOK
      BY DEF Sound
    <2> QED BY <2>1, DropPartitionDoes
  <1>2. T' = T /\ m' = m /\ \A t : Listed(p, t)' <=> Listed(p, t)
    BY <1>1, SameTable, SameDay, SameListed
  <1>3. \A u \in Tables, e \in Days :
            /\ rollup'[u][e] > 0 => rollup[u][e] > 0
            /\ rollup[u][e] = 0 => rollup'[u][e] = 0
            /\ rollup'[u][e] <= rollup[u][e] /\ rollup'[u][e] \in Nat
    <2> SUFFICES ASSUME NEW u \in Tables, NEW e \in Days
                 PROVE  /\ rollup'[u][e] > 0 => rollup[u][e] > 0
                        /\ rollup[u][e] = 0 => rollup'[u][e] = 0
                        /\ rollup'[u][e] <= rollup[u][e] /\ rollup'[u][e] \in Nat
      OBVIOUS
    <2>1. rollup[u][e] \in Nat
      BY Typed DEF Sound
    <2> QED BY <1>1, <2>1
  <1> HIDE DEF T, m
  <1>4. Known'
    BY <1>1, <1>3 DEF Sound, Known
  <1>5. NeverOverstates'
    <2> SUFFICES ASSUME NEW u \in Tables, NEW e \in Days, <<u, e>> \notin overtaken
                 PROVE  rollup'[u][e] <= ever[u][e]
      BY <1>1 DEF NeverOverstates
    <2>1. rollup[u][e] <= ever[u][e] /\ ever[u][e] \in Nat /\ rollup[u][e] \in Nat
      BY Typed DEF Sound, NeverOverstates
    <2> QED BY <1>3, <2>1
  <1>6. Local(p)'
    BY <1>1, <1>2 DEF Sound, Local, T, m
  <1>7. Inserting(p)'
    <2> SUFFICES ASSUME NEW i \in inserts
                 PROVE  /\ i.day <= today /\ i.attempt <= failures
                        /\ i.rows <= ever[i.table][i.day] /\ i.attempt # failures
                        /\ Listed(p, i.table) => <<i.table, i.day>> \in overtaken
                        /\ <<i.table, i.day>> \notin overtaken =>
                              /\ rollup'[i.table][i.day] = 0
                              /\ \A k \in inserts :
                                    k.table = i.table /\ <<k.table, k.day>> \notin overtaken => k = i
      BY <1>1, <1>2 DEF Inserting
    <2>1. i.table \in Tables /\ i.day \in Days
      BY Typed DEF Sound
    <2> QED BY <1>1, <1>3, <2>1 DEF Sound, Inserting
  <1> QED BY <1>1, <1>4, <1>5, <1>6, <1>7 DEF Sound

LEMMA SoundStart ==
    ASSUME NEW p, Procs = {p}, Sound(p), StartInsert(p)
    PROVE  Sound(p)'
  <1> DEFINE T == Table(p)
             m == NextDay(p)
  <1>1. job[p].pc = "dropped" /\ job[p].days # {} /\ job[p].attempt = failures
    BY DEF StartInsert, Sound, Local
  <1>2. /\ TypeOK' /\ UNCHANGED <<today, ever, raw, rollup, failures, overtaken>>
        /\ job'[p].pc = "inserting" /\ job'[p].days = job[p].days
        /\ job'[p].next = job[p].next /\ job'[p].attempt = job[p].attempt
        /\ m \in job[p].days /\ m \in Days
    BY <1>1, StartInsertDoes DEF Sound
  <1>3. PICK i \in Insert :
                 /\ inserts' = inserts \cup {i}
                 /\ i.by = p /\ i.attempt = job[p].attempt /\ i.table = T
                 /\ i.day = m /\ i.rows = raw[T][m]
    BY <1>1, StartInsertDoes DEF Sound
  <1>4. T' = T /\ m' = m /\ \A t : Listed(p, t)' <=> Listed(p, t)
    BY <1>1, <1>2, SameTable, SameDay, SameListed
  <1>5. T \in Tables /\ Listed(p, T)
    BY <1>1, ListedTable, Typed DEF Sound
  <1>6. \A k \in inserts : k.attempt # failures /\ (k.table = T => <<k.table, k.day>> \in overtaken)
    BY <1>1, <1>5 DEF Sound, Inserting
  <1>7. m <= today /\ i.rows <= ever[T][m]
    BY <1>2, <1>3, <1>5 DEF Sound, Known, Local
  <1>8. <<T, m>> \notin overtaken => rollup[T][m] = 0
    BY <1>1 DEF Sound, Local
  <1> HIDE DEF T, m
  <1>9. Local(p)'
    BY <1>1, <1>2, <1>4, <1>8 DEF Sound, Local, T, m
  <1>10. Inserting(p)'
    <2>1. failures <= failures
      BY Typed DEF Sound
    <2>2. /\ Table(p)' = T /\ NextDay(p)' = m /\ inserts' = inserts \cup {i}
          /\ job'[p].pc = "inserting" /\ \A t : Listed(p, t)' <=> Listed(p, t)
          /\ UNCHANGED <<today, ever, rollup, failures, overtaken>>
      BY <1>2, <1>3, <1>4 DEF T, m
    <2> SUFFICES ASSUME NEW k \in inserts \cup {i}
                 PROVE  /\ k.day <= today /\ k.attempt <= failures
                        /\ k.rows <= ever[k.table][k.day]
                        /\ k.attempt = failures =>
                              /\ k.table = T /\ k.day = m
                              /\ \A l \in inserts \cup {i} : l.attempt = failures => l = k
                        /\ Listed(p, k.table) =>
                              k.attempt = failures \/ <<k.table, k.day>> \in overtaken
                        /\ <<k.table, k.day>> \notin overtaken =>
                              /\ rollup[k.table][k.day] = 0
                              /\ \A l \in inserts \cup {i} :
                                    l.table = k.table /\ <<l.table, l.day>> \notin overtaken => l = k
      BY <2>2 DEF Inserting
    <2>3. CASE k = i
      <3>1. /\ k.day <= today /\ k.attempt <= failures /\ k.attempt = failures
            /\ k.rows <= ever[k.table][k.day] /\ k.table = T /\ k.day = m
            /\ <<k.table, k.day>> \notin overtaken => rollup[k.table][k.day] = 0
        BY <1>1, <1>3, <1>6, <1>7, <1>8, <2>1, <2>3
      <3> QED BY <1>1, <1>3, <1>6, <1>7, <2>3, <3>1
    <2>4. CASE k \in inserts
      <3>1. k.table = T => <<k.table, k.day>> \in overtaken
        BY <1>6, <2>4
      <3> QED BY <1>3, <1>6, <2>4, <3>1 DEF Sound, Inserting
    <2> QED BY <2>3, <2>4
  <1> QED BY <1>2, <1>9, <1>10 DEF Sound, Known, NeverOverstates

LEMMA SoundFinish ==
    ASSUME NEW p, Procs = {p}, Sound(p), NEW i, FinishInsert(i)
    PROVE  Sound(p)'
  <1> DEFINE t == i.table
             d == i.day
  <1>1. /\ TypeOK' /\ UNCHANGED <<today, ever, raw, failures, overtaken>>
        /\ i \in inserts /\ inserts' = inserts \ {i}
        /\ t \in Tables /\ d \in Days /\ i.rows \in Nat
        /\ job'[p].next = job[p].next /\ job'[p].attempt = job[p].attempt
        /\ Awaited(i) => job'[p].pc = "loading" /\ job'[p].days = job[p].days \ {d}
        /\ ~Awaited(i) => job' = job
        /\ rollup'[t][d] = rollup[t][d] + i.rows
        /\ \A u \in Tables, e \in Days : <<u, e>> # <<t, d>> => rollup'[u][e] = rollup[u][e]
    <2>1. TypeOK
      BY DEF Sound
    <2> QED BY <2>1, FinishInsertDoes
  <1>2. /\ Awaited(i) <=> i.attempt = failures
        /\ Awaited(i) => job[p].pc = "inserting" /\ t = Table(p)
        /\ Listed(p, t) => Awaited(i) \/ <<t, d>> \in overtaken
        /\ d <= today /\ i.rows <= ever[t][d]
        /\ <<t, d>> \notin overtaken =>
              /\ rollup[t][d] = 0
              /\ \A k \in inserts : k.table = t /\ <<k.table, k.day>> \notin overtaken => k = i
    BY <1>1, AwaitedIs DEF Sound, Inserting
  <1>3. \A u : Listed(p, u)' <=> Listed(p, u)
    <2>1. CASE Awaited(i)
      BY <1>1, <1>2, <2>1, SameListed
    <2>2. CASE ~Awaited(i)
      BY <1>1, <2>2 DEF Listed
    <2> QED BY <2>1, <2>2
  <1>4. Known'
    BY <1>1, <1>2 DEF Sound, Known
  <1>5. NeverOverstates'
    <2> SUFFICES ASSUME NEW u \in Tables, NEW e \in Days, <<u, e>> \notin overtaken
                 PROVE  rollup'[u][e] <= ever[u][e]
      BY <1>1 DEF NeverOverstates
    <2>1. CASE <<u, e>> = <<t, d>>
      BY <1>1, <1>2, <2>1
    <2>2. CASE <<u, e>> # <<t, d>>
      BY <1>1, <2>2 DEF Sound, NeverOverstates
    <2> QED BY <2>1, <2>2
  <1>6. Local(p)'
    <2>1. CASE Awaited(i)
      <3>1. job[p].attempt = failures
        BY <1>2, <2>1 DEF Sound, Local
      <3> QED BY <1>1, <1>2, <2>1, <3>1 DEF Sound, Local
    <2>2. CASE ~Awaited(i)
      <3>1. job' = job /\ Table(p)' = Table(p) /\ NextDay(p)' = NextDay(p)
        BY <1>1, <2>2, SameTable, SameDay
      <3>2. job[p].pc \in {"dropped", "inserting"} /\ <<Table(p), NextDay(p)>> \notin overtaken =>
                rollup'[Table(p)][NextDay(p)] = 0
        <4> SUFFICES ASSUME job[p].pc \in {"dropped", "inserting"},
                            <<Table(p), NextDay(p)>> \notin overtaken
                     PROVE  rollup'[Table(p)][NextDay(p)] = 0
          OBVIOUS
        <4>1. Listed(p, Table(p)) /\ Table(p) \in Tables
          BY ListedTable, Typed DEF Sound
        <4>2. <<t, d>> # <<Table(p), NextDay(p)>>
          BY <1>2, <2>2, <4>1
        <4>3. NextDay(p) \in Days
          <5>1. job[p].days # {} /\ job[p].days \subseteq Days /\ job[p].days \in SUBSET Nat
            BY Typed DEF Sound, Local
          <5> QED BY <5>1, MinOf DEF NextDay
        <4>4. rollup[Table(p)][NextDay(p)] = 0
          BY DEF Sound, Local
        <4> QED BY <1>1, <4>1, <4>2, <4>3, <4>4
      <3> QED BY <1>1, <3>1, <3>2 DEF Sound, Local
    <2> QED BY <2>1, <2>2
  <1> HIDE DEF t, d
  <1>7. Inserting(p)'
    <2> SUFFICES ASSUME NEW k \in inserts, k # i
                 PROVE  /\ k.day <= today /\ k.attempt <= failures
                        /\ k.rows <= ever[k.table][k.day]
                        /\ k.attempt = failures =>
                              /\ job'[p].pc = "inserting"
                              /\ k.table = Table(p)' /\ k.day = NextDay(p)'
                              /\ \A l \in inserts : l.attempt = failures => l = k
                        /\ Listed(p, k.table) =>
                              k.attempt = failures \/ <<k.table, k.day>> \in overtaken
                        /\ <<k.table, k.day>> \notin overtaken =>
                              /\ rollup'[k.table][k.day] = 0
                              /\ \A l \in inserts :
                                    l.table = k.table /\ <<l.table, l.day>> \notin overtaken => l = k
      BY <1>1, <1>3 DEF Inserting
    <2>1. k.table \in Tables /\ k.day \in Days
      BY Typed DEF Sound
    <2>2. <<k.table, k.day>> \notin overtaken => rollup'[k.table][k.day] = 0
      <3>1. <<k.table, k.day>> \notin overtaken => <<k.table, k.day>> # <<t, d>>
        BY <1>2
      <3> QED BY <1>1, <2>1, <3>1 DEF Sound, Inserting
    <2>3. k.attempt = failures =>
              job'[p].pc = "inserting" /\ k.table = Table(p)' /\ k.day = NextDay(p)'
      <3> SUFFICES ASSUME k.attempt = failures
                   PROVE  job'[p].pc = "inserting" /\ k.table = Table(p)' /\ k.day = NextDay(p)'
        OBVIOUS
      <3>1. CASE Awaited(i)
        <4>1. k = i
          BY <1>1, <1>2, <3>1 DEF Sound, Inserting
        <4> QED BY <4>1
      <3>2. CASE ~Awaited(i)
        BY <1>1, <3>2, SameTable, SameDay DEF Sound, Inserting
      <3> QED BY <3>1, <3>2
    <2> QED BY <2>2, <2>3 DEF Sound, Inserting
  <1> QED BY <1>1, <1>4, <1>5, <1>6, <1>7 DEF Sound

LEMMA SoundStep ==
    ASSUME NEW p, Procs = {p}, Sound(p), [Next]_vars
    PROVE  Sound(p)'
  <1>0. /\ today \in Nat
        /\ \A t \in Tables, d \in Days :
              ever[t][d] \in Nat /\ raw[t][d] \in Nat /\ raw[t][d] <= ever[t][d]
    BY Typed DEF Sound, Known
  <1>1. CASE \E t \in Tables, d \in Days : Arrive(t, d)
    <2>1. PICK t \in Tables, d \in Days : Arrive(t, d)
      BY <1>1
    <2>2. /\ TypeOK' /\ UNCHANGED <<today, rollup, inserts, job, failures, overtaken>>
          /\ d <= today
          /\ raw'[t][d] = raw[t][d] + 1 /\ ever'[t][d] = ever[t][d] + 1
          /\ \A u \in Tables, e \in Days : <<u, e>> # <<t, d>> =>
                raw'[u][e] = raw[u][e] /\ ever'[u][e] = ever[u][e]
      BY <2>1, ArriveDoes DEF Sound
    <2>3. \A u \in Tables, e \in Days :
              /\ ever[u][e] <= ever'[u][e] /\ raw'[u][e] <= ever'[u][e]
              /\ ever'[u][e] > 0 => ever[u][e] > 0 \/ e <= today
      <3> SUFFICES ASSUME NEW u \in Tables, NEW e \in Days
                   PROVE  /\ ever[u][e] <= ever'[u][e] /\ raw'[u][e] <= ever'[u][e]
                          /\ ever'[u][e] > 0 => ever[u][e] > 0 \/ e <= today
        OBVIOUS
      <3>1. CASE <<u, e>> = <<t, d>>
        BY <1>0, <2>2, <3>1
      <3>2. CASE <<u, e>> # <<t, d>>
        BY <1>0, <2>2, <3>2
      <3> QED BY <3>1, <3>2
    <2>4. today <= today'
      BY <1>0, <2>2
    <2> QED BY <2>2, <2>3, <2>4, SoundProduction
  <1>2. CASE \E t \in Tables, d \in Days : Expire(t, d)
    <2>1. PICK t \in Tables, d \in Days : Expire(t, d)
      BY <1>2
    <2>2. /\ TypeOK' /\ UNCHANGED <<today, ever, rollup, inserts, job, failures, overtaken>>
          /\ raw'[t][d] = raw[t][d] - 1
          /\ \A u \in Tables, e \in Days : <<u, e>> # <<t, d>> => raw'[u][e] = raw[u][e]
      BY <2>1, ExpireDoes DEF Sound
    <2>3. \A u \in Tables, e \in Days : ever[u][e] <= ever'[u][e] /\ raw'[u][e] <= ever'[u][e]
      <3> SUFFICES ASSUME NEW u \in Tables, NEW e \in Days
                   PROVE  ever[u][e] <= ever'[u][e] /\ raw'[u][e] <= ever'[u][e]
        OBVIOUS
      <3>1. CASE <<u, e>> = <<t, d>>
        BY <1>0, <2>2, <3>1
      <3>2. CASE <<u, e>> # <<t, d>>
        BY <1>0, <2>2, <3>2
      <3> QED BY <3>1, <3>2
    <2>4. today <= today'
      BY <1>0, <2>2
    <2> QED BY <2>2, <2>3, <2>4, SoundProduction
  <1>3. CASE NewDay
    <2>1. /\ TypeOK' /\ today' = today + 1
          /\ UNCHANGED <<ever, raw, rollup, inserts, job, failures, overtaken>>
      BY <1>3, NewDayDoes DEF Sound
    <2>2. /\ today <= today'
          /\ \A t \in Tables, d \in Days : ever[t][d] <= ever'[t][d] /\ raw'[t][d] <= ever'[t][d]
      BY <1>0, <2>1
    <2> QED BY <2>1, <2>2, SoundProduction
  <1>4. CASE \E full \in Modes : Begin(p, full)
    BY <1>4, SoundBegin
  <1>5. CASE ListDays(p)
    BY <1>5, SoundList
  <1>6. CASE DropPartition(p)
    BY <1>6, SoundDrop
  <1>7. CASE StartInsert(p)
    BY <1>7, SoundStart
  <1>8. CASE NextTable(p)
    BY <1>8, SoundNext
  <1>9. CASE \E i \in inserts : FinishInsert(i)
    BY <1>9, SoundFinish
  <1>10. CASE Fail(p)
    BY <1>10, SoundFail
  <1>11. CASE UNCHANGED vars
    <2>1. TypeOK' /\ UNCHANGED <<today, ever, raw, rollup, inserts, job, failures, overtaken>>
      BY <1>11 DEF vars, Sound, TypeOK
    <2>2. /\ today <= today'
          /\ \A t \in Tables, d \in Days : ever[t][d] <= ever'[t][d] /\ raw'[t][d] <= ever'[t][d]
      BY <1>0, <2>1
    <2> QED BY <2>1, <2>2, SoundProduction
  <1> QED
    BY <1>1, <1>2, <1>3, <1>4, <1>5, <1>6, <1>7, <1>8, <1>9, <1>10, <1>11 DEF Next, Step

LEMMA SoundInit ==
    ASSUME NEW p, Procs = {p}, Init
    PROVE  Sound(p)
  <1>1. Idle \in Refresh /\ job[p] = Idle /\ Idle.pc = "idle" /\ Idle.days = {}
    BY Constants, BoundsAssumption DEF Idle, Refresh, Init
  <1>2. \A t \in Tables, d \in Days : raw[t][d] = 0 /\ rollup[t][d] = 0 /\ ever[t][d] = 0
    BY DEF Init, Empty
  <1>3. TypeOK
    <2>1. 1 \in Days /\ 0 \in 0..MaxFailures
      BY BoundsAssumption DEF Days
    <2> QED BY <1>1, <2>1, Constants DEF Init, TypeOK
  <1>4. inserts = {}
    BY DEF Init
  <1> QED BY <1>1, <1>2, <1>3, <1>4 DEF Sound, Known, NeverOverstates, Local, Inserting

THEOREM Soundness == ASSUME NEW p, Procs = {p} PROVE Spec => []Sound(p)
  <1>1. Init => Sound(p)
    BY SoundInit
  <1>2. Sound(p) /\ [Next]_vars => Sound(p)'
    BY SoundStep
  <1> QED BY <1>1, <1>2, PTL DEF Spec

\* Whatever fails, however late the spans and whatever outlives its client, a rollup
\* that one process refreshes never counts a span twice, but for a day whose INSERT was
\* still running when the refresh after its own listed the days of the table.
THEOREM NothingIsCountedTwice ==
    ASSUME NEW p, Procs = {p} PROVE Spec => []NeverOverstates
  BY Soundness, PTL DEF Sound

-----------------------------------------------------------------------------
(* With a lookback as long as spans are late, every lag is reachable: a    *)
(* day that lags is never Lookback behind a day that is loaded or will be. *)

Lags(t, d) == Kept(t, d) /\ rollup[t][d] < raw[t][d]

\* No day that is loaded, or that an INSERT is loading, is far ahead of one that lags.
Reach ==
    \A t \in Tables, d \in Days : Lags(t, d) =>
        /\ \A w \in Loaded(t) : w <= d + Lookback
        /\ \A i \in inserts : i.table = t => i.day <= d + Lookback

\* A refresh that is loading has left out no day it would put out of reach,
Past(p) ==
    \A m \in job[p].days, d \in Days \ job[p].days : d + Lookback < m => ~Lags(Table(p), d)

\* drops no day that is out of reach, unless it rebuilds them all,
Window(p) ==
    Undisturbed(Table(p)) /\ ~job[p].full =>
        \A m \in job[p].days, w \in Loaded(Table(p)) : w <= m + Lookback

\* and a part that is out of date where it matters is added to a day within reach.
Recent(p) ==
    \A i \in inserts : Undisturbed(i.table) /\ i.rows < raw[i.table][i.day] =>
        /\ \A w \in Loaded(i.table) : w <= i.day + Lookback
        /\ i.attempt = failures => \A m \in job[p].days : m <= i.day + Lookback

Reachable(p) == Reach /\ Past(p) /\ Window(p) /\ Recent(p)

\* The lookback covers how late spans are.
Timely == MaxLate <= Lookback

\* The INSERT of a table that no refresh overtook is alone, and p's when p is there.
LEMMA LoneInsert ==
    ASSUME NEW p, Procs = {p}, Sound(p), NEW i \in inserts, Undisturbed(i.table)
    PROVE  /\ rollup[i.table][i.day] = 0
           /\ \A k \in inserts : k.table = i.table => k = i
           /\ Listed(p, i.table) => i.attempt = failures
  <1>1. \A k \in inserts : k.day \in Days
    BY Typed DEF Sound
  <1>2. \A k \in inserts : k.table = i.table => <<k.table, k.day>> \notin overtaken
    BY <1>1 DEF Undisturbed
  <1> QED BY <1>2 DEF Sound, Inserting

\* Everything that is known is within the lookback of a day on which a span arrives.
LEMMA ArrivesInReach ==
    ASSUME NEW p, Procs = {p}, Sound(p), Timely, NEW d \in Days, today <= d + MaxLate
    PROVE  /\ \A t \in Tables : \A w \in Loaded(t) : w <= d + Lookback
           /\ \A m \in job[p].days : m <= d + Lookback
           /\ \A i \in inserts : i.day <= d + Lookback
  <1>1. \A m \in Days : m <= today => m <= d + Lookback
    <2>1. /\ \A m \in Days : m \in Nat
          /\ d \in Nat /\ today \in Nat /\ MaxLate \in Nat /\ Lookback \in Nat
      BY Typed DEF Sound
    <2>2. today <= d + MaxLate /\ MaxLate <= Lookback
      BY DEF Timely
    <2> QED BY <2>1, <2>2
  <1>2. \A t \in Tables : \A w \in Loaded(t) : w \in Days /\ w <= today
    BY DEF Loaded, Sound, Known
  <1>3. \A m \in job[p].days : m \in Days /\ m <= today
    BY Typed DEF Sound, Local
  <1>4. \A i \in inserts : i.day \in Days /\ i.day <= today
    BY Typed DEF Sound, Inserting
  <1> QED BY <1>1, <1>2, <1>3, <1>4

LEMMA ReachArrive ==
    ASSUME NEW p, Procs = {p}, Sound(p), Timely, Reachable(p),
           NEW t \in Tables, NEW d \in Days, Arrive(t, d)
    PROVE  Reachable(p)'
  <1>1. /\ UNCHANGED <<today, rollup, inserts, job, failures, overtaken, unbuilt>>
        /\ today <= d + MaxLate
        /\ \A u \in Tables, e \in Days : <<u, e>> # <<t, d>> => raw'[u][e] = raw[u][e]
    BY ArriveDoes DEF Sound
  <1>2. Table(p)' = Table(p) /\ \A u : Loaded(u)' = Loaded(u) /\ (Undisturbed(u)' <=> Undisturbed(u))
    BY <1>1, SameTable DEF Loaded, Undisturbed
  <1>3. \A u \in Tables, e \in Days : Lags(u, e)' => Lags(u, e) \/ e = d
    BY <1>1, <1>2 DEF Lags, Kept
  <1>4. /\ \A u \in Tables : \A w \in Loaded(u) : w <= d + Lookback
        /\ \A m \in job[p].days : m <= d + Lookback
        /\ \A i \in inserts : i.day <= d + Lookback
    BY <1>1, ArrivesInReach
  <1>5. Reach'
    BY <1>1, <1>2, <1>3, <1>4 DEF Reachable, Reach
  <1>6. Past(p)'
    <2> SUFFICES ASSUME NEW m \in job[p].days, NEW e \in Days \ job[p].days, e + Lookback < m
                 PROVE  ~Lags(Table(p), e)'
      BY <1>1, <1>2 DEF Past
    <2>1. Table(p) \in Tables /\ m \in Nat /\ d \in Nat /\ Lookback \in Nat
      BY Typed DEF Sound
    <2>2. e # d
      BY <1>4, <2>1
    <2>3. ~Lags(Table(p), e)
      BY DEF Reachable, Past
    <2> QED BY <1>2, <1>3, <2>1, <2>2, <2>3
  <1>7. Window(p)'
    BY <1>1, <1>2 DEF Reachable, Window
  <1>8. Recent(p)'
    <2> SUFFICES ASSUME NEW i \in inserts, Undisturbed(i.table), i.rows < raw'[i.table][i.day]
                 PROVE  /\ \A w \in Loaded(i.table) : w <= i.day + Lookback
                        /\ i.attempt = failures => \A m \in job[p].days : m <= i.day + Lookback
      BY <1>1, <1>2 DEF Recent
    <2>1. i.table \in Tables /\ i.day \in Days
      BY Typed DEF Sound
    <2>2. CASE <<i.table, i.day>> = <<t, d>>
      BY <1>4, <2>2
    <2>3. CASE <<i.table, i.day>> # <<t, d>>
      BY <1>1, <2>1, <2>3 DEF Reachable, Recent
    <2> QED BY <2>2, <2>3
  <1> QED BY <1>5, <1>6, <1>7, <1>8 DEF Reachable

\* Steps after which nothing lags that did not, and no day is loaded or left to load
\* that was not.
LEMMA ReachLess ==
    ASSUME NEW p, Procs = {p}, Sound(p), Reachable(p), UNCHANGED rollup, overtaken \subseteq overtaken',
           \A t \in Tables, d \in Days : Lags(t, d)' => Lags(t, d),
           \A t \in Tables, d \in Days : raw'[t][d] \in Nat /\ raw'[t][d] <= raw[t][d],
           inserts' \subseteq inserts,
           \A i \in inserts' : i.attempt = failures' => i.attempt = failures,
           job'[p].days = {} \/ UNCHANGED job
    PROVE  Reachable(p)'
  <1>1. \A u : Loaded(u)' = Loaded(u) /\ (Undisturbed(u)' => Undisturbed(u))
    BY DEF Loaded, Undisturbed
  <1>2. job'[p].days = {} \/ (UNCHANGED job /\ Table(p)' = Table(p))
    BY SameTable
  <1>3. \A i \in inserts : i.rows < raw'[i.table][i.day] => i.rows < raw[i.table][i.day]
    <2> SUFFICES ASSUME NEW i \in inserts, i.rows < raw'[i.table][i.day]
                 PROVE  i.rows < raw[i.table][i.day]
      OBVIOUS
    <2>1. /\ i.table \in Tables /\ i.day \in Days /\ i.rows \in Nat
          /\ raw[i.table][i.day] \in Nat
      BY Typed DEF Sound
    <2> QED BY <2>1
  <1>4. Reach'
    BY <1>1 DEF Reachable, Reach
  <1>5. Past(p)'
    <2>1. Table(p) \in Tables
      BY Typed DEF Sound
    <2> QED BY <1>2, <2>1 DEF Reachable, Past
  <1>6. Window(p)'
    BY <1>1, <1>2 DEF Reachable, Window
  <1>7. Recent(p)'
    BY <1>1, <1>2, <1>3 DEF Reachable, Recent
  <1> QED BY <1>4, <1>5, <1>6, <1>7 DEF Reachable

\* What the days a refresh lists leave out is loaded.
LEMMA LeftOut ==
    ASSUME NEW p, Procs = {p}, Sound(p), Reach, NEW t \in Tables,
           NEW d \in Days \ DaysToLoad(t, job[p].full)
    PROVE  ~Lags(t, d)
  <1>1. CASE d \notin RawDays
    <2>1. ~(raw[t][d] > 0) /\ raw[t][d] \in Nat /\ rollup[t][d] \in Nat
      BY <1>1, Typed DEF RawDays, Sound
    <2> QED BY <2>1 DEF Lags
  <1>2. CASE d \in RawDays
    <2>1. Watermark(t) # 0 /\ ~(d + Lookback >= Watermark(t))
      BY <1>2 DEF DaysToLoad
    <2>2. Loaded(t) # {} /\ Loaded(t) \in SUBSET Days
      BY <2>1, Typed DEF Watermark, Sound
    <2>3. Watermark(t) \in Loaded(t)
      BY <2>2, MaxOf DEF Watermark
    <2>4. Watermark(t) \in Nat /\ d \in Nat /\ Lookback \in Nat
      BY <2>2, <2>3, Typed DEF Sound
    <2> QED BY <2>1, <2>3, <2>4 DEF Reach
  <1> QED BY <1>1, <1>2

LEMMA ReachList ==
    ASSUME NEW p, Procs = {p}, Sound(p), Reachable(p), ListDays(p)
    PROVE  Reachable(p)'
  <1> DEFINE T == Table(p)
             S == DaysToLoad(T, job[p].full)
  <1>1. /\ UNCHANGED <<today, raw, rollup, inserts, failures, unbuilt>> /\ job[p].pc = "listing"
        /\ job'[p].days = S /\ job'[p].next = job[p].next /\ job'[p].full = job[p].full
        /\ overtaken \subseteq overtaken'
    BY ListDaysDoes DEF Sound
  <1>2. T' = T /\ T \in Tables /\ \A u : Loaded(u)' = Loaded(u) /\ (Undisturbed(u)' => Undisturbed(u))
    BY <1>1, SameTable, Typed DEF Loaded, Undisturbed, Sound
  <1>3. \A u \in Tables, d \in Days : Lags(u, d)' => Lags(u, d)
    BY <1>1, <1>2 DEF Lags, Kept
  <1>4. Reach'
    BY <1>1, <1>2, <1>3 DEF Reachable, Reach
  <1>5. Past(p)'
    <2> SUFFICES ASSUME NEW d \in Days \ S PROVE ~Lags(T, d)'
      BY <1>1, <1>2 DEF Past
    <2>1. ~Lags(T, d)
      BY <1>2, LeftOut DEF Reachable
    <2> QED BY <1>2, <1>3, <2>1
  <1>6. Window(p)'
    <2> SUFFICES ASSUME ~job[p].full, NEW m \in S, NEW w \in Loaded(T) PROVE w <= m + Lookback
      BY <1>1, <1>2 DEF Window
    <2>1. Loaded(T) \in SUBSET Days
      BY <1>2, Typed DEF Sound
    <2>2. Watermark(T) \in Loaded(T) /\ w <= Watermark(T)
      BY <2>1, MaxOf DEF Watermark
    <2>3. Watermark(T) \in Nat /\ Watermark(T) # 0 /\ w \in Nat
      BY <2>1, <2>2 DEF Days
    <2>4. m \in Nat /\ Lookback \in Nat /\ m + Lookback >= Watermark(T)
      BY <2>3, Typed DEF DaysToLoad, RawDays, Sound
    <2> QED BY <2>2, <2>3, <2>4
  <1>7. Recent(p)'
    <2>1. \A i \in inserts : i.attempt # failures
      BY <1>1 DEF Sound, Inserting
    <2> QED BY <1>1, <1>2, <2>1 DEF Reachable, Recent
  <1> QED BY <1>4, <1>5, <1>6, <1>7 DEF Reachable

LEMMA ReachDrop ==
    ASSUME NEW p, Procs = {p}, Sound(p), Reachable(p), DropPartition(p)
    PROVE  Reachable(p)'
  <1> DEFINE T == Table(p)
             m == NextDay(p)
  <1>1. /\ UNCHANGED <<raw, inserts, failures, overtaken>> /\ job[p].pc = "loading"
        /\ m \in job[p].days /\ m \in Days
        /\ job'[p].days = job[p].days /\ job'[p].next = job[p].next
        /\ job'[p].full = job[p].full
        /\ rollup'[T][m] = 0
        /\ \A u \in Tables, e \in Days : <<u, e>> # <<T, m>> => rollup'[u][e] = rollup[u][e]
    <2>1. TypeOK
      BY DEF Sound
    <2> QED BY <2>1, DropPartitionDoes
  <1>2. unbuilt \subseteq unbuilt' /\ (job[p].full => <<T, m>> \in unbuilt')
    BY DropPartitionMarks
  <1>3. T' = T /\ T \in Tables /\ Listed(p, T)
    BY <1>1, SameTable, ListedTable, Typed DEF Sound
  <1> HIDE DEF T, m
  <1>4. \A u \in Tables : Loaded(u)' \subseteq Loaded(u)
    BY <1>1 DEF Loaded
  <1>5. \A u \in Tables, e \in Days : <<u, e>> # <<T, m>> /\ Lags(u, e)' => Lags(u, e)
    BY <1>1, <1>2 DEF Lags, Kept, Undisturbed
  <1>6. \A u \in Tables, e \in Days :
            <<u, e>> = <<T, m>> /\ Lags(u, e)' => Undisturbed(u) /\ ~job[p].full
    BY <1>1, <1>2 DEF Lags, Kept, Undisturbed
  <1>7. Reach'
    <2> SUFFICES ASSUME NEW u \in Tables, NEW e \in Days, Lags(u, e)'
                 PROVE  /\ \A w \in Loaded(u) : w <= e + Lookback
                        /\ \A i \in inserts : i.table = u => i.day <= e + Lookback
      BY <1>1, <1>4 DEF Reach
    <2>1. CASE <<u, e>> = <<T, m>>
      <3>0. Undisturbed(T) /\ ~job[p].full
        BY <1>6, <2>1
      <3>1. \A w \in Loaded(u) : w <= e + Lookback
        BY <1>1, <2>1, <3>0 DEF Reachable, Window, T
      <3>2. \A i \in inserts : i.table # T
        <4> SUFFICES ASSUME NEW i \in inserts, i.table = T PROVE FALSE
          OBVIOUS
        <4>1. Undisturbed(i.table) /\ Listed(p, i.table)
          BY <1>3, <3>0
        <4>2. i.attempt = failures
          BY <4>1, LoneInsert
        <4> QED BY <1>1, <4>2 DEF Sound, Inserting
      <3> QED BY <2>1, <3>1, <3>2
    <2>2. CASE <<u, e>> # <<T, m>>
      BY <1>5, <2>2 DEF Reachable, Reach
    <2> QED BY <2>1, <2>2
  <1>8. Past(p)'
    <2> SUFFICES ASSUME NEW l \in job[p].days, NEW d \in Days \ job[p].days, d + Lookback < l
                 PROVE  ~Lags(T, d)'
      BY <1>1, <1>3 DEF Past, T
    <2>1. <<T, d>> # <<T, m>> /\ ~Lags(T, d)
      BY <1>1 DEF Reachable, Past, T
    <2> QED BY <1>3, <1>5, <2>1
  <1>9. Window(p)'
    <2>1. \A u : Undisturbed(u)' => Undisturbed(u)
      BY <1>1 DEF Undisturbed
    <2> QED BY <1>1, <1>3, <1>4, <2>1 DEF Reachable, Window, T
  <1>10. Recent(p)'
    <2>1. \A u : Undisturbed(u)' => Undisturbed(u)
      BY <1>1 DEF Undisturbed
    <2>2. \A i \in inserts : i.table \in Tables
      BY Typed DEF Sound
    <2> QED BY <1>1, <1>4, <2>1, <2>2 DEF Reachable, Recent
  <1> QED BY <1>7, <1>8, <1>9, <1>10 DEF Reachable

LEMMA ReachStart ==
    ASSUME NEW p, Procs = {p}, Sound(p), Reachable(p), StartInsert(p)
    PROVE  Reachable(p)'
  <1> DEFINE T == Table(p)
             m == NextDay(p)
             S == job[p].days
  <1>1. job[p].pc = "dropped" /\ job[p].days # {}
    BY DEF StartInsert, Sound, Local
  <1>2. /\ UNCHANGED <<raw, rollup, failures, overtaken, unbuilt>> /\ job'[p].days = S
        /\ job'[p].next = job[p].next /\ job'[p].full = job[p].full
        /\ m \in S /\ m \in Days
    BY <1>1, StartInsertDoes DEF Sound
  <1>3. PICK i \in Insert : /\ inserts' = inserts \cup {i}
                            /\ i.table = T /\ i.day = m /\ i.rows = raw[i.table][i.day]
    BY <1>1, StartInsertDoes DEF Sound
  <1>4. T' = T /\ \A u : Loaded(u)' = Loaded(u) /\ (Undisturbed(u)' <=> Undisturbed(u))
    BY <1>2, SameTable DEF Loaded, Undisturbed
  <1>5. \A u, d : Lags(u, d)' <=> Lags(u, d)
    BY <1>2, <1>4 DEF Lags, Kept
  <1>6. \A d \in Days : Lags(T, d) => m <= d + Lookback
    <2> SUFFICES ASSUME NEW d \in Days, Lags(T, d) PROVE m <= d + Lookback
      OBVIOUS
    <2>1. S \in SUBSET Nat /\ S # {} /\ d \in Nat /\ m \in Nat /\ Lookback \in Nat
      BY <1>1, <1>2, Typed DEF Sound
    <2>2. CASE d \in S
      <3>1. m <= d
        BY <2>1, <2>2, MinOf DEF NextDay
      <3> QED BY <2>1, <3>1
    <2>3. CASE d \notin S
      <3>1. ~(d + Lookback < m)
        BY <1>2, <2>3 DEF Reachable, Past
      <3> QED BY <2>1, <3>1
    <2> QED BY <2>2, <2>3
  <1>7. i.rows \in Nat
    BY DEF Insert
  <1> HIDE DEF m, S
  <1>8. Reach'
    BY <1>2, <1>3, <1>4, <1>5, <1>6 DEF Reachable, Reach
  <1>9. Past(p)' /\ Window(p)'
    BY <1>2, <1>4, <1>5 DEF Reachable, Past, Window, S
  <1>10. Recent(p)'
    BY <1>2, <1>3, <1>4, <1>7 DEF Reachable, Recent, S
  <1> QED BY <1>8, <1>9, <1>10 DEF Reachable

LEMMA ReachFinish ==
    ASSUME NEW p, Procs = {p}, Sound(p), Reachable(p), NEW i, FinishInsert(i)
    PROVE  Reachable(p)'
  <1> DEFINE t == i.table
             d == i.day
             T == Table(p)
             S == job[p].days
  <1>1. /\ UNCHANGED <<raw, failures, overtaken>> /\ i \in inserts /\ inserts' = inserts \ {i}
        /\ t \in Tables /\ d \in Days /\ i.rows \in Nat
        /\ unbuilt' = unbuilt \ {<<t, d>>}
        /\ job'[p].next = job[p].next /\ job'[p].full = job[p].full
        /\ Awaited(i) => job'[p].days = S \ {d}
        /\ ~Awaited(i) => job' = job
        /\ rollup'[t][d] = rollup[t][d] + i.rows
        /\ \A u \in Tables, e \in Days : <<u, e>> # <<t, d>> => rollup'[u][e] = rollup[u][e]
    <2>1. TypeOK
      BY DEF Sound
    <2> QED BY <2>1, FinishInsertDoes
  <1>2. /\ Awaited(i) <=> i.attempt = failures
        /\ Awaited(i) => job[p].pc = "inserting" /\ t = T /\ d = NextDay(p)
    BY <1>1, AwaitedIs DEF Sound, Inserting
  <1>3. /\ Undisturbed(t) => /\ rollup[t][d] = 0
                             /\ \A k \in inserts : k.table = t => k = i
                             /\ Listed(p, t) => Awaited(i)
    BY <1>1, <1>2, LoneInsert
  <1>4. S \subseteq Days /\ job'[p].days \subseteq S /\ (S # {} => Listed(p, T))
    <2>1. S \subseteq Days
      BY Typed DEF Sound
    <2>2. S # {} => job[p].pc \in {"loading", "dropped", "inserting"}
      BY JobFields DEF Sound, Local
    <2> QED BY <1>1, <2>1, <2>2, ListedTable DEF Sound
  <1>5. T' = T /\ \A u : Undisturbed(u)' <=> Undisturbed(u)
    BY <1>1, SameTable DEF Undisturbed
  <1>6. Awaited(i) => d \in S /\ \A l \in S : d <= l
    <2> SUFFICES ASSUME Awaited(i) PROVE d \in S /\ \A l \in S : d <= l
      OBVIOUS
    <2>1. S \in SUBSET Nat /\ S # {}
      BY <1>2, Typed DEF Sound, Local
    <2> QED BY <1>2, <2>1, MinOf DEF NextDay
  <1>7. \A l \in Days : l \in Nat /\ Lookback \in Nat
    BY Typed DEF Sound
  <1> HIDE DEF t, d, T, S
  <1>8. \A u \in Tables : \A w \in Loaded(u)' : w \in Loaded(u) \/ (u = t /\ w = d)
    BY <1>1 DEF Loaded
  <1>9. \A u \in Tables, e \in Days : <<u, e>> # <<t, d>> /\ Lags(u, e)' => Lags(u, e)
    BY <1>1, <1>5 DEF Lags, Kept
  <1>10. \A u \in Tables, e \in Days : <<u, e>> = <<t, d>> /\ Lags(u, e)' =>
            /\ \A w \in Loaded(t) : w <= d + Lookback
            /\ Awaited(i) => \A m \in S : m <= d + Lookback
    <2> SUFFICES ASSUME NEW u \in Tables, NEW e \in Days, <<u, e>> = <<t, d>>, Lags(u, e)'
                 PROVE  /\ \A w \in Loaded(t) : w <= d + Lookback
                        /\ Awaited(i) => \A m \in S : m <= d + Lookback
      OBVIOUS
    <2>1. Undisturbed(t) /\ rollup'[t][d] < raw[t][d]
      BY <1>1, <1>5 DEF Lags, Kept
    <2>2. rollup'[t][d] = i.rows
      BY <1>1, <1>3, <2>1
    <2>3. Undisturbed(i.table) /\ i.rows < raw[i.table][i.day]
      BY <2>1, <2>2 DEF t, d
    <2> QED BY <1>1, <1>2, <2>3 DEF Reachable, Recent, t, d, S
  <1>11. Reach'
    <2> SUFFICES ASSUME NEW u \in Tables, NEW e \in Days, Lags(u, e)'
                 PROVE  /\ \A w \in Loaded(u)' : w <= e + Lookback
                        /\ \A k \in inserts' : k.table = u => k.day <= e + Lookback
      BY DEF Reach
    <2>1. CASE <<u, e>> = <<t, d>>
      <3>1. Undisturbed(t)
        BY <1>5, <2>1 DEF Lags, Kept
      <3>2. \A k \in inserts' : k.table # t
        BY <1>1, <1>3, <3>1
      <3>3. d <= d + Lookback
        BY <1>1, <1>7
      <3> QED BY <1>8, <1>10, <2>1, <3>2, <3>3
    <2>2. CASE <<u, e>> # <<t, d>>
      <3>1. Lags(u, e)
        BY <1>9, <2>2
      <3>2. \A k \in inserts : k.table = u => k.day <= e + Lookback
        BY <3>1 DEF Reachable, Reach
      <3>3. u = t => d <= e + Lookback
        BY <1>1, <3>2 DEF t, d
      <3> QED BY <1>1, <1>8, <3>1, <3>2, <3>3 DEF Reachable, Reach
    <2> QED BY <2>1, <2>2
  <1>12. Past(p)'
    <2> SUFFICES ASSUME NEW l \in job'[p].days, NEW e \in Days \ job'[p].days,
                        e + Lookback < l, Lags(T, e)'
                 PROVE  FALSE
      BY <1>5 DEF Past, T
    <2>1. l \in S /\ l \in Days /\ T \in Tables /\ Listed(p, T)
      BY <1>4, Typed DEF Sound, T
    <2>4. \A u \in Tables : u = T => Lags(u, e)'
      BY <1>5
    <2>2. CASE <<T, e>> = <<t, d>>
      <3>1. Undisturbed(t) /\ Lags(t, e)'
        BY <1>1, <1>5, <2>2, <2>4 DEF Lags, Kept
      <3>2. Awaited(i)
        BY <1>3, <2>1, <2>2, <3>1
      <3>3. l <= d + Lookback
        BY <1>1, <1>10, <2>1, <2>2, <2>4, <3>2
      <3> QED BY <1>1, <1>7, <2>1, <2>2, <3>3
    <2>3. CASE <<T, e>> # <<t, d>>
      <3>1. Lags(T, e)
        BY <1>9, <2>1, <2>3, <2>4
      <3>2. e \notin S
        BY <1>1, <1>2, <2>3 DEF S
      <3> QED BY <2>1, <3>1, <3>2 DEF Reachable, Past, T, S
    <2> QED BY <2>2, <2>3
  <1>13. Window(p)'
    <2> SUFFICES ASSUME Undisturbed(T), ~job[p].full, NEW l \in job'[p].days, NEW w \in Loaded(T)'
                 PROVE  w <= l + Lookback
      BY <1>1, <1>5 DEF Window, T
    <2>1. l \in S /\ l \in Days /\ T \in Tables /\ Listed(p, T)
      BY <1>4, Typed DEF Sound, T
    <2>0. w \in Loaded(T) \/ (T = t /\ w = d)
      <3>1. \A u \in Tables : u = T => w \in Loaded(u)'
        BY <1>5
      <3> QED BY <1>8, <2>1, <3>1
    <2>2. CASE w \in Loaded(T)
      BY <2>1, <2>2 DEF Reachable, Window, T, S
    <2>3. CASE T = t /\ w = d
      <3>1. Awaited(i)
        BY <1>3, <2>1, <2>3
      <3> QED BY <1>1, <1>6, <1>7, <2>1, <2>3, <3>1
    <2> QED BY <2>0, <2>2, <2>3
  <1>14. Recent(p)'
    <2> SUFFICES ASSUME NEW k \in inserts, k # i, Undisturbed(k.table),
                        k.rows < raw[k.table][k.day]
                 PROVE  /\ \A w \in Loaded(k.table)' : w <= k.day + Lookback
                        /\ k.attempt = failures => \A m \in job'[p].days : m <= k.day + Lookback
      BY <1>1, <1>5 DEF Recent
    <2>1. k.table # t
      BY <1>1, <1>3
    <2>2. k.table \in Tables
      BY Typed DEF Sound
    <2> QED BY <1>4, <1>8, <2>1, <2>2 DEF Reachable, Recent, S
  <1> QED BY <1>11, <1>12, <1>13, <1>14 DEF Reachable

LEMMA ReachStep ==
    ASSUME NEW p, Procs = {p}, Timely, Sound(p), Reachable(p), [Next]_vars
    PROVE  Reachable(p)'
  <1>0. \A t \in Tables, d \in Days : raw[t][d] \in Nat /\ rollup[t][d] \in Nat
    BY Typed DEF Sound
  <1>1. CASE \E t \in Tables, d \in Days : Arrive(t, d)
    BY <1>1, ReachArrive
  <1>2. CASE \E t \in Tables, d \in Days : Expire(t, d)
    <2>1. PICK t \in Tables, d \in Days : Expire(t, d)
      BY <1>2
    <2>2. /\ UNCHANGED <<rollup, inserts, job, failures, overtaken, unbuilt>>
          /\ TypeOK' /\ raw'[t][d] = raw[t][d] - 1
          /\ \A u \in Tables, e \in Days : <<u, e>> # <<t, d>> => raw'[u][e] = raw[u][e]
      BY <2>1, ExpireDoes DEF Sound
    <2>3. \A u \in Tables, e \in Days : raw'[u][e] \in Nat
      BY <2>2, Counted DEF TypeOK
    <2>4. \A u \in Tables, e \in Days : raw'[u][e] \in Nat /\ raw'[u][e] <= raw[u][e]
      <3> SUFFICES ASSUME NEW u \in Tables, NEW e \in Days PROVE raw'[u][e] <= raw[u][e]
        BY <2>3
      <3>1. CASE <<u, e>> = <<t, d>>
        BY <1>0, <2>2, <3>1
      <3>2. CASE <<u, e>> # <<t, d>>
        BY <1>0, <2>2, <3>2
      <3> QED BY <3>1, <3>2
    <2>5. \A u \in Tables, e \in Days : Lags(u, e)' => Lags(u, e)
      <3> SUFFICES ASSUME NEW u \in Tables, NEW e \in Days, Lags(u, e)' PROVE Lags(u, e)
        OBVIOUS
      <3>1. rollup[u][e] < raw'[u][e] /\ Kept(u, e)
        BY <2>2 DEF Lags, Kept, Undisturbed
      <3>2. rollup[u][e] < raw[u][e]
        BY <1>0, <2>4, <3>1
      <3> QED BY <3>1, <3>2 DEF Lags
    <2> QED BY <2>2, <2>4, <2>5, ReachLess
  <1>3. CASE NewDay \/ UNCHANGED vars \/ \E full \in Modes : Begin(p, full)
    <2>1. /\ UNCHANGED <<raw, rollup, inserts, failures, overtaken, unbuilt>>
          /\ UNCHANGED job \/ job'[p].days = {}
      <3>1. CASE NewDay \/ UNCHANGED vars
        BY <3>1 DEF NewDay, vars
      <3>2. CASE \E full \in Modes : Begin(p, full)
        BY <3>2, BeginDoes DEF Sound
      <3> QED BY <1>3, <3>1, <3>2
    <2>2. \A u \in Tables, e \in Days : Lags(u, e)' => Lags(u, e)
      BY <2>1 DEF Lags, Kept, Undisturbed
    <2>3. \A u \in Tables, e \in Days : raw'[u][e] \in Nat /\ raw'[u][e] <= raw[u][e]
      BY <1>0, <2>1
    <2> QED BY <2>1, <2>2, <2>3, ReachLess
  <1>4. CASE ListDays(p)
    BY <1>4, ReachList
  <1>5. CASE DropPartition(p)
    BY <1>5, ReachDrop
  <1>6. CASE StartInsert(p)
    BY <1>6, ReachStart
  <1>7. CASE NextTable(p) \/ Fail(p)
    <2>1. /\ UNCHANGED <<raw, rollup, overtaken, unbuilt>> /\ inserts' \subseteq inserts
          /\ job'[p].days = {}
          /\ \A i \in inserts' : i.attempt = failures' => i.attempt = failures
      <3>1. CASE NextTable(p)
        BY <3>1, NextTableDoes DEF Sound
      <3>2. CASE Fail(p)
        <4>1. /\ UNCHANGED <<raw, rollup, overtaken, unbuilt>> /\ inserts' \subseteq inserts
              /\ job'[p].days = {} /\ failures' = failures + 1
          BY <3>2, FailDoes DEF Sound
        <4>2. \A i \in inserts : i.attempt <= failures /\ i.attempt \in Nat /\ failures \in Nat
          BY Typed DEF Sound, Inserting
        <4> QED BY <4>1, <4>2
      <3> QED BY <1>7, <3>1, <3>2
    <2>2. \A u \in Tables, e \in Days : Lags(u, e)' => Lags(u, e)
      BY <2>1 DEF Lags, Kept, Undisturbed
    <2>3. \A u \in Tables, e \in Days : raw'[u][e] \in Nat /\ raw'[u][e] <= raw[u][e]
      BY <1>0, <2>1
    <2> QED BY <2>1, <2>2, <2>3, ReachLess
  <1>8. CASE \E i \in inserts : FinishInsert(i)
    BY <1>8, ReachFinish
  <1> QED BY <1>1, <1>2, <1>3, <1>4, <1>5, <1>6, <1>7, <1>8 DEF Next, Step

THEOREM Reachability ==
    ASSUME NEW p, Procs = {p}, Timely PROVE Spec => []Reachable(p)
  <1>1. Init => Reachable(p)
    <2> SUFFICES ASSUME Init PROVE Reachable(p)
      OBVIOUS
    <2>1. job[p] = Idle /\ Idle.days = {} /\ inserts = {}
      BY DEF Init, Idle
    <2>2. \A t \in Tables, d \in Days : ~(rollup[t][d] < raw[t][d])
      BY DEF Init, Empty
    <2> QED BY <2>1, <2>2 DEF Reachable, Reach, Past, Window, Recent, Lags
  <1>2. Sound(p) /\ Reachable(p) /\ [Next]_vars => Reachable(p)'
    BY ReachStep
  <1> QED BY <1>1, <1>2, Soundness, PTL DEF Spec

\* Where no refresh overtook an INSERT and the lookback covers how late spans arrive, a
\* day that lacks spans otel_traces has, because they were late or a refresh failed
\* between the drop and the insert, is always one that the next refresh reloads; a day
\* that a --full refresh dropped is excepted until it is rebuilt.
THEOREM EveryLagIsReachable ==
    ASSUME NEW p, Procs = {p}, Timely PROVE Spec => []LagIsReachable
  <1>1. Sound(p) /\ Reachable(p) => LagIsReachable
    <2> SUFFICES ASSUME Sound(p), Reachable(p), NEW t \in Tables, NEW d \in Days,
                        Lags(t, d), Watermark(t) # 0
                 PROVE  d + Lookback >= Watermark(t)
      BY DEF LagIsReachable, Lags
    <2>1. Loaded(t) # {} /\ Loaded(t) \in SUBSET Days
      BY Typed DEF Watermark, Sound
    <2>2. Watermark(t) \in Loaded(t)
      BY <2>1, MaxOf DEF Watermark
    <2>3. Watermark(t) <= d + Lookback /\ Watermark(t) \in Nat /\ d \in Nat /\ Lookback \in Nat
      BY <2>1, <2>2, Typed DEF Reachable, Reach, Sound
    <2> QED BY <2>3
  <1> QED BY <1>1, Soundness, Reachability, PTL

-----------------------------------------------------------------------------
(* What a refresh that has finished has done.                              *)

\* What the refresh has rebuilt counts the spans there were when it began.
Rebuilt(p) ==
    /\ \A t \in Tables, d \in Days : Retained(d) => job[p].began[t][d] <= raw[t][d]
    /\ \A i \in inserts :
          i.attempt = failures /\ Retained(i.day) => job[p].began[i.table][i.day] <= i.rows
    /\ \A t \in Tables, d \in Days :
          Listed(p, t) /\ Kept(t, d) /\ Retained(d) /\ ~(t = Table(p) /\ d \in job[p].days)
              => job[p].began[t][d] <= rollup[t][d]

\* Spans that arrive or expire, and the calendar.
LEMMA RebuiltProduction ==
    ASSUME NEW p, Procs = {p}, Sound(p), Rebuilt(p),
           UNCHANGED <<rollup, inserts, job, failures, overtaken, unbuilt>>,
           \A d \in Days : Retained(d)' => Retained(d),
           \A t \in Tables, d \in Days : Retained(d)' => job[p].began[t][d] <= raw'[t][d]
    PROVE  Rebuilt(p)'
  <1>1. /\ Table(p)' = Table(p) /\ \A t : Listed(p, t)' <=> Listed(p, t)
        /\ \A t, d : Kept(t, d)' <=> Kept(t, d)
    BY SameTable DEF Listed, Kept, Undisturbed
  <1>2. \A i \in inserts : i.day \in Days
    BY Typed DEF Sound
  <1> QED BY <1>1, <1>2 DEF Rebuilt

LEMMA RebuiltArrive ==
    ASSUME NEW p, Procs = {p}, Sound(p), Rebuilt(p),
           NEW t \in Tables, NEW d \in Days, Arrive(t, d)
    PROVE  Rebuilt(p)'
  <1>1. /\ UNCHANGED <<today, rollup, inserts, job, failures, overtaken, unbuilt>>
        /\ raw'[t][d] = raw[t][d] + 1
        /\ \A u \in Tables, e \in Days : <<u, e>> # <<t, d>> => raw'[u][e] = raw[u][e]
    BY ArriveDoes DEF Sound
  <1>2. \A e : Retained(e)' <=> Retained(e)
    BY <1>1 DEF Retained
  <1>3. \A u \in Tables, e \in Days : Retained(e)' => job[p].began[u][e] <= raw'[u][e]
    <2> SUFFICES ASSUME NEW u \in Tables, NEW e \in Days, Retained(e)
                 PROVE  job[p].began[u][e] <= raw'[u][e]
      BY <1>2
    <2>1. /\ job[p].began[u][e] <= raw[u][e]
          /\ raw[u][e] \in Nat /\ job[p].began[u][e] \in Nat
      BY Typed DEF Sound, Rebuilt
    <2>2. CASE <<u, e>> = <<t, d>>
      BY <1>1, <2>1, <2>2
    <2>3. CASE <<u, e>> # <<t, d>>
      BY <1>1, <2>1, <2>3
    <2> QED BY <2>2, <2>3
  <1> QED BY <1>1, <1>2, <1>3, RebuiltProduction

LEMMA RebuiltExpire ==
    ASSUME NEW p, Procs = {p}, Sound(p), Rebuilt(p),
           NEW t \in Tables, NEW d \in Days, Expire(t, d)
    PROVE  Rebuilt(p)'
  <1>1. /\ UNCHANGED <<today, rollup, inserts, job, failures, overtaken, unbuilt>>
        /\ ~Retained(d)
        /\ \A u \in Tables, e \in Days : <<u, e>> # <<t, d>> => raw'[u][e] = raw[u][e]
    BY ExpireDoes DEF Sound
  <1>2. \A e : Retained(e)' <=> Retained(e)
    BY <1>1 DEF Retained
  <1>3. \A u \in Tables, e \in Days : Retained(e)' => job[p].began[u][e] <= raw'[u][e]
    BY <1>1, <1>2 DEF Rebuilt
  <1> QED BY <1>1, <1>2, <1>3, RebuiltProduction

LEMMA RebuiltToday ==
    ASSUME NEW p, Procs = {p}, Sound(p), Rebuilt(p), NewDay \/ UNCHANGED vars
    PROVE  Rebuilt(p)'
  <1>1. /\ UNCHANGED <<raw, rollup, inserts, job, failures, overtaken, unbuilt>>
        /\ today' = today + 1 \/ today' = today
    BY DEF NewDay, vars
  <1>2. \A e \in Days : Retained(e)' => Retained(e)
    <2>1. today \in Nat /\ Retention \in Nat /\ \A e \in Days : e \in Nat
      BY Typed DEF Sound
    <2> QED BY <1>1, <2>1 DEF Retained
  <1>3. \A u \in Tables, e \in Days : Retained(e)' => job[p].began[u][e] <= raw'[u][e]
    BY <1>1, <1>2 DEF Rebuilt
  <1> QED BY <1>1, <1>2, <1>3, RebuiltProduction

\* A refresh that begins, or fails, has rebuilt nothing yet.
LEMMA RebuiltNothing ==
    ASSUME NEW p, Procs = {p}, Sound(p)', \A t : ~Listed(p, t)',
           job'[p].pc \in {"idle", "listing"},
           \A t \in Tables, d \in Days : job'[p].began[t][d] <= raw'[t][d]
    PROVE  Rebuilt(p)'
  <1>1. \A i \in inserts' : i.attempt # failures'
    BY DEF Sound, Inserting
  <1> QED BY <1>1 DEF Rebuilt

LEMMA RebuiltBegin ==
    ASSUME NEW p, Procs = {p}, Sound(p), Sound(p)', NEW full \in Modes, Begin(p, full)
    PROVE  Rebuilt(p)'
  <1>1. UNCHANGED raw /\ job'[p].pc = "listing" /\ job'[p].next = 1 /\ job'[p].began = raw
    BY BeginDoes DEF Sound
  <1>2. \A t : ~Listed(p, t)'
    BY <1>1, BoundsAssumption DEF Listed
  <1>3. \A t \in Tables, d \in Days : raw[t][d] <= raw[t][d]
    BY Typed DEF Sound
  <1> QED BY <1>1, <1>2, <1>3, RebuiltNothing

LEMMA RebuiltFail ==
    ASSUME NEW p, Procs = {p}, Sound(p), Sound(p)', Fail(p)
    PROVE  Rebuilt(p)'
  <1>1. UNCHANGED raw /\ job'[p].pc = "idle" /\ job'[p].began = Empty
    BY FailDoes DEF Sound
  <1>2. \A t : ~Listed(p, t)'
    BY <1>1 DEF Listed
  <1>3. \A t \in Tables, d \in Days : Empty[t][d] <= raw[t][d]
    <2>1. \A t \in Tables, d \in Days : Empty[t][d] = 0 /\ raw[t][d] \in Nat
      BY Typed DEF Empty, Sound
    <2> QED BY <2>1
  <1> QED BY <1>1, <1>2, <1>3, RebuiltNothing

LEMMA RebuiltList ==
    ASSUME NEW p, Procs = {p}, Sound(p), Reachable(p), Rebuilt(p), ListDays(p)
    PROVE  Rebuilt(p)'
  <1> DEFINE T == Table(p)
             S == DaysToLoad(T, job[p].full)
  <1>1. /\ UNCHANGED <<today, raw, rollup, inserts, failures, unbuilt>>
        /\ job[p].pc = "listing" /\ job'[p].pc = "loading" /\ job'[p].days = S
        /\ job'[p].next = job[p].next /\ job'[p].began = job[p].began
        /\ overtaken \subseteq overtaken'
    BY ListDaysDoes DEF Sound
  <1>2. T' = T /\ T \in Tables /\ job[p].days = {}
    BY <1>1, SameTable, Typed DEF Sound, Local
  <1>3. /\ \A t : Listed(p, t)' => Listed(p, t) \/ t = T
        /\ \A t, d : Kept(t, d)' => Kept(t, d)
        /\ \A d : Retained(d)' <=> Retained(d)
    <2>1. \A t : Listed(p, t)' => Listed(p, t) \/ t = T
      BY <1>1 DEF Listed, Table
    <2>2. \A t, d : Kept(t, d)' => Kept(t, d)
      BY <1>1 DEF Kept, Undisturbed
    <2>3. \A d : Retained(d)' <=> Retained(d)
      BY <1>1 DEF Retained
    <2> QED BY <2>1, <2>2, <2>3
  <1>4. \A d \in Days \ S : Kept(T, d) /\ Retained(d) => job[p].began[T][d] <= rollup[T][d]
    <2> SUFFICES ASSUME NEW d \in Days \ S, Kept(T, d), Retained(d)
                 PROVE  job[p].began[T][d] <= rollup[T][d]
      OBVIOUS
    <2>1. ~(rollup[T][d] < raw[T][d])
      BY <1>2, LeftOut DEF Reachable, Lags
    <2>2. job[p].began[T][d] <= raw[T][d]
      BY <1>2 DEF Rebuilt
    <2>3. job[p].began[T][d] \in Nat /\ raw[T][d] \in Nat /\ rollup[T][d] \in Nat
      BY <1>2, Typed DEF Sound
    <2> QED BY <2>1, <2>2, <2>3
  <1> HIDE DEF S
  <1>5. \A t \in Tables, d \in Days :
          Listed(p, t)' /\ Kept(t, d)' /\ Retained(d) /\ ~(t = T /\ d \in S)
              => job[p].began[t][d] <= rollup[t][d]
    <2> SUFFICES ASSUME NEW t \in Tables, NEW d \in Days, Listed(p, t)', Kept(t, d)',
                        Retained(d), ~(t = T /\ d \in S)
                 PROVE  job[p].began[t][d] <= rollup[t][d]
      OBVIOUS
    <2>1. CASE t = T
      BY <1>3, <1>4, <2>1
    <2>2. CASE t # T
      BY <1>3, <2>2 DEF Rebuilt
    <2> QED BY <2>1, <2>2
  <1> QED BY <1>1, <1>2, <1>3, <1>5 DEF Rebuilt

LEMMA RebuiltDrop ==
    ASSUME NEW p, Procs = {p}, Sound(p), Rebuilt(p), DropPartition(p)
    PROVE  Rebuilt(p)'
  <1> DEFINE T == Table(p)
             m == NextDay(p)
  <1>1. /\ UNCHANGED <<today, raw, inserts, failures, overtaken>>
        /\ job[p].pc = "loading" /\ job'[p].pc = "dropped" /\ m \in job[p].days
        /\ job'[p].days = job[p].days /\ job'[p].next = job[p].next
        /\ job'[p].began = job[p].began
        /\ \A u \in Tables, e \in Days : <<u, e>> # <<T, m>> => rollup'[u][e] = rollup[u][e]
    <2>1. TypeOK
      BY DEF Sound
    <2> QED BY <2>1, DropPartitionDoes
  <1>2. T' = T /\ \A t : Listed(p, t)' <=> Listed(p, t)
    BY <1>1, SameTable, SameListed
  <1>3. \A t, d : Kept(t, d)' => Kept(t, d)
    BY <1>1, DropPartitionMarks DEF Kept, Undisturbed
  <1>4. \A d : Retained(d)' <=> Retained(d)
    BY <1>1 DEF Retained
  <1> HIDE DEF T, m
  <1>5. \A t \in Tables, d \in Days :
          Listed(p, t) /\ Kept(t, d)' /\ Retained(d) /\ ~(t = T /\ d \in job[p].days)
              => job[p].began[t][d] <= rollup'[t][d]
    <2> SUFFICES ASSUME NEW t \in Tables, NEW d \in Days, Listed(p, t), Kept(t, d)',
                        Retained(d), ~(t = T /\ d \in job[p].days)
                 PROVE  job[p].began[t][d] <= rollup'[t][d]
      OBVIOUS
    <2>1. rollup'[t][d] = rollup[t][d]
      BY <1>1
    <2> QED BY <1>3, <2>1 DEF Rebuilt, T
  <1> QED BY <1>1, <1>2, <1>4, <1>5 DEF Rebuilt, T

LEMMA RebuiltStart ==
    ASSUME NEW p, Procs = {p}, Sound(p), Rebuilt(p), StartInsert(p)
    PROVE  Rebuilt(p)'
  <1>1. job[p].pc = "dropped" /\ job[p].days # {}
    BY DEF StartInsert, Sound, Local
  <1>2. /\ UNCHANGED <<today, raw, rollup, failures, overtaken, unbuilt>>
        /\ job'[p].pc = "inserting" /\ job'[p].days = job[p].days
        /\ job'[p].next = job[p].next /\ job'[p].began = job[p].began
    BY <1>1, StartInsertDoes DEF Sound
  <1>3. PICK i \in Insert : inserts' = inserts \cup {i} /\ i.rows = raw[i.table][i.day]
    BY <1>1, StartInsertDoes DEF Sound
  <1>4. /\ Table(p)' = Table(p) /\ \A t : Listed(p, t)' <=> Listed(p, t)
    BY <1>1, <1>2, SameTable, SameListed
  <1>5. /\ \A t, d : Kept(t, d)' <=> Kept(t, d)
        /\ \A d : Retained(d)' <=> Retained(d)
    BY <1>2 DEF Kept, Undisturbed, Retained
  <1>6. Retained(i.day) => job[p].began[i.table][i.day] <= i.rows
    BY <1>3 DEF Rebuilt, Insert
  <1> QED BY <1>2, <1>3, <1>4, <1>5, <1>6 DEF Rebuilt

LEMMA RebuiltNext ==
    ASSUME NEW p, Procs = {p}, Sound(p), Rebuilt(p), NextTable(p)
    PROVE  Rebuilt(p)'
  <1>1. /\ UNCHANGED <<today, raw, rollup, inserts, failures, overtaken, unbuilt>>
        /\ job[p].days = {} /\ job'[p].began = job[p].began
    BY NextTableDoes DEF Sound
  <1>2. \A t \in Tables : Listed(p, t)' => Listed(p, t)
    BY ListedNext DEF Sound
  <1>3. /\ \A t, d : Kept(t, d)' <=> Kept(t, d)
        /\ \A d : Retained(d)' <=> Retained(d)
    BY <1>1 DEF Kept, Undisturbed, Retained
  <1> QED BY <1>1, <1>2, <1>3 DEF Rebuilt

LEMMA RebuiltFinish ==
    ASSUME NEW p, Procs = {p}, Sound(p), Rebuilt(p), NEW i, FinishInsert(i)
    PROVE  Rebuilt(p)'
  <1> DEFINE t == i.table
             d == i.day
             T == Table(p)
             S == job[p].days
  <1>1. /\ UNCHANGED <<today, raw, failures, overtaken>>
        /\ i \in inserts /\ inserts' = inserts \ {i}
        /\ t \in Tables /\ d \in Days /\ i.rows \in Nat
        /\ unbuilt' = unbuilt \ {<<t, d>>}
        /\ job'[p].next = job[p].next /\ job'[p].began = job[p].began
        /\ Awaited(i) => job'[p].pc = "loading" /\ job'[p].days = S \ {d}
        /\ ~Awaited(i) => job' = job
        /\ rollup'[t][d] = rollup[t][d] + i.rows
        /\ \A u \in Tables, e \in Days : <<u, e>> # <<t, d>> => rollup'[u][e] = rollup[u][e]
    <2>1. TypeOK
      BY DEF Sound
    <2> QED BY <2>1, FinishInsertDoes
  <1>2. /\ Awaited(i) <=> i.attempt = failures
        /\ Awaited(i) => job[p].pc = "inserting" /\ t = T
    BY <1>1, AwaitedIs DEF Sound, Inserting
  <1>3. Undisturbed(t) => rollup[t][d] = 0 /\ (Listed(p, t) => Awaited(i))
    BY <1>1, <1>2, LoneInsert
  <1>4. T' = T /\ \A u : Listed(p, u)' <=> Listed(p, u)
    <2>1. CASE Awaited(i)
      BY <1>1, <1>2, <2>1, SameListed, SameTable
    <2>2. CASE ~Awaited(i)
      BY <1>1, <2>2, SameTable DEF Listed
    <2> QED BY <2>1, <2>2
  <1>5. /\ \A u : Undisturbed(u)' <=> Undisturbed(u)
        /\ \A e : Retained(e)' <=> Retained(e)
        /\ \A u, e : <<u, e>> # <<t, d>> /\ Kept(u, e)' => Kept(u, e)
    BY <1>1 DEF Kept, Undisturbed, Retained
  <1>6. i.attempt = failures /\ Retained(d) => job[p].began[t][d] <= i.rows
    BY <1>1 DEF Rebuilt
  <1> HIDE DEF t, d, T, S
  <1>7. \A u \in Tables, e \in Days :
          Listed(p, u) /\ Kept(u, e)' /\ Retained(e) /\ ~(u = T /\ e \in job'[p].days)
              => job[p].began[u][e] <= rollup'[u][e]
    <2> SUFFICES ASSUME NEW u \in Tables, NEW e \in Days, Listed(p, u), Kept(u, e)',
                        Retained(e), ~(u = T /\ e \in job'[p].days)
                 PROVE  job[p].began[u][e] <= rollup'[u][e]
      OBVIOUS
    <2>1. CASE <<u, e>> = <<t, d>>
      <3>1. Undisturbed(t)
        BY <1>5, <2>1 DEF Kept
      <3>2. Awaited(i) /\ rollup[t][d] = 0
        BY <1>3, <2>1, <3>1
      <3>3. rollup'[t][d] = i.rows
        BY <1>1, <3>2
      <3> QED BY <1>2, <1>6, <2>1, <3>2, <3>3
    <2>2. CASE <<u, e>> # <<t, d>>
      <3>1. ~(u = T /\ e \in S)
        BY <1>1, <1>2, <2>2 DEF S
      <3>2. Kept(u, e) /\ rollup'[u][e] = rollup[u][e]
        BY <1>1, <1>5, <2>2
      <3> QED BY <3>1, <3>2 DEF Rebuilt, T, S
    <2> QED BY <2>1, <2>2
  <1> QED BY <1>1, <1>4, <1>5, <1>7 DEF Rebuilt, T

LEMMA RebuiltStep ==
    ASSUME NEW p, Procs = {p}, Sound(p), Sound(p)', Reachable(p), Rebuilt(p), [Next]_vars
    PROVE  Rebuilt(p)'
  <1>1. CASE \E t \in Tables, d \in Days : Arrive(t, d)
    BY <1>1, RebuiltArrive
  <1>2. CASE \E t \in Tables, d \in Days : Expire(t, d)
    BY <1>2, RebuiltExpire
  <1>3. CASE NewDay \/ UNCHANGED vars
    BY <1>3, RebuiltToday
  <1>4. CASE \E full \in Modes : Begin(p, full)
    BY <1>4, RebuiltBegin
  <1>5. CASE ListDays(p)
    BY <1>5, RebuiltList
  <1>6. CASE DropPartition(p)
    BY <1>6, RebuiltDrop
  <1>7. CASE StartInsert(p)
    BY <1>7, RebuiltStart
  <1>8. CASE NextTable(p)
    BY <1>8, RebuiltNext
  <1>9. CASE \E i \in inserts : FinishInsert(i)
    BY <1>9, RebuiltFinish
  <1>10. CASE Fail(p)
    BY <1>10, RebuiltFail
  <1> QED BY <1>1, <1>2, <1>3, <1>4, <1>5, <1>6, <1>7, <1>8, <1>9, <1>10 DEF Next, Step

\* "Bring the rollups up to date": where the lookback covers how late spans arrive, a
\* finished refresh counts at least the spans there were when it began, on every day
\* that has not begun to expire, in every table whose INSERTs no refresh overtook, but
\* for days that a --full refresh emptied and nothing has rebuilt.
THEOREM RefreshCatchesUp ==
    ASSUME NEW p, Procs = {p}, Timely PROVE Spec => []CompletedRefreshIsUpToDate
  <1>1. Init => Rebuilt(p)
    <2> SUFFICES ASSUME Init PROVE Rebuilt(p)
      OBVIOUS
    <2>1. job[p] = Idle /\ Idle.pc = "idle" /\ Idle.began = Empty /\ inserts = {} /\ raw = Empty
      BY DEF Init, Idle
    <2>2. \A t \in Tables, d \in Days : Empty[t][d] <= Empty[t][d]
      BY DEF Empty
    <2>3. \A t : ~Listed(p, t)
      BY <2>1 DEF Listed
    <2> QED BY <2>1, <2>2, <2>3 DEF Rebuilt
  <1>2. Sound(p) /\ Sound(p)' /\ Reachable(p) /\ Rebuilt(p) /\ [Next]_vars => Rebuilt(p)'
    BY RebuiltStep
  <1>3. Sound(p) /\ Rebuilt(p) => CompletedRefreshIsUpToDate
    <2> SUFFICES ASSUME Sound(p), Rebuilt(p), job[p].pc = "done",
                        NEW t \in Tables, NEW d \in Days, Kept(t, d), Retained(d)
                 PROVE  job[p].began[t][d] <= rollup[t][d]
      BY DEF CompletedRefreshIsUpToDate
    <2>1. Listed(p, t) /\ job[p].days = {}
      BY DEF Listed, Sound, Local
    <2> QED BY <2>1 DEF Rebuilt
  <1> QED BY <1>1, <1>2, <1>3, Soundness, Reachability, PTL DEF Spec

-----------------------------------------------------------------------------
(* A refresh is bounded: the steps that it still has.                      *)

\* Listing the days of a table, three steps for each of them, and the next table.
PerTable == 3 * LastDay + 2

Here(j) ==
    CASE j.pc = "listing"   -> PerTable
      [] j.pc = "loading"   -> 3 * Cardinality(j.days) + 1
      [] j.pc = "dropped"   -> 3 * Cardinality(j.days)
      [] j.pc = "inserting" -> 3 * Cardinality(j.days) - 1

\* This table's, and those of the tables after it.
StepsLeft(j) ==
    IF j.pc \in {"idle", "done"} THEN 0 ELSE (Len(LOADS) - j.next) * PerTable + Here(j)

\* The steps of the refresh itself: an INSERT that it does not wait for is not one.
OwnStep(p) ==
    \/ ListDays(p) \/ DropPartition(p) \/ StartInsert(p) \/ NextTable(p) \/ Fail(p)
    \/ \E i \in inserts : Awaited(i) /\ FinishInsert(i)

\* A refresh that is under way has a step less after each of its own, and never more.
RefreshAdvances(p) ==
    [][job[p].pc \notin {"idle", "done"} =>
         /\ StepsLeft(job'[p]) <= StepsLeft(job[p])
         /\ OwnStep(p) => StepsLeft(job'[p]) < StepsLeft(job[p])]_vars

LEMMA DaysAreFew ==
    ASSUME NEW S \in SUBSET Days
    PROVE  /\ Cardinality(S) \in 0..LastDay
           /\ S # {} => Cardinality(S) # 0
           /\ \A d \in S : Cardinality(S \ {d}) = Cardinality(S) - 1
  <1>1. LastDay \in Nat \ {0}
    BY BoundsAssumption
  <1>2. IsFiniteSet(Days) /\ Cardinality(Days) = LastDay
    BY <1>1, FS_Interval DEF Days
  <1>3. IsFiniteSet(S) /\ Cardinality(S) <= LastDay
    BY <1>2, FS_Subset
  <1>4. Cardinality(S) \in Nat
    BY <1>3, FS_CardinalityType
  <1>5. S # {} => Cardinality(S) # 0
    BY <1>3, FS_EmptySet
  <1>6. \A d \in S : Cardinality(S \ {d}) = Cardinality(S) - 1
    BY <1>3, FS_RemoveElement
  <1> QED BY <1>1, <1>3, <1>4, <1>5, <1>6

LEMMA TablesLeft ==
    ASSUME NEW n \in 1..Len(LOADS)
    PROVE  /\ PerTable \in Nat /\ PerTable = 3 * LastDay + 2 /\ LastDay \in Nat
           /\ (Len(LOADS) - n) * PerTable \in Nat /\ Len(LOADS) * PerTable \in Nat
           /\ (Len(LOADS) - n) * PerTable + PerTable <= Len(LOADS) * PerTable
           /\ n < Len(LOADS) => (Len(LOADS) - (n + 1)) * PerTable + PerTable
                                   = (Len(LOADS) - n) * PerTable
  <1>1. PerTable \in Nat /\ LastDay \in Nat
    BY BoundsAssumption DEF PerTable
  <1>2. Len(LOADS) \in Nat /\ n \in Nat /\ 1 <= n /\ n <= Len(LOADS)
    BY BoundsAssumption
  <1>3. \A a, c \in Nat : a <= c => a * PerTable <= c * PerTable /\ a * PerTable \in Nat
    BY <1>1
  <1>4. \A a \in Int : a * PerTable + PerTable = (a + 1) * PerTable
    BY <1>1
  <1>5. (Len(LOADS) - n) * PerTable \in Nat /\ Len(LOADS) * PerTable \in Nat
    BY <1>2, <1>3
  <1>6. (Len(LOADS) - n) * PerTable + PerTable <= Len(LOADS) * PerTable
    <2>1. /\ Len(LOADS) - n \in Int
          /\ (Len(LOADS) - n) + 1 \in Nat /\ (Len(LOADS) - n) + 1 <= Len(LOADS)
      BY <1>2
    <2>2. (Len(LOADS) - n) * PerTable + PerTable = ((Len(LOADS) - n) + 1) * PerTable
      BY <1>4, <2>1
    <2>3. ((Len(LOADS) - n) + 1) * PerTable <= Len(LOADS) * PerTable
      BY <1>2, <1>3, <2>1
    <2> QED BY <2>2, <2>3
  <1>7. (Len(LOADS) - (n + 1)) * PerTable + PerTable = (Len(LOADS) - n) * PerTable
    <2>1. /\ Len(LOADS) - (n + 1) \in Int
          /\ (Len(LOADS) - (n + 1)) + 1 = Len(LOADS) - n
      BY <1>2
    <2> QED BY <1>4, <2>1
  <1> QED BY <1>1, <1>5, <1>6, <1>7 DEF PerTable

LEMMA StepsType ==
    ASSUME NEW j \in Refresh, j.pc \in {"dropped", "inserting"} => j.days # {}
    PROVE  /\ StepsLeft(j) \in Nat /\ StepsLeft(j) <= Len(LOADS) * PerTable
           /\ StepsLeft(j) = 0 <=> j.pc \in {"idle", "done"}
  <1>1. /\ j.pc \in {"idle", "listing", "loading", "dropped", "inserting", "done"}
        /\ j.next \in 1..Len(LOADS) /\ j.days \in SUBSET Days
    BY DEF Refresh
  <1> DEFINE A == (Len(LOADS) - j.next) * PerTable
             B == Len(LOADS) * PerTable
             C == Cardinality(j.days)
  <1>2. A \in Nat /\ B \in Nat /\ A + PerTable <= B /\ PerTable = 3 * LastDay + 2
        /\ LastDay \in Nat
    BY <1>1, TablesLeft
  <1>3. C \in 0..LastDay /\ (j.days # {} => C # 0)
    BY <1>1, DaysAreFew
  <1>4. CASE j.pc \in {"idle", "done"}
    <2>1. StepsLeft(j) = 0
      BY <1>4 DEF StepsLeft
    <2> HIDE DEF B
    <2> QED BY <1>2, <1>4, <2>1 DEF B
  <1>5. CASE j.pc \notin {"idle", "done"}
    <2>1. StepsLeft(j) = A + Here(j)
      BY <1>5 DEF StepsLeft
    <2>2. Here(j) \in 1..PerTable
      <3>1. CASE j.pc = "listing"
        BY <1>2, <3>1 DEF Here
      <3>2. CASE j.pc = "loading"
        <4>1. Here(j) = 3 * C + 1
          BY <3>2 DEF Here
        <4> QED BY <1>2, <1>3, <4>1
      <3>3. CASE j.pc = "dropped"
        <4>1. Here(j) = 3 * C /\ C # 0
          BY <1>3, <3>3 DEF Here
        <4> QED BY <1>2, <1>3, <4>1
      <3>4. CASE j.pc = "inserting"
        <4>1. Here(j) = 3 * C - 1 /\ C # 0
          BY <1>3, <3>4 DEF Here
        <4> QED BY <1>2, <1>3, <4>1
      <3> QED BY <1>1, <1>5, <3>1, <3>2, <3>3, <3>4
    <2> HIDE DEF A, B
    <2>3. StepsLeft(j) \in Nat /\ StepsLeft(j) <= B /\ StepsLeft(j) # 0
      BY <1>2, <2>1, <2>2
    <2> QED BY <1>5, <2>3 DEF B
  <1> QED BY <1>4, <1>5

\* A step of the refresh, or the failure that ends it.
LEMMA StepSpends ==
    ASSUME NEW p, Procs = {p}, Sound(p), OwnStep(p)
    PROVE  StepsLeft(job'[p]) < StepsLeft(job[p])
  <1> DEFINE A == (Len(LOADS) - job[p].next) * PerTable
             S == job[p].days
             C == Cardinality(S)
  <1>1. job[p] \in Refresh /\ job[p].next \in 1..Len(LOADS) /\ S \in SUBSET Days
    BY JobFields DEF Sound
  <1>2. A \in Nat /\ PerTable = 3 * LastDay + 2 /\ LastDay \in Nat
    BY <1>1, TablesLeft
  <1>3. C \in 0..LastDay /\ (S # {} => C # 0)
    BY <1>1, DaysAreFew
  <1>4. CASE ListDays(p)
    <2>0. TypeOK
      BY DEF Sound
    <2>1. /\ job[p].pc = "listing" /\ job'[p].pc = "loading" /\ job'[p].next = job[p].next
          /\ job'[p].days \in SUBSET Days
      BY <1>4, <2>0, ListDaysDoes DEF DaysToLoad, RawDays
    <2>2. StepsLeft(job[p]) = A + PerTable
      BY <2>1 DEF StepsLeft, Here
    <2>3. StepsLeft(job'[p]) = A + (3 * Cardinality(job'[p].days) + 1)
      BY <2>1 DEF StepsLeft, Here
    <2>4. Cardinality(job'[p].days) \in 0..LastDay
      BY <2>1, DaysAreFew
    <2> HIDE DEF A
    <2> QED BY <1>2, <2>2, <2>3, <2>4
  <1>5. CASE DropPartition(p)
    <2>0. TypeOK
      BY DEF Sound
    <2>1. /\ job[p].pc = "loading" /\ job'[p].pc = "dropped" /\ job'[p].next = job[p].next
          /\ job'[p].days = S
      BY <1>5, <2>0, DropPartitionDoes
    <2>2. StepsLeft(job[p]) = A + (3 * C + 1) /\ StepsLeft(job'[p]) = A + 3 * C
      BY <2>1 DEF StepsLeft, Here
    <2> HIDE DEF A, C
    <2> QED BY <1>2, <1>3, <2>2
  <1>6. CASE StartInsert(p)
    <2>1. S # {}
      BY <1>6 DEF StartInsert, Sound, Local
    <2>2. /\ job[p].pc = "dropped" /\ job'[p].pc = "inserting" /\ job'[p].next = job[p].next
          /\ job'[p].days = S
      BY <1>6, <2>1, StartInsertDoes DEF Sound
    <2>3. StepsLeft(job[p]) = A + 3 * C /\ StepsLeft(job'[p]) = A + (3 * C - 1)
      BY <2>2 DEF StepsLeft, Here
    <2> HIDE DEF A, C
    <2> QED BY <1>2, <1>3, <2>3
  <1>7. CASE \E i \in inserts : Awaited(i) /\ FinishInsert(i)
    <2>1. PICK i \in inserts : Awaited(i) /\ FinishInsert(i)
      BY <1>7
    <2>2. TypeOK /\ i.attempt = failures
      BY <2>1, AwaitedIs DEF Sound
    <2>3. /\ job[p].pc = "inserting" /\ i.day = NextDay(p) /\ S # {}
      BY <2>2 DEF Sound, Local, Inserting
    <2>4. /\ job'[p].pc = "loading" /\ job'[p].next = job[p].next
          /\ job'[p].days = S \ {i.day}
      BY <2>1, <2>2, FinishInsertDoes
    <2>5. i.day \in S
      BY <1>1, <2>3, MinOf, Constants DEF NextDay
    <2>6. Cardinality(S \ {i.day}) = C - 1
      BY <1>1, <2>5, DaysAreFew
    <2>7. /\ StepsLeft(job[p]) = A + (3 * C - 1)
          /\ StepsLeft(job'[p]) = A + (3 * (C - 1) + 1)
      BY <2>3, <2>4, <2>6 DEF StepsLeft, Here
    <2> HIDE DEF A, C
    <2> QED BY <1>2, <1>3, <2>7
  <1>8. CASE NextTable(p)
    <2>1. /\ job[p].pc = "loading"
          /\ \/ /\ job[p].next < Len(LOADS)
                /\ job'[p].pc = "listing" /\ job'[p].next = job[p].next + 1
             \/ job'[p].pc = "done"
      BY <1>8, NextTableDoes DEF Sound
    <2>2. StepsLeft(job[p]) = A + (3 * C + 1)
      BY <2>1 DEF StepsLeft, Here
    <2>3. CASE job'[p].pc = "done"
      <3>1. StepsLeft(job'[p]) = 0
        BY <2>3 DEF StepsLeft
      <3> HIDE DEF A, C
      <3> QED BY <1>2, <1>3, <2>2, <3>1
    <2>4. CASE job[p].next < Len(LOADS) /\ job'[p].pc = "listing" /\ job'[p].next = job[p].next + 1
      <3>1. StepsLeft(job'[p]) = (Len(LOADS) - (job[p].next + 1)) * PerTable + PerTable
        BY <2>4 DEF StepsLeft, Here
      <3>2. StepsLeft(job'[p]) = A
        BY <1>1, <2>4, <3>1, TablesLeft
      <3> HIDE DEF A, C
      <3> QED BY <1>2, <1>3, <2>2, <3>2
    <2> QED BY <2>1, <2>3, <2>4
  <1>9. CASE Fail(p)
    <2>1. job[p].pc \notin {"idle", "done"} /\ job'[p].pc = "idle"
      BY <1>9, FailDoes DEF Sound, Fail
    <2>2. StepsLeft(job'[p]) = 0
      BY <2>1 DEF StepsLeft
    <2>3. StepsLeft(job[p]) \in Nat /\ StepsLeft(job[p]) # 0
      BY <1>1, <2>1, StepsType DEF Sound, Local
    <2> QED BY <2>2, <2>3
  <1> QED BY <1>4, <1>5, <1>6, <1>7, <1>8, <1>9 DEF OwnStep

\* A refresh is over, or has a step less to go, after every step it takes: the days it
\* reloads are listed once for each table, and neither spans that arrive, late or not,
\* or expire nor an INSERT left behind add any to them (refresh, rollup.py).
THEOREM RefreshesAreBounded ==
    ASSUME NEW p, Procs = {p}
    PROVE  Spec => /\ [](StepsLeft(job[p]) \in 0..(Len(LOADS) * PerTable))
                   /\ [](StepsLeft(job[p]) = 0 <=> job[p].pc \in {"idle", "done"})
                   /\ RefreshAdvances(p)
  <1>1. Sound(p) => /\ StepsLeft(job[p]) \in 0..(Len(LOADS) * PerTable)
                    /\ StepsLeft(job[p]) \in Nat
                    /\ StepsLeft(job[p]) = 0 <=> job[p].pc \in {"idle", "done"}
    <2> SUFFICES ASSUME Sound(p)
                 PROVE  /\ StepsLeft(job[p]) \in 0..(Len(LOADS) * PerTable)
                        /\ StepsLeft(job[p]) \in Nat
                        /\ StepsLeft(job[p]) = 0 <=> job[p].pc \in {"idle", "done"}
      OBVIOUS
    <2>1. job[p] \in Refresh /\ (job[p].pc \in {"dropped", "inserting"} => job[p].days # {})
      BY JobFields DEF Sound, Local
    <2>2. Len(LOADS) \in Nat /\ PerTable \in Nat
      BY BoundsAssumption DEF PerTable
    <2>3. /\ StepsLeft(job[p]) \in Nat /\ StepsLeft(job[p]) <= Len(LOADS) * PerTable
          /\ StepsLeft(job[p]) = 0 <=> job[p].pc \in {"idle", "done"}
      BY <2>1, StepsType
    <2>4. Len(LOADS) * PerTable \in Nat
      BY <2>2
    <2> QED BY <2>3, <2>4
  <1>2. Sound(p) /\ Sound(p)' /\ [Next]_vars
          => [job[p].pc \notin {"idle", "done"} =>
                /\ StepsLeft(job'[p]) <= StepsLeft(job[p])
                /\ OwnStep(p) => StepsLeft(job'[p]) < StepsLeft(job[p])]_vars
    <2> SUFFICES ASSUME Sound(p), Sound(p)', Next, job[p].pc \notin {"idle", "done"}
                 PROVE  /\ StepsLeft(job'[p]) <= StepsLeft(job[p])
                        /\ OwnStep(p) => StepsLeft(job'[p]) < StepsLeft(job[p])
      OBVIOUS
    <2>1. StepsLeft(job[p]) \in Nat
      BY <1>1
    <2>2. StepsLeft(job'[p]) \in Nat
      <3>1. /\ job'[p] \in Refresh
            /\ job'[p].pc \in {"dropped", "inserting"} => job'[p].days # {}
        BY DEF Sound, Local, TypeOK
      <3> QED BY <3>1, StepsType
    <2>3. CASE OwnStep(p)
      BY <2>1, <2>2, <2>3, StepSpends
    <2>4. CASE ~OwnStep(p)
      <3>1. \A full \in Modes : ~Begin(p, full)
        BY DEF Begin
      <3>2. \A i \in inserts : FinishInsert(i) => job' = job
        BY <2>4 DEF OwnStep, FinishInsert
      <3>3. job' = job
        BY <2>4, <3>1, <3>2 DEF Next, Step, OwnStep, Arrive, Expire, NewDay
      <3> QED BY <2>1, <2>4, <3>3
    <2> QED BY <2>3, <2>4
  <1> QED BY <1>1, <1>2, Soundness, PTL DEF Spec, RefreshAdvances
=============================================================================
