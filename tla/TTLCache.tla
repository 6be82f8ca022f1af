------------------------------- MODULE TTLCache -------------------------------
(***************************************************************************)
(* TTLCache.get_or_load (api/cache.py) and the requests of api/app.py that *)
(* call it as tasks of one asyncio event loop.                             *)
(*                                                                         *)
(* Nothing is awaited while the lock is held and the loop runs one task at *)
(* a time, so acquiring the lock never suspends: what runs under it, up to *)
(* the next await, is one step. Tasks interleave at `await load()` and at  *)
(* `await asyncio.shield(waiter)`, and can be cancelled at both.           *)
(***************************************************************************)
EXTENDS Naturals, FiniteSets

CONSTANTS
    Callers,     \* requests; each asks once
    Keys,        \* cache_key(name, params) of the questions asked
    TTL,         \* ttl_seconds
    MaxEntries,  \* max_entries
    MaxLoad,     \* longest load: the max_execution_time of the warehouse client
    MaxTime,     \* bound on the clock
    None         \* Python's None

ASSUME BoundsAssumption ==
    /\ TTL \in Nat \ {0} /\ MaxEntries \in Nat \ {0}
    /\ MaxLoad \in Nat /\ MaxTime \in Nat

Time == 0..MaxTime

\* A MetricResult: the question it answers and when the warehouse was read.
Value == [key : Keys, read : Time]

ASSUME NoneAssumption == None \notin Keys /\ None \notin Callers /\ None \notin Value

Entry == [value : Value, expires_at : Nat]

\* A future is named after the caller that created it.
Future == [state : {"none", "pending", "result", "failed", "cancelled"},
           value : Value \cup {None}]

Task == [pc : {"new", "loading", "waiting", "answered", "failed", "cancelled"},
         key   : Keys \cup {None},
         on    : Callers \cup {None},     \* whose future it shares
         at    : Time,                    \* instant of its last step
         value : Value \cup {None},       \* what it returned
         hit   : BOOLEAN]                 \* ... and was_hit

VARIABLES
    now,       \* time.monotonic()
    entries,   \* _entries
    inflight,  \* _inflight
    future,
    task

vars == <<now, entries, inflight, future, task>>

TypeOK ==
    /\ now \in Time
    /\ entries \in [Keys -> Entry \cup {None}]
    /\ inflight \in [Keys -> Callers \cup {None}]
    /\ future \in [Callers -> Future]
    /\ task \in [Callers -> Task]

Init ==
    /\ now = 0
    /\ entries = [k \in Keys |-> None]
    /\ inflight = [k \in Keys |-> None]
    /\ future = [c \in Callers |-> [state |-> "none", value |-> None]]
    /\ task = [c \in Callers |-> [pc |-> "new", key |-> None, on |-> None, at |-> 0,
                                  value |-> None, hit |-> FALSE]]

-----------------------------------------------------------------------------
Stored == {k \in Keys : entries[k] # None}

\* Mutated: whatever is stored is served.
LiveForever(k) == entries[k] # None

Live(k) == entries[k] # None /\ entries[k].expires_at > now

Expiry == now + TTL

Become(c, pc, k, l) ==
    task' = [task EXCEPT ![c].pc = pc, ![c].key = k, ![c].on = l, ![c].at = now]

Return(c, k, v, hit) ==
    task' = [task EXCEPT ![c].pc = "answered", ![c].key = k, ![c].at = now,
                         ![c].value = v, ![c].hit = hit]

-----------------------------------------------------------------------------
(* The first block under the lock: a hit, somebody else's load, or a load. *)

Hit(c, k) ==
    /\ task[c].pc = "new"
    /\ Live(k)
    /\ Return(c, k, entries[k].value, TRUE)
    /\ UNCHANGED <<now, entries, inflight, future>>

Join(c, k) ==
    /\ task[c].pc = "new"
    /\ ~Live(k)
    /\ entries' = [entries EXCEPT ![k] = None]
    /\ inflight[k] # None
    /\ Become(c, "waiting", k, inflight[k])
    /\ UNCHANGED <<now, inflight, future>>

\* Mutated: every miss loads.
LeadAlways(c, k) ==
    /\ task[c].pc = "new"
    /\ ~Live(k)
    /\ entries' = [entries EXCEPT ![k] = None]
    /\ inflight' = [inflight EXCEPT ![k] = c]
    /\ future' = [future EXCEPT ![c] = [state |-> "pending", value |-> None]]
    /\ Become(c, "loading", k, c)
    /\ UNCHANGED now

Lead(c, k) ==
    /\ task[c].pc = "new"
    /\ ~Live(k)
    /\ entries' = [entries EXCEPT ![k] = None]
    /\ inflight[k] = None
    /\ inflight' = [inflight EXCEPT ![k] = c]
    /\ future' = [future EXCEPT ![c] = [state |-> "pending", value |-> None]]
    /\ Become(c, "loading", k, c)
    /\ UNCHANGED now

-----------------------------------------------------------------------------
(* The end of a load: store, leave _inflight, resolve the future popped.   *)

Oldest(k) == entries[k] # None /\ \A j \in Stored : entries[k].expires_at <= entries[j].expires_at

\* The entries left by an eviction; of equally old ones, any may go.
Evicted ==
    IF Cardinality(Stored) < MaxEntries THEN {entries}
    ELSE {[entries EXCEPT ![k] = None] : k \in {k \in Keys : Oldest(k)}}

Resolve(k, f) ==
    LET l == inflight[k]
    IN  future' = IF l # None /\ future[l].state = "pending"
                  THEN [future EXCEPT ![l] = f] ELSE future

Leave(k) == inflight' = [inflight EXCEPT ![k] = None]

LoadDone(c) ==
    LET k == task[c].key
    IN  /\ task[c].pc = "loading"
        /\ \E read \in task[c].at..now, kept \in Evicted :
              LET v == [key |-> k, read |-> read]
              IN  /\ entries' = [kept EXCEPT ![k] = [value |-> v, expires_at |-> Expiry]]
                  /\ Resolve(k, [state |-> "result", value |-> v])
                  /\ Return(c, k, v, FALSE)
        /\ Leave(k)
        /\ UNCHANGED now

\* Mutated: `except Exception`, which a CancelledError is not.
LoadRaisesExceptCancel(c, pc) ==
    LET k == task[c].key
    IN  /\ task[c].pc = "loading"
        /\ IF pc = "failed"
           THEN Resolve(k, [state |-> pc, value |-> None]) /\ Leave(k)
           ELSE UNCHANGED <<future, inflight>>
        /\ Become(c, pc, k, c)
        /\ UNCHANGED <<now, entries>>

\* `except BaseException`: the load raises (a 502), or the leader is cancelled.
LoadRaises(c, pc) ==
    LET k == task[c].key
    IN  /\ task[c].pc = "loading"
        /\ Resolve(k, [state |-> pc, value |-> None])
        /\ Leave(k)
        /\ Become(c, pc, k, c)
        /\ UNCHANGED <<now, entries>>

-----------------------------------------------------------------------------
(* A waiter is woken by the future it shares, or is cancelled by itself.   *)

Wake(c) ==
    LET f == future[task[c].on]
    IN  /\ task[c].pc = "waiting"
        /\ f.state # "pending"
        /\ IF f.state = "result"
           THEN Return(c, task[c].key, f.value, FALSE)
           ELSE Become(c, f.state, task[c].key, task[c].on)
        /\ UNCHANGED <<now, entries, inflight, future>>

\* Mutated: no shield, so the future is cancelled with the waiter.
CancelWaiterUnshielded(c) ==
    LET l == task[c].on
    IN  /\ task[c].pc = "waiting"
        /\ Become(c, "cancelled", task[c].key, l)
        /\ future' = IF future[l].state = "pending"
                     THEN [future EXCEPT ![l] = [state |-> "cancelled", value |-> None]]
                     ELSE future
        /\ UNCHANGED <<now, entries, inflight>>

\* asyncio.shield: only the waiter is cancelled.
CancelWaiter(c) ==
    /\ task[c].pc = "waiting"
    /\ Become(c, "cancelled", task[c].key, task[c].on)
    /\ UNCHANGED <<now, entries, inflight, future>>

\* The warehouse ends a query that has run for MaxLoad.
Tick ==
    /\ now < MaxTime
    /\ \A c \in Callers : task[c].pc = "loading" => now < task[c].at + MaxLoad
    /\ now' = now + 1
    /\ UNCHANGED <<entries, inflight, future, task>>

Finish(c) == LoadDone(c) \/ LoadRaises(c, "failed")

Next ==
    \/ Tick
    \/ \E c \in Callers :
          \/ \E k \in Keys : Hit(c, k) \/ Join(c, k) \/ Lead(c, k)
          \/ Finish(c) \/ LoadRaises(c, "cancelled")
          \/ Wake(c) \/ CancelWaiter(c)

Spec == Init /\ [][Next]_vars

\* The warehouse answers or gives up, and the loop runs what is ready.
FairSpec == Spec /\ \A c \in Callers : WF_vars(Finish(c)) /\ WF_vars(Wake(c))

-----------------------------------------------------------------------------
(* Properties.                                                             *)

\* At most one warehouse scan per key is running ("Without it, N concurrent
\* requests for a cold key issue N identical warehouse scans"), and never for a
\* key that is stored: so storing evicts nothing that it need not.
SingleFlight ==
    \A c \in Callers : task[c].pc = "loading" =>
        /\ entries[task[c].key] = None
        /\ \A d \in Callers : task[d].pc = "loading" /\ task[d].key = task[c].key => c = d

\* Whoever waits on an unresolved future has a leader that is still loading this
\* very key and will resolve it: no cancellation or failure strands a waiter.
NobodyIsStranded ==
    \A c \in Callers : task[c].pc = "waiting" =>
        LET l == task[c].on
        IN  future[l].state = "pending" =>
                task[l].pc = "loading" /\ task[l].key = task[c].key /\ inflight[task[c].key] = l

\* The cache never holds more than max_entries.
CacheIsBounded == Cardinality(Stored) <= MaxEntries

\* A hit is a value of the key asked for, read from the warehouse less than a TTL
\* and a load ago: expiry counts from the end of the load.
HitsAreFresh ==
    \A c \in Callers : task[c].pc = "answered" /\ task[c].hit =>
        task[c].value.key = task[c].key /\ task[c].at < task[c].value.read + TTL + MaxLoad

\* Every request that was not answered from the cache ends: with the value, the
\* error or the cancellation of the load it shares.
EveryCallerReturns ==
    \A c \in Callers : task[c].pc \in {"loading", "waiting"} ~>
                           task[c].pc \in {"answered", "failed", "cancelled"}

\* What the callers of get_or_load see of it.
seen == [c \in Callers |-> [pc |-> task[c].pc, key |-> task[c].key, on |-> task[c].on]]
loads == [c \in Callers |-> [state |-> future[c].state,
                             key   |-> IF future[c].state = "none" THEN None
                                       ELSE task[c].key,
                             value |-> future[c].value]]
answers == [c \in Callers |-> task[c].value]

Promise == INSTANCE SharedLoad WITH
    Values <- Value, caller <- seen, load <- loads, answer <- answers

\* The cache keeps the promises of SharedLoad.
SharesLoads == Promise!Spec
=============================================================================
