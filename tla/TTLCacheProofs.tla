---------------------------- MODULE TTLCacheProofs ----------------------------
(***************************************************************************)
(* Theorems about TTLCache, for any callers, keys and bounds: one load per *)
(* key, no stranded waiter, fresh hits, and the refinement of SharedLoad.  *)
(***************************************************************************)
EXTENDS TTLCache, TLAPS

\* A load, its entry in _inflight and its pending future come and go together, and
\* what it will store is not stored.
Loads ==
    \A c \in Callers : task[c].pc = "loading" =>
        /\ task[c].key \in Keys /\ task[c].on = c
        /\ inflight[task[c].key] = c /\ entries[task[c].key] = None
        /\ future[c].state = "pending"
InFlight ==
    \A k \in Keys : inflight[k] # None =>
        task[inflight[k]].pc = "loading" /\ task[inflight[k]].key = k
Futures ==
    \A c \in Callers :
        /\ future[c].state = "pending" => task[c].pc = "loading" /\ future[c].value = None
        /\ future[c].state = "result" => future[c].value \in Value

\* A waiter shares the future of a request that asked for the same key.
Waits ==
    \A c \in Callers : task[c].pc = "waiting" =>
        /\ task[c].key \in Keys /\ task[c].on \in Callers
        /\ future[task[c].on].state # "none"
        /\ task[task[c].on].key = task[c].key

Untouched ==
    \A c \in Callers : task[c].pc = "new" =>
        /\ future[c].state = "none"
        /\ task[c].key = None /\ task[c].on = None /\ task[c].value = None

\* What is stored is what some load returned for the key.
Stores ==
    \A k \in Keys : entries[k] # None =>
        \E m \in Callers : /\ future[m].state = "result" /\ task[m].key = k
                           /\ future[m].value = entries[k].value

\* Nothing outlives the clock's promises.
Lasts ==
    /\ \A c \in Callers : task[c].pc = "loading" =>
          task[c].at <= now /\ now <= task[c].at + MaxLoad
    /\ \A k \in Keys : entries[k] # None =>
          /\ entries[k].value.key = k
          /\ entries[k].expires_at <= entries[k].value.read + TTL + MaxLoad

Shared == Loads /\ InFlight /\ Futures /\ Waits /\ Untouched /\ Stores
IInv == TypeOK /\ Shared /\ Lasts /\ HitsAreFresh

-----------------------------------------------------------------------------
(* What an update of `task` does.                                          *)

Pcs == {"new", "loading", "waiting", "answered", "failed", "cancelled"}

LEMMA TaskFields ==
    ASSUME TypeOK, NEW c \in Callers
    PROVE  /\ task[c] \in Task
           /\ task[c].pc \in Pcs /\ task[c].key \in Keys \cup {None}
           /\ task[c].on \in Callers \cup {None} /\ task[c].at \in Nat /\ task[c].at \in Time
           /\ task[c].value \in Value \cup {None} /\ task[c].hit \in BOOLEAN
           /\ future[c] \in Future /\ now \in Nat /\ now \in Time
  <1>1. task[c] \in Task /\ future[c] \in Future /\ now \in Time
    BY DEF TypeOK
  <1>2. Time \subseteq Nat
    BY BoundsAssumption DEF Time
  <1> QED BY <1>1, <1>2 DEF Task, Pcs

LEMMA Became ==
    ASSUME TypeOK, NEW c \in Callers, NEW pc \in Pcs, NEW k \in Keys \cup {None},
           NEW l \in Callers \cup {None}, Become(c, pc, k, l)
    PROVE  /\ task' \in [Callers -> Task]
           /\ task'[c].pc = pc /\ task'[c].key = k /\ task'[c].on = l /\ task'[c].at = now
           /\ task'[c].value = task[c].value /\ task'[c].hit = task[c].hit
           /\ \A d \in Callers : d # c => task'[d] = task[d]
  <1> DEFINE t == [task[c] EXCEPT !.pc = pc, !.key = k, !.on = l, !.at = now]
  <1>1. /\ t \in Task /\ t.pc = pc /\ t.key = k /\ t.on = l /\ t.at = now
        /\ t.value = task[c].value /\ t.hit = task[c].hit
    BY TaskFields DEF Task, Pcs
  <1>2. task' = [task EXCEPT ![c] = t]
    BY DEF Become, TypeOK
  <1> HIDE DEF t
  <1> QED BY <1>1, <1>2 DEF TypeOK

LEMMA Returned ==
    ASSUME TypeOK, NEW c \in Callers, NEW k \in Keys, NEW v \in Value, NEW hit \in BOOLEAN,
           Return(c, k, v, hit)
    PROVE  /\ task' \in [Callers -> Task]
           /\ task'[c].pc = "answered" /\ task'[c].key = k /\ task'[c].at = now
           /\ task'[c].value = v /\ task'[c].hit = hit /\ task'[c].on = task[c].on
           /\ \A d \in Callers : d # c => task'[d] = task[d]
  <1> DEFINE t == [task[c] EXCEPT !.pc = "answered", !.key = k, !.at = now, !.value = v,
                                  !.hit = hit]
  <1>1. /\ t \in Task /\ t.pc = "answered" /\ t.key = k /\ t.at = now
        /\ t.value = v /\ t.hit = hit /\ t.on = task[c].on
    BY TaskFields DEF Task, Pcs
  <1>2. task' = [task EXCEPT ![c] = t]
    BY DEF Return, TypeOK
  <1> HIDE DEF t
  <1> QED BY <1>1, <1>2 DEF TypeOK

\* The future that the end of a load resolves is the one of its leader.
LEMMA Resolved ==
    ASSUME TypeOK, Shared, NEW c \in Callers, task[c].pc = "loading",
           NEW f, Resolve(task[c].key, f)
    PROVE  future' = [future EXCEPT ![c] = f]
  BY ZenonT(30), NoneAssumption DEF Shared, Loads, Resolve

-----------------------------------------------------------------------------
(* Every action preserves the invariant.                                   *)

\* A request that is over, without touching what the others share.
LEMMA Over ==
    ASSUME TypeOK, Shared, Lasts, NEW c \in Callers,
           task[c].pc \in {"new", "waiting"},
           task' \in [Callers -> Task], task'[c].pc \in {"answered", "failed", "cancelled"},
           task[c].pc = "waiting" => task'[c].key = task[c].key,
           \A d \in Callers : d # c => task'[d] = task[d],
           UNCHANGED <<now, entries, inflight, future>>
    PROVE  TypeOK' /\ Shared' /\ Lasts'
  <1>1. TypeOK'
    BY DEF TypeOK
  <1>2. Loads' /\ Futures' /\ Untouched'
    BY DEF Shared, Loads, Futures, Untouched
  <1>3. InFlight'
    <2> SUFFICES ASSUME NEW k \in Keys, inflight[k] # None
                 PROVE  task'[inflight[k]].pc = "loading" /\ task'[inflight[k]].key = k
      BY DEF InFlight
    <2>1. inflight[k] \in Callers
      BY DEF TypeOK
    <2> QED BY <2>1 DEF Shared, InFlight
  <1>4. Waits'
    BY DEF Shared, Waits, Untouched
  <1>5. Stores'
    <2> SUFFICES ASSUME NEW k \in Keys, entries[k] # None
                 PROVE  \E m \in Callers : /\ future[m].state = "result" /\ task'[m].key = k
                                           /\ future[m].value = entries[k].value
      BY DEF Stores
    <2>1. PICK m \in Callers : /\ future[m].state = "result" /\ task[m].key = k
                               /\ future[m].value = entries[k].value
      BY DEF Shared, Stores
    <2>2. task'[m].key = task[m].key
      BY <2>1 DEF Shared, Untouched
    <2> QED BY <2>1, <2>2
  <1>6. Lasts'
    BY DEF Lasts
  <1> QED BY <1>1, <1>2, <1>3, <1>4, <1>5, <1>6 DEF Shared

LEMMA HitStep ==
    ASSUME IInv, NEW c \in Callers, NEW k \in Keys, Hit(c, k)
    PROVE  IInv'
  <1>1. TypeOK /\ task[c].pc = "new" /\ UNCHANGED <<now, entries, inflight, future>>
    BY DEF IInv, Hit
  <1>2. entries[k] \in Entry /\ entries[k] # None /\ now < entries[k].expires_at
    BY <1>1 DEF Hit, Live, TypeOK, Entry
  <1>3. entries[k].value \in Value
    BY <1>2 DEF Entry
  <1>4. /\ task' \in [Callers -> Task]
        /\ task'[c].pc = "answered" /\ task'[c].key = k /\ task'[c].at = now
        /\ task'[c].value = entries[k].value
        /\ \A d \in Callers : d # c => task'[d] = task[d]
    BY <1>1, <1>3, Returned DEF Hit
  <1>5. TypeOK' /\ Shared' /\ Lasts'
    BY <1>1, <1>4, Over DEF IInv
  <1>6. HitsAreFresh'
    <2>1. /\ entries[k].value.key = k
          /\ entries[k].expires_at <= entries[k].value.read + TTL + MaxLoad
      BY <1>2 DEF IInv, Lasts
    <2>2. entries[k].expires_at \in Nat /\ entries[k].value.read \in Nat /\ now \in Nat
      BY <1>1, <1>2, <1>3, TaskFields, BoundsAssumption DEF Entry, Value, Time
    <2>3. TTL \in Nat /\ MaxLoad \in Nat
      BY BoundsAssumption
    <2>4. now < entries[k].value.read + TTL + MaxLoad
      BY <1>2, <2>1, <2>2, <2>3
    <2> QED BY <1>4, <2>1, <2>4 DEF IInv, HitsAreFresh
  <1> QED BY <1>5, <1>6 DEF IInv

LEMMA WakeStep ==
    ASSUME IInv, NEW c \in Callers, Wake(c)
    PROVE  IInv'
  <1> DEFINE f == future[task[c].on]
  <1>1. /\ TypeOK /\ task[c].pc = "waiting" /\ UNCHANGED <<now, entries, inflight, future>>
        /\ task[c].on \in Callers /\ task[c].key \in Keys /\ f.state \notin {"pending", "none"}
    BY DEF IInv, Wake, Shared, Waits
  <1>2. f \in Future
    BY <1>1 DEF TypeOK
  <1>3. CASE f.state = "result"
    <2>1. Return(c, task[c].key, f.value, FALSE)
      BY <1>3 DEF Wake
    <2>2. f.value \in Value
      BY <1>1, <1>3 DEF IInv, Shared, Futures
    <2>3. /\ task' \in [Callers -> Task]
          /\ task'[c].pc = "answered" /\ task'[c].key = task[c].key /\ task'[c].hit = FALSE
          /\ \A d \in Callers : d # c => task'[d] = task[d]
      BY ZenonT(30), <1>1, <2>1, <2>2, Returned
    <2>4. TypeOK' /\ Shared' /\ Lasts'
      BY <1>1, <2>3, Over DEF IInv
    <2>5. HitsAreFresh'
      BY <2>3 DEF IInv, HitsAreFresh
    <2> QED BY <2>4, <2>5 DEF IInv
  <1>4. CASE f.state \in {"failed", "cancelled"}
    <2>1. Become(c, f.state, task[c].key, task[c].on)
      BY <1>4 DEF Wake
    <2>2. /\ task' \in [Callers -> Task]
          /\ task'[c].pc = f.state /\ task'[c].key = task[c].key
          /\ task'[c].value = task[c].value /\ task'[c].hit = task[c].hit
          /\ \A d \in Callers : d # c => task'[d] = task[d]
      BY <1>1, <1>4, <2>1, Became DEF Pcs
    <2>3. TypeOK' /\ Shared' /\ Lasts'
      BY <1>1, <1>4, <2>2, Over DEF IInv
    <2>4. HitsAreFresh'
      BY <1>4, <2>2 DEF IInv, HitsAreFresh
    <2> QED BY <2>3, <2>4 DEF IInv
  <1> QED BY <1>1, <1>2, <1>3, <1>4 DEF Future

LEMMA CancelWaiterStep ==
    ASSUME IInv, NEW c \in Callers, CancelWaiter(c)
    PROVE  IInv'
  <1>1. /\ TypeOK /\ task[c].pc = "waiting" /\ UNCHANGED <<now, entries, inflight, future>>
        /\ task[c].on \in Callers /\ task[c].key \in Keys
        /\ Become(c, "cancelled", task[c].key, task[c].on)
    BY DEF IInv, CancelWaiter, Shared, Waits
  <1>2. /\ task' \in [Callers -> Task]
        /\ task'[c].pc = "cancelled" /\ task'[c].key = task[c].key
        /\ \A d \in Callers : d # c => task'[d] = task[d]
    BY <1>1, Became DEF Pcs
  <1>3. TypeOK' /\ Shared' /\ Lasts'
    BY <1>1, <1>2, Over DEF IInv
  <1>4. HitsAreFresh'
    BY <1>2 DEF IInv, HitsAreFresh
  <1> QED BY <1>3, <1>4 DEF IInv

\* An expired entry is dropped by whoever finds it.
LEMMA Dropped ==
    ASSUME TypeOK, NEW k \in Keys, entries' = [entries EXCEPT ![k] = None]
    PROVE  /\ entries' \in [Keys -> Entry \cup {None}]
           /\ \A j \in Keys : entries'[j] \in {entries[j], None}
  BY DEF TypeOK

LEMMA JoinStep ==
    ASSUME IInv, NEW c \in Callers, NEW k \in Keys, Join(c, k)
    PROVE  IInv'
  <1> DEFINE l == inflight[k]
  <1>1. /\ TypeOK /\ task[c].pc = "new" /\ UNCHANGED <<now, inflight, future>>
        /\ l \in Callers /\ entries' = [entries EXCEPT ![k] = None]
        /\ Become(c, "waiting", k, l)
    BY DEF IInv, Join, TypeOK
  <1>2. /\ task' \in [Callers -> Task]
        /\ task'[c].pc = "waiting" /\ task'[c].key = k /\ task'[c].on = l
        /\ \A d \in Callers : d # c => task'[d] = task[d]
    BY <1>1, Became DEF Pcs
  <1>3. /\ entries' \in [Keys -> Entry \cup {None}]
        /\ \A j \in Keys : entries'[j] \in {entries[j], None}
    BY <1>1, Dropped
  <1>4. task[l].pc = "loading" /\ task[l].key = k /\ l # c
    BY <1>1, NoneAssumption DEF IInv, Shared, InFlight
  <1>5. TypeOK'
    BY <1>1, <1>2, <1>3 DEF TypeOK
  <1>6. Loads' /\ Futures' /\ Untouched'
    BY <1>1, <1>2, <1>3 DEF IInv, Shared, Loads, Futures, Untouched
  <1>7. InFlight'
    <2> SUFFICES ASSUME NEW j \in Keys, inflight[j] # None
                 PROVE  task'[inflight[j]].pc = "loading" /\ task'[inflight[j]].key = j
      BY <1>1 DEF InFlight
    <2>1. inflight[j] \in Callers
      BY <1>1 DEF TypeOK
    <2> QED BY <1>1, <1>2, <2>1 DEF IInv, Shared, InFlight
  <1>8. Waits'
    <2> SUFFICES ASSUME NEW d \in Callers, task'[d].pc = "waiting"
                 PROVE  /\ task'[d].key \in Keys /\ task'[d].on \in Callers
                        /\ future[task'[d].on].state # "none"
                        /\ task'[task'[d].on].key = task'[d].key
      BY <1>1 DEF Waits
    <2>1. CASE d = c
      BY <1>1, <1>2, <1>4, <2>1 DEF IInv, Shared, Loads
    <2>2. CASE d # c
      BY <1>1, <1>2, <2>2 DEF IInv, Shared, Waits, Untouched
    <2> QED BY <2>1, <2>2
  <1>9. Stores'
    <2> SUFFICES ASSUME NEW j \in Keys, entries'[j] # None
                 PROVE  \E m \in Callers : /\ future[m].state = "result" /\ task'[m].key = j
                                           /\ future[m].value = entries'[j].value
      BY <1>1 DEF Stores
    <2>1. entries'[j] = entries[j]
      BY <1>3
    <2>2. PICK m \in Callers : /\ future[m].state = "result" /\ task[m].key = j
                               /\ future[m].value = entries[j].value
      BY <2>1 DEF IInv, Shared, Stores
    <2>3. m # c
      BY <1>1, <2>2 DEF IInv, Shared, Untouched
    <2> QED BY <1>2, <2>1, <2>2, <2>3
  <1>10. Lasts'
    BY <1>1, <1>2, <1>3 DEF IInv, Lasts
  <1>11. HitsAreFresh'
    BY <1>2 DEF IInv, HitsAreFresh
  <1> QED BY <1>5, <1>6, <1>7, <1>8, <1>9, <1>10, <1>11 DEF IInv, Shared

LEMMA LeadStep ==
    ASSUME IInv, NEW c \in Callers, NEW k \in Keys, Lead(c, k)
    PROVE  IInv'
  <1> DEFINE f == [state |-> "pending", value |-> None]
  <1>1. /\ TypeOK /\ task[c].pc = "new" /\ now' = now /\ inflight[k] = None
        /\ entries' = [entries EXCEPT ![k] = None]
        /\ inflight' = [inflight EXCEPT ![k] = c]
        /\ future' = [future EXCEPT ![c] = f]
        /\ Become(c, "loading", k, c)
    BY DEF IInv, Lead
  <1>2. /\ task' \in [Callers -> Task]
        /\ task'[c].pc = "loading" /\ task'[c].key = k /\ task'[c].on = c /\ task'[c].at = now
        /\ \A d \in Callers : d # c => task'[d] = task[d]
    BY <1>1, Became DEF Pcs
  <1>3. /\ entries' \in [Keys -> Entry \cup {None}] /\ entries'[k] = None
        /\ \A j \in Keys : entries'[j] \in {entries[j], None}
    BY <1>1, Dropped DEF TypeOK
  <1>4. f \in Future
    BY DEF Future
  <1>5. /\ inflight' \in [Keys -> Callers \cup {None}] /\ inflight'[k] = c
        /\ \A j \in Keys : j # k => inflight'[j] = inflight[j]
        /\ future' \in [Callers -> Future]
        /\ future'[c].state = "pending" /\ future'[c].value = None
        /\ \A d \in Callers : d # c => future'[d] = future[d]
    BY <1>1, <1>4 DEF TypeOK
  <1>6. TypeOK'
    BY <1>1, <1>2, <1>3, <1>5 DEF TypeOK
  <1>7. Loads'
    <2> SUFFICES ASSUME NEW d \in Callers, task'[d].pc = "loading"
                 PROVE  /\ task'[d].key \in Keys /\ task'[d].on = d
                        /\ inflight'[task'[d].key] = d /\ entries'[task'[d].key] = None
                        /\ future'[d].state = "pending"
      BY DEF Loads
    <2>1. CASE d = c
      BY <1>2, <1>3, <1>5, <2>1
    <2>2. CASE d # c
      <3>1. /\ task[d].key \in Keys /\ task[d].on = d /\ inflight[task[d].key] = d
            /\ entries[task[d].key] = None /\ future[d].state = "pending"
        BY <1>2, <2>2 DEF IInv, Shared, Loads
      <3>2. task[d].key # k
        BY <1>1, <3>1, NoneAssumption
      <3> QED BY <1>2, <1>3, <1>5, <2>2, <3>1, <3>2
    <2> QED BY <2>1, <2>2
  <1>8. InFlight'
    <2> SUFFICES ASSUME NEW j \in Keys, inflight'[j] # None
                 PROVE  task'[inflight'[j]].pc = "loading" /\ task'[inflight'[j]].key = j
      BY DEF InFlight
    <2>1. CASE j = k
      BY <1>2, <1>5, <2>1
    <2>2. CASE j # k
      <3>1. inflight'[j] = inflight[j] /\ inflight[j] \in Callers
        BY <1>1, <1>5, <2>2 DEF TypeOK
      <3>2. task[inflight[j]].pc = "loading" /\ task[inflight[j]].key = j
        BY <3>1 DEF IInv, Shared, InFlight
      <3> QED BY <1>1, <1>2, <3>1, <3>2
    <2> QED BY <2>1, <2>2
  <1>9. Futures' /\ Untouched'
    BY <1>2, <1>5 DEF IInv, Shared, Futures, Untouched
  <1>10. Waits'
    <2> SUFFICES ASSUME NEW d \in Callers, task'[d].pc = "waiting"
                 PROVE  /\ task'[d].key \in Keys /\ task'[d].on \in Callers
                        /\ future'[task'[d].on].state # "none"
                        /\ task'[task'[d].on].key = task'[d].key
      BY DEF Waits
    <2>1. task'[d] = task[d] /\ task[d].pc = "waiting"
      BY <1>2
    <2>2. /\ task[d].key \in Keys /\ task[d].on \in Callers
          /\ future[task[d].on].state # "none"
          /\ task[task[d].on].key = task[d].key
      BY <2>1 DEF IInv, Shared, Waits
    <2>3. task[d].on # c
      BY <1>1, <2>2 DEF IInv, Shared, Untouched
    <2> QED BY <1>2, <1>5, <2>1, <2>2, <2>3
  <1>11. Stores'
    <2> SUFFICES ASSUME NEW j \in Keys, entries'[j] # None
                 PROVE  \E m \in Callers : /\ future'[m].state = "result" /\ task'[m].key = j
                                           /\ future'[m].value = entries'[j].value
      BY DEF Stores
    <2>1. entries'[j] = entries[j]
      BY <1>3
    <2>2. PICK m \in Callers : /\ future[m].state = "result" /\ task[m].key = j
                               /\ future[m].value = entries[j].value
      BY <2>1 DEF IInv, Shared, Stores
    <2>3. m # c
      BY <1>1, <2>2 DEF IInv, Shared, Untouched
    <2> QED BY <1>2, <1>5, <2>1, <2>2, <2>3
  <1>12. Lasts'
    <2>1. now <= now + MaxLoad
      BY <1>1, TaskFields, BoundsAssumption
    <2> QED BY <1>1, <1>2, <1>3, <2>1, TaskFields DEF IInv, Lasts
  <1>13. HitsAreFresh'
    BY <1>2 DEF IInv, HitsAreFresh
  <1> QED BY <1>6, <1>7, <1>8, <1>9, <1>10, <1>11, <1>12, <1>13 DEF IInv, Shared

\* The end of a load: its future is resolved and it leaves _inflight; the entries of
\* other keys can only go, and what it stores, if anything, is what it resolves to.
LEMMA Ended ==
    ASSUME TypeOK, Shared, Lasts, NEW c \in Callers, task[c].pc = "loading",
           task' \in [Callers -> Task], task'[c].pc \in {"answered", "failed", "cancelled"},
           task'[c].key = task[c].key, \A d \in Callers : d # c => task'[d] = task[d],
           NEW f \in Future, f.state \notin {"none", "pending"},
           f.state = "result" => f.value \in Value,
           Resolve(task[c].key, f), Leave(task[c].key), now' = now,
           entries' \in [Keys -> Entry \cup {None}],
           \A j \in Keys : j # task[c].key => entries'[j] \in {entries[j], None},
           entries'[task[c].key] # None =>
               /\ f.state = "result" /\ f.value = entries'[task[c].key].value
               /\ f.value.key = task[c].key
               /\ entries'[task[c].key].expires_at <= f.value.read + TTL + MaxLoad
    PROVE  TypeOK' /\ Shared' /\ Lasts'
  <1> DEFINE k == task[c].key
  <1>1. k \in Keys /\ inflight[k] = c
    BY DEF Shared, Loads
  <1>2. /\ future' \in [Callers -> Future] /\ future'[c] = f
        /\ \A d \in Callers : d # c => future'[d] = future[d]
    <2>1. future' = [future EXCEPT ![c] = f]
      BY Resolved
    <2> QED BY <2>1 DEF TypeOK
  <1>3. /\ inflight' \in [Keys -> Callers \cup {None}] /\ inflight'[k] = None
        /\ \A j \in Keys : j # k => inflight'[j] = inflight[j]
    BY <1>1 DEF Leave, TypeOK
  <1>4. TypeOK'
    BY <1>2, <1>3 DEF TypeOK
  <1>5. Loads'
    <2> SUFFICES ASSUME NEW d \in Callers, task'[d].pc = "loading"
                 PROVE  /\ task'[d].key \in Keys /\ task'[d].on = d
                        /\ inflight'[task'[d].key] = d /\ entries'[task'[d].key] = None
                        /\ future'[d].state = "pending"
      BY DEF Loads
    <2>1. d # c /\ task'[d] = task[d] /\ task[d].pc = "loading"
      OBVIOUS
    <2>2. /\ task[d].key \in Keys /\ task[d].on = d /\ inflight[task[d].key] = d
          /\ entries[task[d].key] = None /\ future[d].state = "pending"
      BY <2>1 DEF Shared, Loads
    <2>3. task[d].key # k
      BY <1>1, <2>1, <2>2
    <2> QED BY <1>2, <1>3, <2>1, <2>2, <2>3
  <1>6. InFlight'
    <2> SUFFICES ASSUME NEW j \in Keys, inflight'[j] # None
                 PROVE  task'[inflight'[j]].pc = "loading" /\ task'[inflight'[j]].key = j
      BY DEF InFlight
    <2>1. j # k /\ inflight'[j] = inflight[j] /\ inflight[j] \in Callers
      BY <1>3 DEF TypeOK
    <2>2. task[inflight[j]].pc = "loading" /\ task[inflight[j]].key = j
      BY <2>1 DEF Shared, InFlight
    <2> QED BY <2>1, <2>2
  <1>7. Futures' /\ Untouched'
    BY <1>2 DEF Shared, Futures, Untouched
  <1>8. Waits'
    <2> SUFFICES ASSUME NEW d \in Callers, task'[d].pc = "waiting"
                 PROVE  /\ task'[d].key \in Keys /\ task'[d].on \in Callers
                        /\ future'[task'[d].on].state # "none"
                        /\ task'[task'[d].on].key = task'[d].key
      BY DEF Waits
    <2>1. task'[d] = task[d] /\ task[d].pc = "waiting"
      OBVIOUS
    <2>2. /\ task[d].key \in Keys /\ task[d].on \in Callers
          /\ future[task[d].on].state # "none"
          /\ task[task[d].on].key = task[d].key
      BY <2>1 DEF Shared, Waits
    <2> QED BY <1>2, <2>1, <2>2
  <1>9. Stores'
    <2> SUFFICES ASSUME NEW j \in Keys, entries'[j] # None
                 PROVE  \E m \in Callers : /\ future'[m].state = "result" /\ task'[m].key = j
                                           /\ future'[m].value = entries'[j].value
      BY DEF Stores
    <2>1. CASE j = k
      BY <1>2, <2>1
    <2>2. CASE j # k
      <3>1. entries'[j] = entries[j]
        BY <2>2
      <3>2. PICK m \in Callers : /\ future[m].state = "result" /\ task[m].key = j
                                 /\ future[m].value = entries[j].value
        BY <3>1 DEF Shared, Stores
      <3>3. m # c
        BY <3>2 DEF Shared, Loads
      <3> QED BY <1>2, <3>1, <3>2, <3>3
    <2> QED BY <2>1, <2>2
  <1>10. Lasts'
    <2>1. \A d \in Callers : task'[d].pc = "loading" =>
             task'[d].at <= now /\ now <= task'[d].at + MaxLoad
      BY DEF Lasts
    <2>2. \A j \in Keys : entries'[j] # None =>
             /\ entries'[j].value.key = j
             /\ entries'[j].expires_at <= entries'[j].value.read + TTL + MaxLoad
      BY <1>1 DEF Lasts
    <2> QED BY <2>1, <2>2 DEF Lasts
  <1> QED BY <1>4, <1>5, <1>6, <1>7, <1>8, <1>9, <1>10 DEF Shared

LEMMA LoadDoneStep ==
    ASSUME IInv, NEW c \in Callers, LoadDone(c)
    PROVE  IInv'
  <1> DEFINE k == task[c].key
  <1>1. TypeOK /\ Shared /\ Lasts /\ task[c].pc = "loading" /\ Leave(k) /\ now' = now
    BY DEF IInv, LoadDone
  <1>2. k \in Keys
    BY <1>1 DEF Shared, Loads
  <1> DEFINE v(read) == [key |-> k, read |-> read]
             f(read) == [state |-> "result", value |-> v(read)]
             e(read) == [value |-> v(read), expires_at |-> Expiry]
  <1>3. PICK read \in task[c].at..now, kept \in Evicted :
             /\ entries' = [kept EXCEPT ![k] = e(read)]
             /\ Resolve(k, f(read))
             /\ Return(c, k, v(read), FALSE)
    BY DEF LoadDone
  <1>4. v(read) \in Value /\ read \in Nat
    BY <1>1, <1>2, TaskFields, BoundsAssumption DEF Value, Time
  <1>5. f(read) \in Future /\ f(read).state = "result" /\ f(read).value = v(read)
    BY <1>4 DEF Future
  <1>6. /\ task' \in [Callers -> Task]
        /\ task'[c].pc = "answered" /\ task'[c].key = k /\ task'[c].hit = FALSE
        /\ \A d \in Callers : d # c => task'[d] = task[d]
    BY ZenonT(30), <1>1, <1>2, <1>3, <1>4, Returned
  <1>7. /\ e(read) \in Entry /\ e(read).value = v(read)
        /\ e(read).expires_at <= read + TTL + MaxLoad
    <2>1. now \in Nat /\ task[c].at \in Nat /\ TTL \in Nat /\ MaxLoad \in Nat
      BY <1>1, TaskFields, BoundsAssumption
    <2>2. task[c].at <= read /\ now <= task[c].at + MaxLoad
      BY <1>1, <2>1 DEF Lasts
    <2>3. now + TTL \in Nat /\ now + TTL <= read + TTL + MaxLoad
      BY <1>4, <2>1, <2>2
    <2> QED BY <1>4, <2>3 DEF Entry, Expiry
  <1>8. kept \in [Keys -> Entry \cup {None}] /\ \A j \in Keys : kept[j] \in {entries[j], None}
    BY <1>1 DEF Evicted, TypeOK
  <1> HIDE DEF v, f, e
  <1>9. /\ entries' \in [Keys -> Entry \cup {None}] /\ entries'[k] = e(read)
        /\ \A j \in Keys : j # k => entries'[j] \in {entries[j], None}
    BY <1>2, <1>3, <1>7, <1>8
  <1>10. v(read).key = k /\ v(read).read = read
    BY DEF v
  <1>11. TypeOK' /\ Shared' /\ Lasts'
    <2> DEFINE g == f(read)
    <2>1. g \in Future /\ g.state = "result" /\ g.value = v(read) /\ Resolve(k, g)
      BY <1>3, <1>5
    <2>2. entries'[k] # None =>
               /\ g.state = "result" /\ g.value = entries'[k].value
               /\ g.value.key = k
               /\ entries'[k].expires_at <= g.value.read + TTL + MaxLoad
      BY <1>7, <1>9, <1>10, <2>1
    <2> HIDE DEF g
    <2> QED BY <1>1, <1>4, <1>6, <1>9, <2>1, <2>2, Ended
  <1>12. HitsAreFresh'
    BY <1>6 DEF IInv, HitsAreFresh
  <1> QED BY <1>11, <1>12 DEF IInv

LEMMA LoadRaisesStep ==
    ASSUME IInv, NEW c \in Callers, NEW pc \in {"failed", "cancelled"}, LoadRaises(c, pc)
    PROVE  IInv'
  <1> DEFINE k == task[c].key
             f == [state |-> pc, value |-> None]
  <1>1. /\ TypeOK /\ Shared /\ Lasts /\ task[c].pc = "loading"
        /\ Resolve(k, f) /\ Leave(k) /\ Become(c, pc, k, c) /\ UNCHANGED <<now, entries>>
    BY DEF IInv, LoadRaises
  <1>2. k \in Keys /\ entries[k] = None
    BY <1>1 DEF Shared, Loads
  <1>3. /\ task' \in [Callers -> Task] /\ task'[c].pc = pc /\ task'[c].key = k
        /\ \A d \in Callers : d # c => task'[d] = task[d]
    BY <1>1, <1>2, Became DEF Pcs
  <1>4. f \in Future /\ f.state = pc
    BY DEF Future
  <1> HIDE DEF f
  <1>5. TypeOK' /\ Shared' /\ Lasts'
    BY <1>1, <1>2, <1>3, <1>4, Ended DEF TypeOK
  <1>6. HitsAreFresh'
    BY <1>3 DEF IInv, HitsAreFresh
  <1> QED BY <1>5, <1>6 DEF IInv

LEMMA TickStep ==
    ASSUME IInv, Tick
    PROVE  IInv'
  <1>1. /\ TypeOK /\ UNCHANGED <<entries, inflight, future, task>>
        /\ now < MaxTime /\ now' = now + 1
    BY DEF IInv, Tick
  <1>2. TypeOK'
    BY <1>1, BoundsAssumption DEF TypeOK, Time
  <1>3. Shared' /\ HitsAreFresh'
    BY <1>1 DEF IInv, Shared, Loads, InFlight, Futures, Waits, Untouched, Stores, HitsAreFresh
  <1>4. Lasts'
    <2>1. \A c \in Callers : task[c].pc = "loading" =>
             task[c].at <= now + 1 /\ now + 1 <= task[c].at + MaxLoad
      <3> SUFFICES ASSUME NEW c \in Callers, task[c].pc = "loading"
                   PROVE  task[c].at <= now + 1 /\ now + 1 <= task[c].at + MaxLoad
        OBVIOUS
      <3>1. task[c].at <= now /\ now < task[c].at + MaxLoad
        BY DEF IInv, Lasts, Tick
      <3>2. now \in Nat /\ task[c].at \in Nat /\ MaxLoad \in Nat
        BY <1>1, TaskFields, BoundsAssumption
      <3> QED BY <3>1, <3>2
    <2> QED BY <1>1, <2>1 DEF IInv, Lasts
  <1> QED BY <1>2, <1>3, <1>4 DEF IInv

THEOREM Invariance == Spec => []IInv
  <1>1. Init => IInv
    <2> SUFFICES ASSUME Init PROVE IInv
      OBVIOUS
    <2>1. 0 \in Time
      BY BoundsAssumption DEF Time
    <2>2. TypeOK
      <3>1. [state |-> "none", value |-> None] \in Future
        BY DEF Future
      <3>2. [pc |-> "new", key |-> None, on |-> None, at |-> 0, value |-> None,
             hit |-> FALSE] \in Task
        BY <2>1 DEF Task
      <3> QED BY <2>1, <3>1, <3>2 DEF Init, TypeOK
    <2>3. Shared
      BY DEF Init, Shared, Loads, InFlight, Futures, Waits, Untouched, Stores
    <2>4. Lasts /\ HitsAreFresh
      BY DEF Init, Lasts, HitsAreFresh
    <2> QED BY <2>2, <2>3, <2>4 DEF IInv
  <1>2. IInv /\ [Next]_vars => IInv'
    <2> SUFFICES ASSUME IInv, [Next]_vars PROVE IInv'
      OBVIOUS
    <2>1. CASE Tick
      BY <2>1, TickStep
    <2>2. CASE \E c \in Callers, k \in Keys : Hit(c, k) \/ Join(c, k) \/ Lead(c, k)
      BY <2>2, HitStep, JoinStep, LeadStep
    <2>3. CASE \E c \in Callers : LoadDone(c)
      BY <2>3, LoadDoneStep
    <2>4. CASE \E c \in Callers, pc \in {"failed", "cancelled"} : LoadRaises(c, pc)
      BY <2>4, LoadRaisesStep
    <2>5. CASE \E c \in Callers : Wake(c) \/ CancelWaiter(c)
      BY <2>5, WakeStep, CancelWaiterStep
    <2>6. CASE UNCHANGED vars
      BY <2>6 DEF vars, IInv, TypeOK, Shared, Loads, InFlight, Futures, Waits, Untouched,
                  Stores, Lasts, HitsAreFresh
    <2> QED BY <2>1, <2>2, <2>3, <2>4, <2>5, <2>6 DEF Next, Finish
  <1> QED BY <1>1, <1>2, PTL DEF Spec

\* Every entry, future and task of get_or_load is well formed.
THEOREM TypeCorrect == Spec => []TypeOK
  BY Invariance, PTL DEF IInv

\* Whatever the schedule, the failures and the cancellations, one warehouse scan
\* per key runs at a time, and none for a key that is stored.
THEOREM OneScanPerKey == Spec => []SingleFlight
  <1>1. IInv => SingleFlight
    BY DEF IInv, Shared, Loads, SingleFlight
  <1> QED BY <1>1, Invariance, PTL

\* A request that waits on an unresolved future waits on a load that is running.
THEOREM WaitersHaveALeader == Spec => []NobodyIsStranded
  <1>1. IInv => NobodyIsStranded
    <2> SUFFICES ASSUME IInv, NEW c \in Callers, task[c].pc = "waiting",
                        future[task[c].on].state = "pending"
                 PROVE  /\ task[task[c].on].pc = "loading"
                        /\ task[task[c].on].key = task[c].key
                        /\ inflight[task[c].key] = task[c].on
      BY DEF NobodyIsStranded
    <2> DEFINE l == task[c].on
    <2>1. l \in Callers /\ task[l].key = task[c].key
      BY DEF IInv, Shared, Waits
    <2>2. task[l].pc = "loading"
      BY <2>1 DEF IInv, Shared, Futures
    <2>3. inflight[task[l].key] = l
      BY <2>1, <2>2 DEF IInv, Shared, Loads
    <2> QED BY <2>1, <2>2, <2>3
  <1> QED BY <1>1, Invariance, PTL

\* A hit is at most a TTL and a load old, however many requests and keys there are.
THEOREM HitsStayFresh == Spec => []HitsAreFresh
  BY Invariance, PTL DEF IInv

-----------------------------------------------------------------------------
(* The refinement of SharedLoad.                                           *)

\* What a step of c changes of what the callers see.
LEMMA Mapped ==
    ASSUME TypeOK, NEW c \in Callers, task' \in [Callers -> Task],
           \A d \in Callers : d # c => task'[d] = task[d],
           \A d \in Callers : d # c => future'[d] = future[d]
    PROVE  /\ seen' = [seen EXCEPT ![c] = [pc |-> task'[c].pc, key |-> task'[c].key,
                                           on |-> task'[c].on]]
           /\ loads' = [loads EXCEPT ![c] =
                  [state |-> future'[c].state,
                   key |-> IF future'[c].state = "none" THEN None ELSE task'[c].key,
                   value |-> future'[c].value]]
           /\ answers' = [answers EXCEPT ![c] = task'[c].value]
  BY DEF seen, loads, answers

LEMMA MapsHit ==
    ASSUME IInv, NEW c \in Callers, NEW k \in Keys, Hit(c, k)
    PROVE  Promise!Hit(c, k)
  <1>1. TypeOK /\ task[c].pc = "new" /\ UNCHANGED <<now, entries, inflight, future>>
    BY DEF IInv, Hit
  <1>2. entries[k] \in Entry /\ entries[k] # None
    BY <1>1 DEF Hit, Live, TypeOK
  <1>3. entries[k].value \in Value
    BY <1>2 DEF Entry
  <1>4. /\ task' \in [Callers -> Task]
        /\ task'[c].pc = "answered" /\ task'[c].key = k
        /\ task'[c].value = entries[k].value /\ task'[c].on = task[c].on
        /\ \A d \in Callers : d # c => task'[d] = task[d]
    BY <1>1, <1>3, Returned DEF Hit
  <1>5. task[c].on = None /\ future[c].state = "none"
    BY <1>1 DEF IInv, Shared, Untouched
  <1>6. /\ seen' = [seen EXCEPT ![c] = [pc |-> "answered", key |-> k, on |-> None]]
        /\ answers' = [answers EXCEPT ![c] = entries[k].value]
    BY <1>1, <1>4, <1>5, Mapped
  <1>7. loads' = loads
    BY <1>1, <1>4, <1>5 DEF loads
  <1>8. entries[k].value \in Promise!Known(k)
    <2>1. PICK m \in Callers : /\ future[m].state = "result" /\ task[m].key = k
                               /\ future[m].value = entries[k].value
      BY <1>2 DEF IInv, Shared, Stores
    <2> QED BY <2>1 DEF Promise!Known, loads
  <1>9. seen[c].pc = "new"
    BY <1>1 DEF seen
  <1> QED BY <1>6, <1>7, <1>8, <1>9 DEF Promise!Hit

LEMMA MapsJoin ==
    ASSUME IInv, NEW c \in Callers, NEW k \in Keys, Join(c, k)
    PROVE  Promise!Join(c, k)
  <1> DEFINE l == inflight[k]
  <1>1. /\ TypeOK /\ task[c].pc = "new" /\ UNCHANGED future
        /\ l \in Callers /\ l # None /\ Become(c, "waiting", k, l)
    BY DEF IInv, Join, TypeOK
  <1>2. /\ task' \in [Callers -> Task]
        /\ task'[c].pc = "waiting" /\ task'[c].key = k /\ task'[c].on = l
        /\ task'[c].value = task[c].value
        /\ \A d \in Callers : d # c => task'[d] = task[d]
    BY <1>1, Became DEF Pcs
  <1>3. task[l].pc = "loading" /\ task[l].key = k /\ future[l].state = "pending"
    BY <1>1 DEF IInv, Shared, InFlight, Loads
  <1>4. l \in Promise!Pending(k)
    BY <1>1, <1>3 DEF Promise!Pending, loads
  <1>5. seen' = [seen EXCEPT ![c] = [pc |-> "waiting", key |-> k, on |-> l]]
    BY <1>1, <1>2, Mapped
  <1>6. future[c].state = "none"
    BY <1>1 DEF IInv, Shared, Untouched
  <1>7. loads' = loads /\ answers' = answers
    BY <1>1, <1>2, <1>6 DEF loads, answers
  <1>8. seen[c].pc = "new"
    BY <1>1 DEF seen
  <1> QED BY <1>4, <1>5, <1>7, <1>8 DEF Promise!Join

LEMMA MapsLead ==
    ASSUME IInv, NEW c \in Callers, NEW k \in Keys, Lead(c, k)
    PROVE  Promise!Lead(c, k)
  <1>1. /\ TypeOK /\ task[c].pc = "new" /\ inflight[k] = None
        /\ future' = [future EXCEPT ![c] = [state |-> "pending", value |-> None]]
        /\ Become(c, "loading", k, c)
    BY DEF IInv, Lead
  <1>2. /\ task' \in [Callers -> Task]
        /\ task'[c].pc = "loading" /\ task'[c].key = k /\ task'[c].on = c
        /\ task'[c].value = task[c].value
        /\ \A d \in Callers : d # c => task'[d] = task[d]
    BY <1>1, Became DEF Pcs
  <1>3. /\ future'[c].state = "pending" /\ future'[c].value = None
        /\ \A d \in Callers : d # c => future'[d] = future[d]
    BY <1>1 DEF TypeOK
  <1>4. Promise!Pending(k) = {}
    <2> SUFFICES ASSUME NEW l \in Callers, loads[l].state = "pending", loads[l].key = k
                 PROVE  FALSE
      BY DEF Promise!Pending
    <2>1. future[l].state = "pending" /\ task[l].key = k
      BY DEF loads
    <2>2. inflight[k] = l
      BY <2>1 DEF IInv, Shared, Futures, Loads
    <2> QED BY <1>1, <2>2, NoneAssumption
  <1>5. /\ seen' = [seen EXCEPT ![c] = [pc |-> "loading", key |-> k, on |-> c]]
        /\ loads' = [loads EXCEPT ![c] = [state |-> "pending", key |-> k, value |-> None]]
    BY <1>1, <1>2, <1>3, Mapped
  <1>6. answers' = answers
    BY <1>2 DEF answers
  <1>7. seen[c].pc = "new"
    BY <1>1 DEF seen
  <1> QED BY <1>4, <1>5, <1>6, <1>7 DEF Promise!Lead

LEMMA MapsLoadDone ==
    ASSUME IInv, NEW c \in Callers, LoadDone(c)
    PROVE  \E v \in Value : Promise!Succeed(c, v)
  <1> DEFINE k == task[c].key
  <1>1. TypeOK /\ Shared /\ task[c].pc = "loading" /\ k \in Keys
    BY DEF IInv, LoadDone, Shared, Loads
  <1>2. PICK read \in task[c].at..now :
             /\ Resolve(k, [state |-> "result", value |-> [key |-> k, read |-> read]])
             /\ Return(c, k, [key |-> k, read |-> read], FALSE)
    BY DEF LoadDone
  <1> DEFINE v == [key |-> k, read |-> read]
  <1>3. v \in Value
    BY <1>1, TaskFields, BoundsAssumption DEF Value, Time
  <1>4. /\ task' \in [Callers -> Task]
        /\ task'[c].pc = "answered" /\ task'[c].key = k /\ task'[c].value = v
        /\ task'[c].on = task[c].on
        /\ \A d \in Callers : d # c => task'[d] = task[d]
    BY ZenonT(30), <1>1, <1>2, <1>3, Returned
  <1> HIDE DEF v
  <1>5. future' = [future EXCEPT ![c] = [state |-> "result", value |-> v]]
    BY <1>1, <1>2, Resolved DEF v
  <1>6. /\ future'[c].state = "result" /\ future'[c].value = v
        /\ \A d \in Callers : d # c => future'[d] = future[d]
    BY <1>1, <1>5 DEF TypeOK
  <1>7. /\ seen' = [seen EXCEPT ![c] = [pc |-> "answered", key |-> k, on |-> task[c].on]]
        /\ loads' = [loads EXCEPT ![c] = [state |-> "result", key |-> k, value |-> v]]
        /\ answers' = [answers EXCEPT ![c] = v]
    BY <1>1, <1>4, <1>6, Mapped
  <1>8. future[c].state = "pending"
    BY <1>1 DEF Shared, Loads
  <1>9. /\ seen[c] = [pc |-> "loading", key |-> k, on |-> task[c].on]
        /\ loads[c] = [state |-> "pending", key |-> k, value |-> future[c].value]
    BY <1>1, <1>8 DEF seen, loads
  <1>10. /\ seen' = [seen EXCEPT ![c].pc = "answered"]
         /\ loads' = [loads EXCEPT ![c].state = "result", ![c].value = v]
    <2>1. [seen[c] EXCEPT !.pc = "answered"] =
                 [pc |-> "answered", key |-> k, on |-> task[c].on]
      BY <1>9
    <2>2. [loads[c] EXCEPT !.state = "result", !.value = v] =
                 [state |-> "result", key |-> k, value |-> v]
      <3> DEFINE before == [state |-> "pending", key |-> k, value |-> future[c].value]
                 between == [state |-> "result", key |-> k, value |-> future[c].value]
      <3>1. [before EXCEPT !.state = "result"] = between
        OBVIOUS
      <3>2. [between EXCEPT !.value = v] = [state |-> "result", key |-> k, value |-> v]
        OBVIOUS
      <3>3. loads[c] = before
        BY <1>9
      <3> HIDE DEF before, between
      <3> QED BY <3>1, <3>2, <3>3
    <2>3. loads' = [loads EXCEPT ![c].state = "result", ![c].value = v]
      BY <1>7, <2>2
    <2> QED BY <1>7, <2>1, <2>3
  <1>11. seen[c].pc = "loading"
    BY <1>9
  <1>12. Promise!Succeed(c, v)
    BY <1>7, <1>10, <1>11 DEF Promise!Succeed
  <1> QED BY <1>3, <1>12

LEMMA MapsLoadRaises ==
    ASSUME IInv, NEW c \in Callers, NEW pc \in {"failed", "cancelled"}, LoadRaises(c, pc)
    PROVE  Promise!Fail(c, pc)
  <1> DEFINE k == task[c].key
  <1>1. /\ TypeOK /\ Shared /\ task[c].pc = "loading" /\ k \in Keys /\ task[c].on = c
        /\ future[c].state = "pending" /\ future[c].value = None
        /\ Resolve(k, [state |-> pc, value |-> None]) /\ Become(c, pc, k, c)
    BY DEF IInv, LoadRaises, Shared, Loads, Futures
  <1>2. /\ task' \in [Callers -> Task] /\ task'[c].pc = pc /\ task'[c].key = k
        /\ task'[c].on = c /\ task'[c].value = task[c].value
        /\ \A d \in Callers : d # c => task'[d] = task[d]
    BY <1>1, Became DEF Pcs
  <1>3. future' = [future EXCEPT ![c] = [state |-> pc, value |-> None]]
    BY <1>1, Resolved
  <1>4. /\ future'[c].state = pc /\ future'[c].value = None
        /\ \A d \in Callers : d # c => future'[d] = future[d]
    BY <1>1, <1>3 DEF TypeOK
  <1>5. /\ seen' = [seen EXCEPT ![c] = [pc |-> pc, key |-> k, on |-> c]]
        /\ loads' = [loads EXCEPT ![c] = [state |-> pc, key |-> k, value |-> None]]
    BY <1>1, <1>2, <1>4, Mapped
  <1>6. /\ seen[c] = [pc |-> "loading", key |-> k, on |-> c]
        /\ loads[c] = [state |-> "pending", key |-> k, value |-> None]
    BY <1>1 DEF seen, loads
  <1>7. /\ seen' = [seen EXCEPT ![c].pc = pc] /\ loads' = [loads EXCEPT ![c].state = pc]
    <2>1. /\ [seen[c] EXCEPT !.pc = pc] = [pc |-> pc, key |-> k, on |-> c]
          /\ [loads[c] EXCEPT !.state = pc] = [state |-> pc, key |-> k, value |-> None]
      BY <1>6
    <2> QED BY <1>5, <2>1
  <1>8. answers' = answers
    BY <1>2 DEF answers
  <1> QED BY <1>6, <1>7, <1>8 DEF Promise!Fail

\* Waking and giving up change nothing but the waiter.
LEMMA MapsWaiter ==
    ASSUME IInv, NEW c \in Callers, task[c].pc = "waiting", task' \in [Callers -> Task],
           task'[c].key = task[c].key, task'[c].on = task[c].on,
           \A d \in Callers : d # c => task'[d] = task[d], UNCHANGED future
    PROVE  /\ seen[c].pc = "waiting" /\ seen[c].on = task[c].on
           /\ seen' = [seen EXCEPT ![c].pc = task'[c].pc]
           /\ loads' = loads
           /\ answers' = [answers EXCEPT ![c] = task'[c].value]
  <1>1. TypeOK
    BY DEF IInv
  <1>2. /\ seen' = [seen EXCEPT ![c] = [pc |-> task'[c].pc, key |-> task[c].key,
                                        on |-> task[c].on]]
        /\ answers' = [answers EXCEPT ![c] = task'[c].value]
    BY <1>1, Mapped
  <1>3. seen[c] = [pc |-> "waiting", key |-> task[c].key, on |-> task[c].on]
    BY DEF seen
  <1>4. seen' = [seen EXCEPT ![c].pc = task'[c].pc]
    <2>1. [seen[c] EXCEPT !.pc = task'[c].pc] =
              [pc |-> task'[c].pc, key |-> task[c].key, on |-> task[c].on]
      BY <1>3
    <2> QED BY <1>2, <2>1
  <1>5. loads' = loads
    BY DEF loads
  <1>6. seen[c].pc = "waiting" /\ seen[c].on = task[c].on
    BY <1>3
  <1> QED BY <1>2, <1>4, <1>5, <1>6

LEMMA MapsWake ==
    ASSUME IInv, NEW c \in Callers, Wake(c)
    PROVE  Promise!Hear(c)
  <1> DEFINE l == task[c].on
  <1>1. /\ TypeOK /\ task[c].pc = "waiting" /\ UNCHANGED future
        /\ l \in Callers /\ task[c].key \in Keys /\ future[l].state \notin {"pending", "none"}
    BY DEF IInv, Wake, Shared, Waits
  <1>2. future[l] \in Future
    BY <1>1 DEF TypeOK
  <1>3. loads[l].state = future[l].state /\ loads[l].value = future[l].value
    BY <1>1 DEF loads
  <1>4. CASE future[l].state = "result"
    <2>1. PICK v \in Value : v = future[l].value
      BY <1>1, <1>4 DEF IInv, Shared, Futures
    <2>2. /\ task' \in [Callers -> Task]
          /\ task'[c].pc = "answered" /\ task'[c].key = task[c].key
          /\ task'[c].value = v /\ task'[c].on = task[c].on
          /\ \A d \in Callers : d # c => task'[d] = task[d]
      <3>1. Return(c, task[c].key, v, FALSE) /\ task[c].key \in Keys /\ TypeOK
        BY <1>1, <1>4, <2>1 DEF Wake
      <3> QED BY <3>1, Returned
    <2>3. /\ seen[c].pc = "waiting" /\ seen[c].on = l
          /\ seen' = [seen EXCEPT ![c].pc = "answered"]
          /\ loads' = loads
          /\ answers' = [answers EXCEPT ![c] = future[l].value]
      BY <1>1, <2>1, <2>2, MapsWaiter
    <2> QED BY <1>3, <1>4, <2>3 DEF Promise!Hear
  <1>5. CASE future[l].state \in {"failed", "cancelled"}
    <2>1. Become(c, future[l].state, task[c].key, l)
      BY <1>5 DEF Wake
    <2>2. /\ task' \in [Callers -> Task]
          /\ task'[c].pc = future[l].state /\ task'[c].key = task[c].key
          /\ task'[c].value = task[c].value /\ task'[c].on = l
          /\ \A d \in Callers : d # c => task'[d] = task[d]
      BY <1>1, <1>5, <2>1, Became DEF Pcs
    <2>3. /\ seen[c].pc = "waiting" /\ seen[c].on = l
          /\ seen' = [seen EXCEPT ![c].pc = future[l].state]
          /\ loads' = loads
      BY <1>1, <2>2, MapsWaiter
    <2>4. answers' = answers
      BY <2>2 DEF answers
    <2> QED BY <1>3, <1>5, <2>3, <2>4 DEF Promise!Hear
  <1> QED BY <1>1, <1>2, <1>4, <1>5 DEF Future

LEMMA MapsCancelWaiter ==
    ASSUME IInv, NEW c \in Callers, CancelWaiter(c)
    PROVE  Promise!GiveUp(c)
  <1>1. /\ TypeOK /\ task[c].pc = "waiting" /\ UNCHANGED future
        /\ task[c].on \in Callers /\ task[c].key \in Keys
        /\ Become(c, "cancelled", task[c].key, task[c].on)
    BY DEF IInv, CancelWaiter, Shared, Waits
  <1>2. /\ task' \in [Callers -> Task]
        /\ task'[c].pc = "cancelled" /\ task'[c].key = task[c].key
        /\ task'[c].value = task[c].value /\ task'[c].on = task[c].on
        /\ \A d \in Callers : d # c => task'[d] = task[d]
    BY <1>1, Became DEF Pcs
  <1>3. /\ seen[c].pc = "waiting" /\ seen' = [seen EXCEPT ![c].pc = "cancelled"]
        /\ loads' = loads
    BY <1>1, <1>2, MapsWaiter
  <1>4. answers' = answers
    BY <1>2 DEF answers
  <1> QED BY <1>3, <1>4 DEF Promise!GiveUp

\* get_or_load implements the promise of SharedLoad: every step of the loop is one
\* step of the promise or none.
THEOREM Refines == Spec => SharesLoads
  <1>1. Init => Promise!Untold
    BY DEF Init, Promise!Untold, seen, loads, answers
  <1>2. IInv /\ [Next]_vars => [\E c \in Callers : Promise!Step(c)]_(Promise!vars)
    <2> SUFFICES ASSUME IInv, [Next]_vars
                 PROVE  \/ \E c \in Callers : Promise!Step(c)
                        \/ UNCHANGED <<seen, loads, answers>>
      BY DEF Promise!vars
    <2>1. CASE Tick \/ UNCHANGED vars
      BY <2>1 DEF Tick, vars, seen, loads, answers
    <2>2. CASE \E c \in Callers, k \in Keys : Hit(c, k) \/ Join(c, k) \/ Lead(c, k)
      BY <2>2, MapsHit, MapsJoin, MapsLead DEF Promise!Step
    <2>3. CASE \E c \in Callers : LoadDone(c)
      BY <2>3, MapsLoadDone DEF Promise!Step
    <2>4. CASE \E c \in Callers, pc \in {"failed", "cancelled"} : LoadRaises(c, pc)
      BY <2>4, MapsLoadRaises DEF Promise!Step
    <2>5. CASE \E c \in Callers : Wake(c) \/ CancelWaiter(c)
      BY <2>5, MapsWake, MapsCancelWaiter DEF Promise!Step
    <2> QED BY <2>1, <2>2, <2>3, <2>4, <2>5 DEF Next, Finish
  <1> QED BY <1>1, <1>2, Invariance, PTL DEF Spec, SharesLoads, Promise!Spec
=============================================================================
