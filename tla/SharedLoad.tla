------------------------------ MODULE SharedLoad ------------------------------
(***************************************************************************)
(* What the metric cache of api/cache.py promises its callers, with no     *)
(* entries, expiry or eviction: concurrent questions about one key share   *)
(* one load; everyone who shares a load meets the same end, unless a       *)
(* caller gives up, which concerns nobody else; and an answer that needed  *)
(* no load is the value of a load of that very key that succeeded.         *)
(***************************************************************************)
CONSTANTS Callers, Keys, Values, None

VARIABLES
    caller,  \* [pc, key, on]: what each caller does and whose load it shares
    load,    \* the load each caller leads, if any: [state, key, value]
    answer   \* the value each caller was given

vars == <<caller, load, answer>>

Untold == /\ caller = [c \in Callers |-> [pc |-> "new", key |-> None, on |-> None]]
          /\ load = [c \in Callers |-> [state |-> "none", key |-> None, value |-> None]]
          /\ answer = [c \in Callers |-> None]

Pending(k) == {l \in Callers : load[l].state = "pending" /\ load[l].key = k}
Known(k) == {load[l].value : l \in {m \in Callers : load[m].state = "result" /\ load[m].key = k}}

Hit(c, k) ==
    /\ caller[c].pc = "new"
    /\ \E v \in Known(k) : answer' = [answer EXCEPT ![c] = v]
    /\ caller' = [caller EXCEPT ![c] = [pc |-> "answered", key |-> k, on |-> None]]
    /\ UNCHANGED load

Join(c, k) ==
    /\ caller[c].pc = "new"
    /\ \E l \in Pending(k) :
          caller' = [caller EXCEPT ![c] = [pc |-> "waiting", key |-> k, on |-> l]]
    /\ UNCHANGED <<load, answer>>

Lead(c, k) ==
    /\ caller[c].pc = "new"
    /\ Pending(k) = {}
    /\ caller' = [caller EXCEPT ![c] = [pc |-> "loading", key |-> k, on |-> c]]
    /\ load' = [load EXCEPT ![c] = [state |-> "pending", key |-> k, value |-> None]]
    /\ UNCHANGED answer

Succeed(c, v) ==
    /\ caller[c].pc = "loading"
    /\ caller' = [caller EXCEPT ![c].pc = "answered"]
    /\ load' = [load EXCEPT ![c].state = "result", ![c].value = v]
    /\ answer' = [answer EXCEPT ![c] = v]

\* The load raises, or its leader is cancelled and takes the load with it.
Fail(c, pc) ==
    /\ caller[c].pc = "loading"
    /\ caller' = [caller EXCEPT ![c].pc = pc]
    /\ load' = [load EXCEPT ![c].state = pc]
    /\ UNCHANGED answer

\* A waiter hears how the load it shares ended.
Hear(c) ==
    /\ caller[c].pc = "waiting"
    /\ LET l == load[caller[c].on]
       IN  \/ /\ l.state = "result"
              /\ caller' = [caller EXCEPT ![c].pc = "answered"]
              /\ answer' = [answer EXCEPT ![c] = l.value]
           \/ /\ l.state \in {"failed", "cancelled"}
              /\ caller' = [caller EXCEPT ![c].pc = l.state]
              /\ UNCHANGED answer
    /\ UNCHANGED load

GiveUp(c) ==
    /\ caller[c].pc = "waiting"
    /\ caller' = [caller EXCEPT ![c].pc = "cancelled"]
    /\ UNCHANGED <<load, answer>>

Step(c) ==
    \/ \E k \in Keys : Hit(c, k) \/ Join(c, k) \/ Lead(c, k)
    \/ \E v \in Values : Succeed(c, v)
    \/ Fail(c, "failed") \/ Fail(c, "cancelled")
    \/ Hear(c) \/ GiveUp(c)

Spec == Untold /\ [][\E c \in Callers : Step(c)]_vars
=============================================================================
