------------------------- MODULE StreamConsumerProofs -------------------------
(***************************************************************************)
(* Theorems about StreamConsumer, for any topic, versions, thresholds and  *)
(* number of restarts. A group that reads from the beginning skips         *)
(* nothing; and, wherever a process begins to read, its windows are the    *)
(* newest samples it has read, its verdict compares the two versions it    *)
(* saw last, and the final one is told.                                    *)
(***************************************************************************)
EXTENDS StreamConsumer, WellFoundedInduction, TLAPS

\* Where the counters of a process stand: it has read from start to position.
Places ==
    /\ Len(log) <= MaxLog
    /\ consumer.start <= consumer.position /\ consumer.position <= Len(log)
    /\ consumer.seen <= consumer.position - consumer.start
    /\ consumer.since <= consumer.seen
    /\ committed # None => committed <= Len(log)

Typed == TypeOK /\ Places

-----------------------------------------------------------------------------
(* The order of the versions.                                              *)

\* A nonempty set of numbers has a least one.
Before == {ns \in Nat \X Nat : ns[1] < ns[2]}

LEMMA LeastOf ==
    ASSUME NEW S \in SUBSET Nat, S # {}
    PROVE  \E x \in S : \A y \in S : x <= y
  <1>1. OpToRel(<, Nat) = Before
    BY DEF OpToRel, Before
  <1>2. IsWellFoundedOn(Before, Nat)
    BY <1>1, NatLessThanWellFounded
  <1>3. PICK x \in S : \A y \in S : <<y, x>> \notin Before
    BY <1>2, WFMin
  <1>4. \A y \in S : x <= y
    <2> SUFFICES ASSUME NEW y \in S PROVE x <= y
      OBVIOUS
    <2>1. ~(y < x) /\ x \in Nat /\ y \in Nat
      BY <1>3 DEF Before
    <2> QED BY <2>1
  <1> QED BY <1>4

LEMMA NewestIs ==
    ASSUME TypeOK, NEW S \in SUBSET Versions, S # {}
    PROVE  Newest(S) \in S /\ \A u \in S : windows[u].last_seen <= windows[Newest(S)].last_seen
  <1> DEFINE seen(v) == windows[v].last_seen
             T == {MaxLog - seen(v) : v \in S}
  <1>1. MaxLog \in Nat /\ \A v \in S : seen(v) \in 0..MaxLog
    BY BoundsAssumption DEF TypeOK, Window, Offsets
  <1> HIDE DEF seen
  <1>2. T \in SUBSET Nat /\ T # {}
    <2>1. \A v \in S : MaxLog - seen(v) \in Nat
      BY <1>1
    <2> QED BY <2>1
  <1>3. PICK x \in T : \A y \in T : x <= y
    BY <1>2, LeastOf
  <1>4. PICK v \in S : x = MaxLog - seen(v)
    BY <1>3
  <1>5. \A u \in S : seen(u) <= seen(v)
    <2> SUFFICES ASSUME NEW u \in S PROVE seen(u) <= seen(v)
      OBVIOUS
    <2>1. x <= MaxLog - seen(u)
      BY <1>3
    <2> QED BY <1>1, <1>4, <2>1
  <1> QED BY <1>5 DEF Newest, seen

\* Nothing is compared before two versions were seen, then the two seen last.
LEMMA CompareIs ==
    ASSUME TypeOK
    PROVE  \/ /\ Compare = None
              /\ \A u, v \in Seen : u = v
           \/ /\ Compare \in Verdict
              /\ Compare.base \in Seen /\ Compare.cand \in Seen /\ Compare.base # Compare.cand
              /\ \A u \in Seen : windows[u].last_seen <= windows[Compare.cand].last_seen
              /\ \A u \in Seen : u # Compare.cand =>
                     windows[u].last_seen <= windows[Compare.base].last_seen
  <1> DEFINE c == Newest(Seen)
             b == Newest(Seen \ {c})
  <1>1. CASE \A u, v \in Seen : u = v
    BY <1>1 DEF Compare
  <1>2. CASE ~(\A u, v \in Seen : u = v)
    <2>1. Seen \in SUBSET Versions /\ Seen # {}
      BY <1>2 DEF Seen
    <2>2. c \in Seen /\ \A u \in Seen : windows[u].last_seen <= windows[c].last_seen
      BY <2>1, NewestIs
    <2> HIDE DEF c
    <2>3. Seen \ {c} \in SUBSET Versions /\ Seen \ {c} # {}
      BY <1>2, <2>1
    <2>4. b \in Seen \ {c} /\ \A u \in Seen \ {c} : windows[u].last_seen <= windows[b].last_seen
      BY <2>3, NewestIs
    <2>5. Compare = [base |-> b, cand |-> c, triggered |-> Triggered(b, c)]
      BY <1>2 DEF Compare, c
    <2> HIDE DEF b
    <2>6. Triggered(b, c) \in BOOLEAN
      BY DEF Triggered
    <2>7. Compare \in Verdict /\ Compare.base = b /\ Compare.cand = c
      BY <2>1, <2>2, <2>4, <2>5, <2>6 DEF Verdict
    <2> QED BY <2>2, <2>4, <2>7
  <1> QED BY <1>1, <1>2

LEMMA SameCompare ==
    ASSUME UNCHANGED windows
    PROVE  Compare' = Compare
  BY DEF Compare, Triggered, PerRequest, Seen, Newest

LEMMA ToldType ==
    ASSUME TypeOK
    PROVE  Told \in Verdict \cup {None}
  BY CompareIs DEF Told, TypeOK, Consumer

-----------------------------------------------------------------------------
(* Type correctness.                                                       *)

LEMMA KeepType ==
    ASSUME NEW s \in Seq(Offsets), NEW o \in Offsets, NEW n \in Nat \ {0}
    PROVE  Keep(s, o, n) \in Seq(Offsets)
  <1>1. CASE Len(s) < n
    BY <1>1 DEF Keep
  <1>2. CASE ~(Len(s) < n)
    <2>1. s # <<>>
      BY <1>2
    <2>2. Tail(s) \in Seq(Offsets)
      BY <2>1
    <2> QED BY <1>2, <2>2 DEF Keep
  <1> QED BY <1>1, <1>2

LEMMA ObservedType ==
    ASSUME NEW w \in Window, NEW part \in {"server", "db"}, NEW o \in Offsets, o + 1 \in Offsets
    PROVE  /\ Observed(w, part, o) \in Window
           /\ Observed(w, part, o).last_seen = o + 1
           /\ part = "server" => /\ Observed(w, part, o).server = Keep(w.server, o, MaxSamples)
                                 /\ Observed(w, part, o).db = w.db
           /\ part = "db" => /\ Observed(w, part, o).db = Keep(w.db, o, MaxSamples * 60)
                             /\ Observed(w, part, o).server = w.server
  <1>1. MaxSamples \in Nat \ {0} /\ MaxSamples * 60 \in Nat \ {0}
    BY BoundsAssumption
  <1>2. w.server \in Seq(Offsets) /\ w.db \in Seq(Offsets)
    BY DEF Window
  <1> DEFINE a == Keep(w.server, o, MaxSamples)
             b == Keep(w.db, o, MaxSamples * 60)
  <1>3. a \in Seq(Offsets) /\ b \in Seq(Offsets)
    BY <1>1, <1>2, KeepType
  <1>4. Touched(w, o) \in Window
    BY DEF Touched, Window
  <1>5. /\ Touched(w, o).last_seen = o + 1
        /\ Touched(w, o).server = w.server /\ Touched(w, o).db = w.db
    BY DEF Touched, Window
  <1> DEFINE t == Touched(w, o)
  <1>6. CASE part = "server"
    <2>1. Observed(w, part, o) = [t EXCEPT !.server = a]
      BY <1>5, <1>6 DEF Observed
    <2> HIDE DEF t, a
    <2> QED BY <1>3, <1>4, <1>5, <1>6, <2>1 DEF Window, t, a
  <1>7. CASE part = "db"
    <2>1. Observed(w, part, o) = [t EXCEPT !.db = b]
      BY <1>5, <1>7 DEF Observed
    <2> HIDE DEF t, b
    <2> QED BY <1>3, <1>4, <1>5, <1>7, <2>1 DEF Window, t, b
  <1> QED BY <1>6, <1>7

LEMMA ConsumerType ==
    ASSUME TypeOK
    PROVE  /\ consumer.pc \in {"down", "polling", "committing", "evaluating", "ended", "raised"}
           /\ consumer.start \in Nat /\ consumer.position \in Nat /\ consumer.seen \in Nat
           /\ consumer.since \in Nat /\ consumer.last \in Verdict \cup {None}
           /\ MaxLog \in Nat /\ Len(log) \in Nat
  BY BoundsAssumption DEF TypeOK, Consumer, Offsets

LEMMA DownType == Down \in Consumer
  BY BoundsAssumption DEF Down, Consumer, Offsets

LEMMA TypeInit == Init => Typed
  <1> SUFFICES ASSUME Init PROVE Typed
    OBVIOUS
  <1>1. consumer = Down /\ Down \in Consumer
    BY DownType DEF Init
  <1>2. NoWindow \in Window
    BY BoundsAssumption DEF NoWindow, Window, Offsets
  <1>3. TypeOK
    BY <1>1, <1>2, BoundsAssumption DEF Init, TypeOK
  <1>4. Places
    BY <1>1, BoundsAssumption DEF Init, Places, Down
  <1> QED BY <1>3, <1>4 DEF Typed

LEMMA TypeProduction ==
    ASSUME Typed,
           \/ \E v \in Versions : Deploy(v)
           \/ \E m \in Message : Produce(m)
           \/ UNCHANGED vars
    PROVE  Typed'
  <1>1. CASE \E v \in Versions : Deploy(v)
    BY <1>1 DEF Deploy, Typed, TypeOK, Places
  <1>2. CASE \E m \in Message : Produce(m)
    <2>1. PICK m \in Message : Produce(m)
      BY <1>2
    <2>2. log' \in Seq(Message) /\ Len(log') = Len(log) + 1 /\ Len(log) < MaxLog
      BY <2>1 DEF Produce, Typed, TypeOK
    <2>3. TypeOK'
      BY <2>1, <2>2 DEF Produce, Typed, TypeOK
    <2>4. Len(log) \in Nat /\ consumer.position \in Nat /\ MaxLog \in Nat
      BY ConsumerType DEF Typed
    <2>5. committed # None => committed \in Nat
      BY DEF Typed, TypeOK, Offsets
    <2>6. Places'
      BY <2>1, <2>2, <2>4, <2>5 DEF Produce, Typed, Places
    <2> QED BY <2>3, <2>6 DEF Typed
  <1>3. CASE UNCHANGED vars
    BY <1>3 DEF vars, Typed, TypeOK, Places
  <1> QED BY <1>1, <1>2, <1>3

LEMMA TypeStart ==
    ASSUME Typed, Start
    PROVE  Typed'
  <1>1. Position \in Offsets /\ Position <= Len(log)
    <2>1. Len(log) \in Offsets /\ 0 \in Offsets
      BY ConsumerType DEF Offsets, Typed, Places
    <2> QED BY <2>1 DEF Position, Typed, TypeOK, Places, Offsets
  <1> DEFINE c == [Down EXCEPT !.pc = "polling", !.start = Position, !.position = Position]
  <1>2. /\ c \in Consumer /\ c.start = Position /\ c.position = Position
        /\ c.seen = 0 /\ c.since = 0
    BY <1>1, DownType DEF Consumer, Down
  <1>3. consumer' = c /\ UNCHANGED <<deployed, log, committed, folded>>
    BY DEF Start
  <1> HIDE DEF c
  <1>4. NoWindow \in Window
    BY BoundsAssumption DEF NoWindow, Window, Offsets
  <1>5. windows' \in [Versions -> Window] /\ starts' \in 0..MaxStarts
    BY <1>4, BoundsAssumption DEF Start, Typed, TypeOK
  <1>6. TypeOK'
    BY <1>2, <1>3, <1>5 DEF Typed, TypeOK
  <1>7. Places'
    BY <1>1, <1>2, <1>3 DEF Typed, Places, Offsets
  <1> QED BY <1>6, <1>7 DEF Typed

\* What Fold does to the local variables of consume(), and what it finds.
LEMMA FoldIs ==
    ASSUME Typed, Fold
    PROVE  /\ consumer' \in Consumer /\ consumer'.pc = "committing"
           /\ consumer'.start = consumer.start
           /\ consumer'.position = consumer.position + 1
           /\ consumer'.seen \in {consumer.seen, consumer.seen + 1}
           /\ consumer'.since - consumer.since = consumer'.seen - consumer.seen
           /\ consumer.position \in Offsets /\ consumer.position + 1 \in Offsets
           /\ consumer.position < Len(log) /\ Polled \in Message
           /\ Counts => Polled.version \in Versions /\ Polled.part \in {"server", "db"}
  <1>1. PICK spans \in {0, 1} :
            consumer' = [consumer EXCEPT !.pc = "committing", !.position = @ + 1,
                                         !.seen = @ + spans, !.since = @ + spans]
    BY DEF Fold
  <1>2. /\ consumer.start \in Nat /\ consumer.position \in Nat /\ consumer.seen \in Nat
        /\ consumer.since \in Nat /\ Len(log) \in Nat /\ MaxLog \in Nat
    BY ConsumerType DEF Typed
  <1>3. consumer.position < Len(log) /\ Len(log) <= MaxLog
    BY DEF Fold, Typed, Places
  <1>4. consumer.position \in Offsets /\ consumer.position + 1 \in Offsets
    BY <1>2, <1>3 DEF Offsets
  <1>5. consumer.seen + spans \in Offsets /\ consumer.since + spans \in Offsets
    <2>1. consumer.seen <= consumer.position - consumer.start /\ consumer.since <= consumer.seen
      BY DEF Typed, Places
    <2>2. consumer.seen + spans <= MaxLog /\ consumer.since + spans <= MaxLog
      BY <1>2, <1>3, <2>1
    <2> QED BY <1>2, <2>2 DEF Offsets
  <1>6. /\ consumer' \in Consumer /\ consumer'.pc = "committing"
        /\ consumer'.start = consumer.start
        /\ consumer'.position = consumer.position + 1
        /\ consumer'.seen = consumer.seen + spans /\ consumer'.since = consumer.since + spans
    BY <1>1, <1>4, <1>5 DEF Typed, TypeOK, Consumer
  <1>7. Polled \in Message
    BY <1>2, <1>3 DEF Polled, Typed, TypeOK
  <1>8. Counts => Polled.version \in Versions /\ Polled.part \in {"server", "db"}
    BY <1>7, BoundsAssumption DEF Counts, Message
  <1> QED BY <1>2, <1>3, <1>4, <1>6, <1>7, <1>8

LEMMA TypeFold ==
    ASSUME Typed, Fold
    PROVE  Typed'
  <1>1. windows' \in [Versions -> Window]
    <2>1. CASE Counts
      <3>1. windows' = [windows EXCEPT ![Polled.version] =
                            Observed(@, Polled.part, consumer.position)]
        BY <2>1 DEF Fold
      <3>2. Observed(windows[Polled.version], Polled.part, consumer.position) \in Window
        BY <2>1, FoldIs, ObservedType DEF Typed, TypeOK
      <3> QED BY <3>1, <3>2 DEF Typed, TypeOK
    <2>2. CASE ~Counts
      BY <2>2 DEF Fold, Typed, TypeOK
    <2> QED BY <2>1, <2>2
  <1>2. folded' \subseteq Offsets
    BY FoldIs DEF Fold, Typed, TypeOK
  <1>3. TypeOK'
    BY <1>1, <1>2, FoldIs DEF Fold, Typed, TypeOK
  <1>4. /\ consumer.start \in Nat /\ consumer.position \in Nat /\ consumer.seen \in Nat
        /\ consumer.since \in Nat /\ Len(log) \in Nat
    BY ConsumerType DEF Typed
  <1>5. /\ consumer'.start = consumer.start /\ consumer'.position = consumer.position + 1
        /\ consumer'.seen \in {consumer.seen, consumer.seen + 1}
        /\ consumer'.since - consumer.since = consumer'.seen - consumer.seen
        /\ consumer.position < Len(log)
    BY FoldIs
  <1>6. consumer'.since \in Nat /\ consumer'.seen \in Nat
    BY FoldIs DEF Consumer, Offsets
  <1>7. consumer.seen <= consumer.position - consumer.start
    BY DEF Typed, Places
  <1>7a. consumer.since <= consumer.seen /\ consumer.start <= consumer.position
    BY DEF Typed, Places
  <1>8. UNCHANGED <<log, committed>>
    BY DEF Fold
  <1>9. Places'
    <2>1. consumer'.seen <= consumer'.position - consumer'.start
      BY <1>4, <1>5, <1>7
    <2>2. consumer'.since <= consumer'.seen
      BY <1>4, <1>5, <1>6, <1>7a
    <2>3. consumer'.start <= consumer'.position /\ consumer'.position <= Len(log)
      BY <1>4, <1>5, <1>7a
    <2> QED BY <1>8, <2>1, <2>2, <2>3 DEF Typed, Places
  <1> QED BY <1>3, <1>9 DEF Typed

\* The other steps of a consumer leave its place, or give it up.
LEMMA TypeOther ==
    ASSUME Typed, Raise \/ Commit \/ Evaluate \/ End \/ Stop
    PROVE  /\ Typed' /\ UNCHANGED <<log, windows, folded>>
           /\ \/ consumer' = Down
              \/ /\ consumer.pc # "down"
                 /\ consumer'.start = consumer.start /\ consumer'.position = consumer.position
  <1>1. UNCHANGED <<deployed, log, windows, folded, starts>>
    BY DEF Raise, Commit, Evaluate, End, Stop, state
  <1>2. /\ consumer' \in Consumer
        /\ \/ consumer' = Down
           \/ /\ consumer.pc # "down"
              /\ consumer'.start = consumer.start /\ consumer'.position = consumer.position
              /\ consumer'.seen = consumer.seen /\ consumer'.since \in {consumer.since, 0}
    <2>1. consumer \in Consumer
      BY DEF Typed, TypeOK
    <2>2. CASE Raise
      BY <2>1, <2>2 DEF Raise, Consumer
    <2>3. CASE Commit
      BY <2>1, <2>3 DEF Commit, Consumer
    <2>4. CASE Evaluate
      <3>1. Told \in Verdict \cup {None} /\ 0 \in Offsets
        BY ToldType, BoundsAssumption DEF Typed, Offsets
      <3> QED BY <2>1, <2>4, <3>1 DEF Evaluate, Consumer
    <2>5. CASE End
      <3>1. Told \in Verdict \cup {None}
        BY ToldType DEF Typed
      <3> QED BY <2>1, <2>5, <3>1 DEF End, Consumer
    <2>6. CASE Stop
      BY <2>6, DownType DEF Stop
    <2> QED BY <2>2, <2>3, <2>4, <2>5, <2>6
  <1>3. committed' = committed \/ committed' = consumer.position
    BY DEF Raise, Commit, Evaluate, End, Stop
  <1>4. TypeOK'
    <2>1. consumer.position \in Offsets
      BY DEF Typed, TypeOK, Consumer
    <2> QED BY <1>1, <1>2, <1>3, <2>1 DEF Typed, TypeOK
  <1>5. Places'
    <2>1. consumer.seen \in Nat /\ consumer.position \in Nat /\ Len(log) \in Nat
      BY ConsumerType DEF Typed
    <2>2. Down.start = 0 /\ Down.position = 0 /\ Down.seen = 0 /\ Down.since = 0
      BY DEF Down
    <2> QED BY <1>1, <1>2, <1>3, <2>1, <2>2 DEF Typed, Places
  <1> QED BY <1>1, <1>2, <1>4, <1>5 DEF Typed

LEMMA TypeStep == Typed /\ [Next]_vars => Typed'
  BY TypeProduction, TypeStart, TypeFold, TypeOther DEF Next, Consume

\* Every variable keeps its type: a position never passes the end of the topic, nor do
\* the counts of spans pass the messages read.
THEOREM TypeCorrect == Spec => [](TypeOK /\ Places)
  <1>1. Spec => []Typed
    BY TypeInit, TypeStep, PTL DEF Spec
  <1> QED BY <1>1, PTL DEF Typed

-----------------------------------------------------------------------------
(* What is folded and what is committed.                                   *)

\* All that is committed was folded, and so was all that a running consumer passed;
\* what it is about to commit is its position.
Replays ==
    /\ committed # None => \A o \in 0..(committed - 1) : o \in folded
    /\ Running => \A o \in 0..(consumer.position - 1) : o \in folded

LEMMA ReplaysStep ==
    ASSUME FromBeginning, Typed, Replays, [Next]_vars
    PROVE  Replays'
  <1>1. consumer.position \in Nat /\ (committed # None => committed \in Nat)
    BY DEF Typed, TypeOK, Consumer, Offsets
  <1>2. CASE \/ \E v \in Versions : Deploy(v)
             \/ \E m \in Message : Produce(m)
             \/ UNCHANGED vars
    BY <1>2 DEF Deploy, Produce, vars, Replays, Running
  <1>3. CASE Start
    <2>1. consumer'.position = Position
      BY <1>3 DEF Start, Down
    <2>2. \A o \in 0..(Position - 1) : o \in folded
      BY DEF Position, Replays
    <2> QED BY <1>3, <2>1, <2>2 DEF Start, Replays
  <1>4. CASE Fold
    <2>1. consumer'.position = consumer.position + 1
      BY <1>4, FoldIs
    <2>2. Running /\ folded' = folded \cup {consumer.position} /\ committed' = committed
      BY <1>4 DEF Fold, Running
    <2>3. \A o \in 0..(consumer.position - 1) : o \in folded
      BY <2>2 DEF Replays
    <2>4. \A o \in 0..(consumer'.position - 1) : o \in folded'
      BY <1>1, <2>1, <2>2, <2>3
    <2> QED BY <2>2, <2>4 DEF Replays
  <1>5. CASE Raise \/ Commit \/ Evaluate \/ End \/ Stop
    <2>1. /\ folded' = folded
          /\ consumer'.position = consumer.position \/ consumer' = Down
      BY <1>5, TypeOther
    <2>2. Down.pc = "down"
      BY DEF Down
    <2>3. Running' => Running
      BY <1>5, <2>2 DEF Raise, Commit, Evaluate, End, Stop, Running, Typed, TypeOK, Consumer
    <2>4. committed' = committed \/ (Running /\ committed' = consumer.position)
      BY <1>5 DEF Raise, Commit, Evaluate, End, Stop, Running
    <2> QED BY <2>1, <2>2, <2>3, <2>4 DEF Replays, Running
  <1> QED BY <1>2, <1>3, <1>4, <1>5 DEF Next, Consume

\* A crash replays messages and never skips one, wherever it falls and however often:
\* a group that reads from the beginning has folded all it has committed.
THEOREM CrashesReplay == ASSUME FromBeginning PROVE Spec => []NothingIsSkipped
  <1>1. Init => Replays
    BY DEF Init, Replays, Running, Down
  <1>2. Spec => []Replays
    BY <1>1, ReplaysStep, TypeInit, TypeStep, PTL DEF Spec
  <1>3. Replays => NothingIsSkipped
    BY DEF Replays, NothingIsSkipped
  <1> QED BY <1>2, <1>3, PTL

\* A consumer that polls is where the group is, one that is about to commit is one
\* ahead, and only there something may be folded that is not committed.
Cursor ==
    /\ AtMostOneIsReplayed
    /\ folded \subseteq 0..(Len(log) - 1)
    /\ committed = None /\ FromBeginning => folded \subseteq {0}
    /\ consumer.pc \in {"polling", "evaluating"} =>
          /\ committed # None => committed = consumer.position
          /\ committed = None /\ FromBeginning => consumer.position = 0
          /\ folded \subseteq 0..consumer.position
    /\ consumer.pc = "committing" =>
          /\ committed # None => consumer.position = committed + 1
          /\ folded \subseteq 0..(consumer.position - 1)

LEMMA CursorStep ==
    ASSUME Typed, Cursor, [Next]_vars
    PROVE  /\ Cursor'
           /\ committed' # committed /\ committed # None => committed' = committed + 1
  <1>1. /\ consumer.position \in Nat /\ Len(log) \in Nat /\ folded \subseteq Nat
        /\ committed # None => committed \in Nat
    BY DEF Typed, TypeOK, Consumer, Offsets
  <1>2. \A n \in Nat : n \in Offsets => n # None
    BY NoneAssumption
  <1>3. CASE (\E v \in Versions : Deploy(v)) \/ UNCHANGED vars
    <2>1. UNCHANGED <<committed, consumer, folded, log>>
      BY <1>3 DEF Deploy, vars
    <2> QED BY <2>1 DEF Cursor, AtMostOneIsReplayed
  <1>4. CASE \E m \in Message : Produce(m)
    <2>1. UNCHANGED <<committed, consumer, folded>> /\ Len(log') = Len(log) + 1
      BY <1>4 DEF Produce, Typed, TypeOK
    <2>2. folded' \subseteq 0..(Len(log') - 1)
      <3>1. \A o \in folded : o \in Nat /\ o <= Len(log) - 1
        BY <1>1 DEF Cursor
      <3>2. \A o \in folded : o \in Nat /\ o <= Len(log') - 1
        BY <1>1, <2>1, <3>1
      <3> QED BY <1>1, <2>1, <3>2
    <2> QED BY <2>1, <2>2 DEF Cursor, AtMostOneIsReplayed
  <1>5. CASE Start
    <2>1. /\ UNCHANGED <<committed, folded, log>>
          /\ consumer'.pc = "polling" /\ consumer'.position = Position
      BY <1>5 DEF Start, Down
    <2>2. committed # None => Position = committed /\ folded \subseteq 0..Position
      BY DEF Position, Cursor, AtMostOneIsReplayed
    <2>3. committed = None /\ FromBeginning => Position = 0 /\ folded \subseteq 0..Position
      BY <1>1 DEF Position, Cursor
    <2>4. committed = None /\ ~FromBeginning => folded \subseteq 0..Position
      BY <1>1 DEF Position, Cursor
    <2> QED BY <2>1, <2>2, <2>3, <2>4 DEF Cursor, AtMostOneIsReplayed
  <1>6. CASE Fold
    <2>1. /\ consumer'.pc = "committing" /\ consumer'.position = consumer.position + 1
          /\ consumer.position < Len(log)
      BY <1>6, FoldIs
    <2>2. /\ consumer.pc = "polling" /\ folded' = folded \cup {consumer.position}
          /\ UNCHANGED <<committed, log>>
      BY <1>6 DEF Fold
    <2>3. folded' \subseteq 0..consumer.position
      <3>1. consumer.position \in 0..consumer.position /\ folded \subseteq 0..consumer.position
        BY <1>1, <2>2 DEF Cursor
      <3> QED BY <2>2, <3>1
    <2>4. AtMostOneIsReplayed'
      BY <2>2, <2>3 DEF Cursor, AtMostOneIsReplayed
    <2>5. folded' \subseteq 0..(Len(log') - 1)
      BY <1>1, <2>1, <2>2, <2>3
    <2>6. committed' = None /\ FromBeginning => folded' \subseteq {0}
      BY <2>2 DEF Cursor
    <2>7. /\ committed' # None => consumer'.position = committed' + 1
          /\ consumer'.position - 1 = consumer.position
      BY <1>1, <2>1, <2>2 DEF Cursor
    <2> QED BY <2>1, <2>2, <2>3, <2>4, <2>5, <2>6, <2>7 DEF Cursor
  <1>7. CASE Commit
    <2>1. /\ consumer.pc = "committing" /\ committed' = consumer.position
          /\ consumer'.pc \in {"polling", "evaluating"} /\ consumer'.position = consumer.position
          /\ UNCHANGED <<folded, log>>
      BY <1>7 DEF Commit, state, Typed, TypeOK, Consumer
    <2>2. committed' # None
      BY <2>1, <1>1, <1>2 DEF Typed, TypeOK, Consumer
    <2>3. folded' \subseteq 0..consumer.position
      BY <1>1, <2>1 DEF Cursor
    <2>4. committed # None => committed' = committed + 1
      BY <2>1 DEF Cursor
    <2> QED BY <2>1, <2>2, <2>3, <2>4 DEF Cursor, AtMostOneIsReplayed
  <1>8. CASE Raise \/ Evaluate \/ End \/ Stop
    <2>1. UNCHANGED <<committed, folded, log>>
      BY <1>8 DEF Raise, Evaluate, End, Stop, state
    <2>2. \/ /\ consumer.pc = "evaluating" /\ consumer'.pc = "polling"
             /\ consumer'.position = consumer.position
          \/ consumer'.pc \in {"raised", "ended", "down"}
      <3>1. consumer \in Consumer
        BY DEF Typed, TypeOK
      <3>2. CASE Evaluate
        BY <3>1, <3>2 DEF Evaluate, Consumer
      <3>3. CASE Raise \/ End
        BY <3>1, <3>3 DEF Raise, End, Consumer
      <3>4. CASE Stop
        BY <3>4 DEF Stop, Down
      <3> QED BY <1>8, <3>2, <3>3, <3>4
    <2> QED BY <2>1, <2>2 DEF Cursor, AtMostOneIsReplayed
  <1> QED BY <1>3, <1>4, <1>5, <1>6, <1>7, <1>8 DEF Next, Consume

LEMMA CursorInit == Init => Cursor
  BY DEF Init, Cursor, AtMostOneIsReplayed, Down

\* Whatever the group's history, at most one message it folded is read again after a
\* stop: commit() is called, and waited for, after each message.
THEOREM OneIsReplayed == Spec => []AtMostOneIsReplayed
  <1>1. Spec => [](Typed /\ Cursor)
    BY CursorInit, CursorStep, TypeInit, TypeStep, PTL DEF Spec
  <1>2. Cursor => AtMostOneIsReplayed
    BY DEF Cursor
  <1> QED BY <1>1, <1>2, PTL

\* Once the group has an offset it moves by one message at a time and never back,
\* across any number of restarts.
THEOREM OffsetAdvances == Spec => OffsetOnlyAdvances
  <1>1. Spec => [](Typed /\ Cursor)
    BY CursorInit, CursorStep, TypeInit, TypeStep, PTL DEF Spec
  <1>2. Typed /\ Cursor /\ [Next]_vars
            => [committed' # committed /\ committed # None => committed' = committed + 1]_vars
    BY CursorStep
  <1> QED BY <1>1, <1>2, PTL DEF Spec, OffsetOnlyAdvances

-----------------------------------------------------------------------------
(* The group implements at-least-once delivery in order.                   *)

\* What is about to be committed was folded by the process that commits it.
Ready ==
    consumer.pc = "committing" =>
        consumer.position > 0 /\ consumer.position - 1 \in folded

LEMMA ReadyStep ==
    ASSUME Typed, Ready, [Next]_vars
    PROVE  Ready'
  <1>1. consumer.position \in Nat
    BY DEF Typed, TypeOK, Consumer, Offsets
  <1>2. CASE \/ \E v \in Versions : Deploy(v)
             \/ \E m \in Message : Produce(m)
             \/ UNCHANGED vars
    BY <1>2 DEF Deploy, Produce, vars, Ready
  <1>3. CASE Fold
    <2>1. consumer'.position = consumer.position + 1
      BY <1>3, FoldIs
    <2>2. consumer'.position > 0 /\ consumer'.position - 1 = consumer.position
      BY <1>1, <2>1
    <2> QED BY <1>3, <2>2 DEF Fold, Ready
  <1>4. CASE Start \/ Stop
    <2>1. CASE Start
      <3>1. consumer'.pc = "polling"
        BY <2>1 DEF Start, Down
      <3> QED BY <3>1 DEF Ready
    <2>2. CASE Stop
      <3>1. consumer'.pc = "down"
        BY <2>2 DEF Stop, Down
      <3> QED BY <3>1 DEF Ready
    <2> QED BY <1>4, <2>1, <2>2
  <1>5. CASE Raise \/ Commit \/ Evaluate \/ End
    BY <1>5 DEF Raise, Commit, Evaluate, End, Ready, Typed, TypeOK, Consumer
  <1> QED BY <1>2, <1>3, <1>4, <1>5 DEF Next, Consume

\* Folding a message handles it, committing acknowledges it; whatever else a process
\* does, or is done to it, the group does not notice.
LEMMA GroupStep ==
    ASSUME Typed, Cursor, Ready, [Next]_vars
    PROVE  [Group!Send \/ Group!Handle \/ Group!Acknowledge]_Group!vars
  <1>1. consumer.position \in Nat /\ Len(log) \in Nat
    BY DEF Typed, TypeOK, Consumer, Offsets
  <1>2. CASE \E m \in Message : Produce(m)
    <2>1. Len(log') = Len(log) + 1 /\ UNCHANGED <<folded, committed>>
      BY <1>2 DEF Produce, Typed, TypeOK
    <2> QED BY <2>1 DEF Group!Send
  <1>3. CASE Fold
    <2>1. /\ consumer.pc = "polling" /\ folded' = folded \cup {consumer.position}
          /\ UNCHANGED <<log, committed>> /\ consumer.position < Len(log)
      BY <1>3 DEF Fold
    <2>2. consumer.position \in 0..(Len(log) - 1)
      BY <1>1, <2>1
    <2>3. IF committed # None THEN consumer.position = committed
          ELSE FromBeginning => consumer.position = 0
      BY <2>1 DEF Cursor
    <2> QED BY <2>1, <2>2, <2>3 DEF Group!Handle
  <1>4. CASE Commit
    <2>1. /\ consumer.pc = "committing" /\ committed' = consumer.position
          /\ UNCHANGED <<log, folded>>
      BY <1>4 DEF Commit, state
    <2> DEFINE n == consumer.position - 1
    <2>2. n \in folded /\ committed' = n + 1
      BY <1>1, <2>1 DEF Ready
    <2>3. committed # None => n = committed
      <3>1. committed # None => consumer.position = committed + 1 /\ committed \in Nat
        BY <2>1 DEF Cursor, Typed, TypeOK, Offsets
      <3> QED BY <3>1
    <2> QED BY <2>1, <2>2, <2>3 DEF Group!Acknowledge
  <1>5. CASE \/ \E v \in Versions : Deploy(v)
             \/ Start \/ Raise \/ Evaluate \/ End \/ Stop \/ UNCHANGED vars
    <2>1. UNCHANGED <<log, folded, committed>>
      BY <1>5 DEF Deploy, Start, Raise, Evaluate, End, Stop, vars, state
    <2> QED BY <2>1 DEF Group!vars
  <1> QED BY <1>2, <1>3, <1>4, <1>5 DEF Next, Consume

\* However often processes of the group are killed, fail or are started again, at any
\* call, its topic is handled in order and at least once, and nothing is acknowledged
\* that was not handled.
THEOREM GroupDelivers == Spec => DeliversInOrder
  <1>1. Init => Ready /\ Group!Untouched
    BY DEF Init, Ready, Down, Group!Untouched
  <1>2. Spec => [](Typed /\ Cursor /\ Ready)
    BY <1>1, ReadyStep, CursorInit, CursorStep, TypeInit, TypeStep, PTL DEF Spec
  <1>3. Typed /\ Cursor /\ Ready /\ [Next]_vars
            => [Group!Send \/ Group!Handle \/ Group!Acknowledge]_Group!vars
    BY GroupStep
  <1> QED BY <1>1, <1>2, <1>3, PTL DEF Spec, DeliversInOrder, Group!Spec

-----------------------------------------------------------------------------
(* The final verdict.                                                      *)

LEMMA FinalStep ==
    ASSUME Typed, FinalVerdictIsTold, [Next]_vars
    PROVE  FinalVerdictIsTold'
  <1>1. CASE \/ \E v \in Versions : Deploy(v)
             \/ \E m \in Message : Produce(m)
             \/ UNCHANGED vars
    <2>1. UNCHANGED <<consumer, windows>>
      BY <1>1 DEF Deploy, Produce, vars
    <2> QED BY <2>1, SameCompare DEF FinalVerdictIsTold
  <1>2. CASE Start \/ Fold \/ Stop
    <2>1. CASE Fold
      BY <2>1, FoldIs DEF FinalVerdictIsTold
    <2>2. CASE Start
      <3>1. consumer'.pc = "polling"
        BY <2>2 DEF Start, Down
      <3> QED BY <3>1 DEF FinalVerdictIsTold
    <2>3. CASE Stop
      <3>1. consumer'.pc = "down"
        BY <2>3 DEF Stop, Down
      <3> QED BY <3>1 DEF FinalVerdictIsTold
    <2> QED BY <1>2, <2>1, <2>2, <2>3
  <1>3. CASE Raise \/ Commit \/ Evaluate
    <2>1. consumer'.pc # "ended"
      BY <1>3 DEF Raise, Commit, Evaluate, Typed, TypeOK, Consumer
    <2> QED BY <2>1 DEF FinalVerdictIsTold
  <1>4. CASE End
    <2>1. consumer'.last = Told /\ UNCHANGED windows
      BY <1>4 DEF End, state, Typed, TypeOK, Consumer
    <2>2. Compare' = Compare
      BY <2>1, SameCompare
    <2> QED BY <2>1, <2>2 DEF FinalVerdictIsTold, Told
  <1> QED BY <1>1, <1>2, <1>3, <1>4 DEF Next, Consume

\* A consumer that ends by itself has told the verdict of its windows, if they have
\* one, even when the last spans never filled a batch, and wherever it began to read.
THEOREM VerdictsAreTold == Spec => []FinalVerdictIsTold
  <1>1. Init => FinalVerdictIsTold
    BY DEF Init, FinalVerdictIsTold, Down
  <1> QED BY <1>1, FinalStep, TypeInit, TypeStep, PTL DEF Spec

-----------------------------------------------------------------------------
(* The windows.                                                            *)

\* deque(maxlen = n).append() of a later offset.
LEMMA KeepLast ==
    ASSUME NEW n \in Nat \ {0}, NEW s \in Seq(Offsets), NEW O \in SUBSET Offsets,
           NEW o \in Offsets, \A x \in O : x < o, AreLast(s, n, O)
    PROVE  AreLast(Keep(s, o, n), n, O \cup {o})
  <1> DEFINE t == Keep(s, o, n)
  <1>0. Offsets \subseteq Nat
    BY BoundsAssumption DEF Offsets
  <1>1. /\ Len(s) \in Nat /\ DOMAIN s = 1..Len(s) /\ \A k \in 1..Len(s) : s[k] \in Nat
        /\ o \in Nat /\ \A x \in O : x \in Nat
    <2>1. Len(s) \in Nat /\ DOMAIN s = 1..Len(s) /\ \A k \in 1..Len(s) : s[k] \in Offsets
      OBVIOUS
    <2>2. o \in Nat /\ \A x \in O : x \in Nat
      BY <1>0
    <2> HIDE DEF t
    <2> QED BY <1>0, <2>1, <2>2
  <1>2. /\ Len(s) <= n
        /\ \A k \in 1..Len(s) : s[k] \in O
        /\ \A j, k \in 1..Len(s) : j < k => s[j] < s[k]
        /\ \A x \in O : (\A k \in 1..Len(s) : s[k] # x) => Len(s) = n /\ x < s[1]
    BY <1>1 DEF AreLast
  <1>3. CASE Len(s) < n
    <2>1. /\ Len(t) = Len(s) + 1 /\ DOMAIN t = 1..(Len(s) + 1)
          /\ t[Len(s) + 1] = o /\ \A k \in 1..Len(s) : t[k] = s[k]
      BY <1>1, <1>3 DEF Keep
    <2> HIDE DEF t
    <2>2. \A k \in DOMAIN t : t[k] \in O \cup {o}
      <3> SUFFICES ASSUME NEW k \in DOMAIN t PROVE t[k] \in O \cup {o}
        OBVIOUS
      <3>1. CASE k = Len(s) + 1
        BY <2>1, <3>1
      <3>2. CASE k # Len(s) + 1
        <4>1. k \in 1..Len(s)
          BY <1>1, <2>1, <3>2
        <4> QED BY <1>2, <2>1, <4>1
      <3> QED BY <3>1, <3>2
    <2>3. \A j, k \in DOMAIN t : j < k => t[j] < t[k]
      <3> SUFFICES ASSUME NEW j \in DOMAIN t, NEW k \in DOMAIN t, j < k PROVE t[j] < t[k]
        OBVIOUS
      <3>0. j \in 1..Len(s)
        BY <1>1, <2>1
      <3>1. t[j] = s[j] /\ s[j] \in O
        BY <1>2, <2>1, <3>0
      <3>2. CASE k = Len(s) + 1
        BY <2>1, <3>1, <3>2
      <3>3. CASE k # Len(s) + 1
        <4>1. k \in 1..Len(s) /\ t[k] = s[k]
          BY <1>1, <2>1, <3>3
        <4> QED BY <1>2, <3>0, <3>1, <4>1
      <3> QED BY <3>2, <3>3
    <2>4. \A x \in O \cup {o} : \E k \in DOMAIN t : t[k] = x
      <3> SUFFICES ASSUME NEW x \in O \cup {o} PROVE \E k \in DOMAIN t : t[k] = x
        OBVIOUS
      <3>1. CASE x = o
        BY <1>1, <2>1, <3>1
      <3>2. CASE x \in O
        <4>1. PICK k \in 1..Len(s) : s[k] = x
          BY <1>2, <1>3, <3>2
        <4> QED BY <1>1, <2>1, <4>1
      <3> QED BY <3>1, <3>2
    <2>5. Len(t) <= n
      BY <1>1, <1>3, <2>1
    <2>6. AreLast(t, n, O \cup {o})
      BY <2>2, <2>3, <2>4, <2>5 DEF AreLast
    <2> QED BY <2>6 DEF t
  <1>4. CASE Len(s) = n
    <2>1. /\ Len(t) = n /\ DOMAIN t = 1..n
          /\ t[n] = o /\ \A k \in 1..(n - 1) : t[k] = s[k + 1]
      <3>1. s # <<>> /\ Tail(s) \in Seq(Offsets) /\ Len(Tail(s)) = n - 1
        BY <1>1, <1>4
      <3>2. \A k \in 1..(n - 1) : Tail(s)[k] = s[k + 1]
        BY <1>1, <1>4, <3>1
      <3>3. t = Append(Tail(s), o)
        BY <1>4 DEF Keep
      <3> QED BY <3>1, <3>2, <3>3
    <2> HIDE DEF t
    <2>2. \A k \in DOMAIN t : t[k] \in O \cup {o}
      <3> SUFFICES ASSUME NEW k \in DOMAIN t PROVE t[k] \in O \cup {o}
        OBVIOUS
      <3>1. CASE k = n
        BY <2>1, <3>1
      <3>2. CASE k # n
        <4>1. k \in 1..(n - 1) /\ k + 1 \in 1..Len(s)
          BY <1>4, <2>1, <3>2
        <4> QED BY <1>2, <2>1, <4>1
      <3> QED BY <3>1, <3>2
    <2>3. \A j, k \in DOMAIN t : j < k => t[j] < t[k]
      <3> SUFFICES ASSUME NEW j \in DOMAIN t, NEW k \in DOMAIN t, j < k PROVE t[j] < t[k]
        OBVIOUS
      <3>1. j \in 1..(n - 1) /\ j + 1 \in 1..Len(s) /\ t[j] = s[j + 1] /\ s[j + 1] \in O
        BY <1>2, <1>4, <2>1
      <3>2. CASE k = n
        BY <2>1, <3>1, <3>2
      <3>3. CASE k # n
        <4>1. k \in 1..(n - 1) /\ k + 1 \in 1..Len(s) /\ t[k] = s[k + 1]
          BY <1>4, <2>1, <3>3
        <4> QED BY <1>2, <3>1, <4>1
      <3> QED BY <3>2, <3>3
    <2>4. \A x \in O \cup {o} : (\A k \in DOMAIN t : t[k] # x) => x < t[1]
      <3> SUFFICES ASSUME NEW x \in O \cup {o}, \A k \in DOMAIN t : t[k] # x PROVE x < t[1]
        OBVIOUS
      <3>1. x # o /\ x \in O
        BY <2>1
      <3>2. x <= s[1]
        <4>1. \A k \in 2..n : s[k] # x
          <5> SUFFICES ASSUME NEW k \in 2..n PROVE s[k] # x
            OBVIOUS
          <5>1. k - 1 \in 1..(n - 1) /\ (k - 1) + 1 = k
            OBVIOUS
          <5>2. t[k - 1] = s[k] /\ k - 1 \in DOMAIN t
            BY <2>1, <5>1
          <5> QED BY <5>2
        <4>2. CASE s[1] = x
          BY <1>1, <3>1, <4>2
        <4>3. CASE s[1] # x
          <5>1. \A k \in 1..Len(s) : s[k] # x
            BY <1>4, <4>1, <4>3
          <5> QED BY <1>1, <1>2, <1>4, <3>1, <5>1
        <4> QED BY <4>2, <4>3
      <3>3. CASE n = 1
        BY <2>1, <3>1, <3>3
      <3>4. CASE n # 1
        <4>1. t[1] = s[2] /\ s[1] < s[2] /\ s[1] \in Nat /\ s[2] \in Nat /\ x \in Nat
          <5>1. 1 \in 1..(n - 1) /\ 1 \in 1..Len(s) /\ 2 \in 1..Len(s)
            BY <1>4, <3>4
          <5>2. t[1] = s[1 + 1]
            BY <2>1, <5>1
          <5>3. s[1] < s[2]
            BY <1>2, <5>1
          <5>4. s[1] \in Nat /\ s[2] \in Nat
            BY <1>1, <5>1
          <5>5. x \in Nat
            BY <1>1, <3>1
          <5> QED BY <5>2, <5>3, <5>4, <5>5
        <4> QED BY <3>2, <4>1
      <3> QED BY <3>3, <3>4
    <2>5. AreLast(t, n, O \cup {o})
      BY <2>1, <2>2, <2>3, <2>4 DEF AreLast
    <2> QED BY <2>5 DEF t
  <1>5. Len(s) < n \/ Len(s) = n
    <2>1. Len(s) \in Nat
      OBVIOUS
    <2>2. Len(s) <= n
      BY <1>2
    <2> QED BY <2>1, <2>2
  <1> QED BY <1>3, <1>4, <1>5

LEMMA ReadOfType ==
    ASSUME Typed, NEW v, NEW part
    PROVE  /\ ReadOf(v, part) \in SUBSET Offsets
           /\ \A o \in ReadOf(v, part) : o < consumer.position
  <1>1. consumer.start \in Nat /\ consumer.position \in Nat /\ Len(log) \in Nat /\ MaxLog \in Nat
    BY ConsumerType DEF Typed
  <1>2. consumer.position <= MaxLog
    BY <1>1 DEF Typed, Places
  <1> QED BY <1>1, <1>2 DEF ReadOf, Offsets

\* What is produced behind the position changes nothing.
LEMMA ReadOfSame ==
    ASSUME Typed, NEW v, NEW part,
           consumer'.start = consumer.start, consumer'.position = consumer.position,
           \A k \in 1..Len(log) : log'[k] = log[k]
    PROVE  ReadOf(v, part)' = ReadOf(v, part)
  <1>1. consumer.start \in Nat /\ consumer.position \in Nat /\ Len(log) \in Nat
    BY ConsumerType DEF Typed
  <1>2. \A o \in consumer.start..(consumer.position - 1) : o + 1 \in 1..Len(log)
    BY <1>1 DEF Typed, Places
  <1> QED BY <1>2 DEF ReadOf

LEMMA ReadOfStart ==
    ASSUME Typed, Start, NEW v, NEW part
    PROVE  ReadOf(v, part)' = {}
  <1>1. consumer'.start = Position /\ consumer'.position = Position
    BY DEF Start, Down
  <1>2. Position \in Nat
    BY ConsumerType DEF Position, Typed, TypeOK, Offsets
  <1> QED BY <1>1, <1>2 DEF ReadOf

LEMMA ReadOfFold ==
    ASSUME Typed, Fold, NEW v, NEW part
    PROVE  ReadOf(v, part)' = IF Polled = [version |-> v, part |-> part]
                              THEN ReadOf(v, part) \cup {consumer.position}
                              ELSE ReadOf(v, part)
  <1>1. consumer.start \in Nat /\ consumer.position \in Nat
    BY ConsumerType DEF Typed
  <1>2. consumer.start <= consumer.position
    BY DEF Typed, Places
  <1>3. consumer'.start = consumer.start /\ consumer'.position = consumer.position + 1
    BY FoldIs
  <1>4. log' = log
    BY DEF Fold
  <1>5. consumer'.start..(consumer'.position - 1)
            = (consumer.start..(consumer.position - 1)) \cup {consumer.position}
    BY <1>1, <1>2, <1>3
  <1> QED BY <1>4, <1>5 DEF ReadOf, Polled

\* A counted message is one span of one version.
LEMMA CountedIs ==
    ASSUME Typed, Fold
    PROVE  /\ Counts => Polled = [version |-> Polled.version, part |-> Polled.part]
           /\ \A v : ~Counts => /\ Polled # [version |-> v, part |-> "server"]
                                /\ Polled # [version |-> v, part |-> "db"]
  BY FoldIs DEF Message, Counts

LEMMA NothingIsLast == \A n \in Nat : AreLast(<<>>, n, {})
  BY DEF AreLast

LEMMA WindowsStep ==
    ASSUME Typed, WindowsAreExact, [Next]_vars
    PROVE  WindowsAreExact'
  <1> DEFINE Exact(v) == /\ AreLast(windows[v].server, MaxSamples, ReadOf(v, "server"))
                         /\ AreLast(windows[v].db, MaxSamples * 60, ReadOf(v, "db"))
  <1>0. MaxSamples \in Nat \ {0} /\ MaxSamples * 60 \in Nat \ {0}
    BY BoundsAssumption
  <1>1. ASSUME UNCHANGED windows, NEW v \in Versions, Exact(v),
               consumer'.start = consumer.start, consumer'.position = consumer.position,
               \A k \in 1..Len(log) : log'[k] = log[k]
        PROVE  Exact(v)'
    <2>1. ReadOf(v, "server")' = ReadOf(v, "server") /\ ReadOf(v, "db")' = ReadOf(v, "db")
      BY <1>1, ReadOfSame
    <2> QED BY <1>1, <2>1
  <1> SUFFICES ASSUME consumer'.pc # "down", NEW v \in Versions PROVE Exact(v)'
    BY DEF WindowsAreExact
  <1>2. consumer.pc # "down" => Exact(v)
    BY DEF WindowsAreExact
  <1>3. CASE (\E u \in Versions : Deploy(u)) \/ UNCHANGED vars
    <2>1. UNCHANGED <<windows, consumer, log>>
      BY <1>3 DEF Deploy, vars
    <2> QED BY <1>1, <1>2, <2>1
  <1>4. CASE \E m \in Message : Produce(m)
    <2>1. PICK m \in Message : Produce(m)
      BY <1>4
    <2>2. UNCHANGED <<windows, consumer>> /\ log' = Append(log, m)
      BY <2>1 DEF Produce
    <2>3. \A k \in 1..Len(log) : log'[k] = log[k]
      BY <2>2 DEF Typed, TypeOK
    <2> QED BY <1>1, <1>2, <2>2, <2>3
  <1>5. CASE Start
    <2>1. ReadOf(v, "server")' = {} /\ ReadOf(v, "db")' = {}
      BY <1>5, ReadOfStart
    <2>2. windows'[v].server = <<>> /\ windows'[v].db = <<>>
      BY <1>5 DEF Start, NoWindow
    <2> QED BY <1>0, <2>1, <2>2, NothingIsLast
  <1>6. CASE Fold
    <2>1. Exact(v) /\ consumer.position \in Offsets /\ consumer.position + 1 \in Offsets
      BY <1>2, <1>6, FoldIs DEF Fold
    <2>2. windows[v] \in Window
      BY DEF Typed, TypeOK
    <2>3. windows[v].server \in Seq(Offsets) /\ windows[v].db \in Seq(Offsets)
      BY <2>2 DEF Window
    <2>4. CASE Counts /\ v = Polled.version
      <3>1. windows'[v] = Observed(windows[v], Polled.part, consumer.position)
        BY <1>6, <2>4 DEF Fold, Typed, TypeOK
      <3>2. Polled = [version |-> v, part |-> Polled.part] /\ Polled.part \in {"server", "db"}
        BY <1>6, <2>4, CountedIs DEF Counts
      <3>3. CASE Polled.part = "server"
        <4>1. /\ windows'[v].server = Keep(windows[v].server, consumer.position, MaxSamples)
              /\ windows'[v].db = windows[v].db
          BY <2>1, <2>2, <3>1, <3>3, ObservedType
        <4>2. /\ ReadOf(v, "server")' = ReadOf(v, "server") \cup {consumer.position}
              /\ ReadOf(v, "db")' = ReadOf(v, "db")
          BY <1>6, <3>2, <3>3, ReadOfFold
        <4>3. AreLast(Keep(windows[v].server, consumer.position, MaxSamples), MaxSamples,
                      ReadOf(v, "server") \cup {consumer.position})
          BY <1>0, <2>1, <2>3, ReadOfType, KeepLast
        <4> QED BY <2>1, <4>1, <4>2, <4>3
      <3>4. CASE Polled.part = "db"
        <4>1. /\ windows'[v].db = Keep(windows[v].db, consumer.position, MaxSamples * 60)
              /\ windows'[v].server = windows[v].server
          BY <2>1, <2>2, <3>1, <3>4, ObservedType
        <4>2. /\ ReadOf(v, "db")' = ReadOf(v, "db") \cup {consumer.position}
              /\ ReadOf(v, "server")' = ReadOf(v, "server")
          BY <1>6, <3>2, <3>4, ReadOfFold
        <4>3. AreLast(Keep(windows[v].db, consumer.position, MaxSamples * 60), MaxSamples * 60,
                      ReadOf(v, "db") \cup {consumer.position})
          BY <1>0, <2>1, <2>3, ReadOfType, KeepLast
        <4> QED BY <2>1, <4>1, <4>2, <4>3
      <3> QED BY <3>2, <3>3, <3>4
    <2>5. CASE ~(Counts /\ v = Polled.version)
      <3>1. windows'[v] = windows[v]
        BY <1>6, <2>5 DEF Fold, Typed, TypeOK
      <3>2. /\ Polled # [version |-> v, part |-> "server"]
            /\ Polled # [version |-> v, part |-> "db"]
        BY <1>6, <2>5, CountedIs
      <3>3. ReadOf(v, "server")' = ReadOf(v, "server") /\ ReadOf(v, "db")' = ReadOf(v, "db")
        BY <1>6, <3>2, ReadOfFold
      <3> QED BY <2>1, <3>1, <3>3
    <2> QED BY <2>4, <2>5
  <1>7. CASE Raise \/ Commit \/ Evaluate \/ End \/ Stop
    <2>1. Down.pc = "down"
      BY DEF Down
    <2>2. /\ UNCHANGED <<log, windows>> /\ consumer.pc # "down"
          /\ consumer'.start = consumer.start /\ consumer'.position = consumer.position
      BY <1>7, <2>1, TypeOther
    <2> QED BY <1>1, <1>2, <2>2
  <1> QED BY <1>3, <1>4, <1>5, <1>6, <1>7 DEF Next, Consume

\* Wherever a process begins to read and however often it is stopped, its windows are
\* exactly the newest samples of each version it has read, in order and each once: what
\* is replayed is in no window twice.
THEOREM WindowsHoldWhatWasRead == Spec => []WindowsAreExact
  <1>1. Init => WindowsAreExact
    <2>1. Down.pc = "down"
      BY DEF Down
    <2> QED BY <2>1 DEF Init, WindowsAreExact
  <1> QED BY <1>1, WindowsStep, TypeInit, TypeStep, PTL DEF Spec

\* The last n of some numbers are also the last n of them and any smaller ones.
LEMMA LastOfMore ==
    ASSUME NEW n \in Nat \ {0}, NEW s \in Seq(Offsets), NEW R \in SUBSET Offsets,
           NEW E \in SUBSET Offsets, R \subseteq E, \A e \in E \ R : \A r \in R : e < r,
           AreLast(s, n, R), Len(s) = n
    PROVE  AreLast(s, n, E)
  <1>1. 1 \in DOMAIN s /\ s[1] \in R
    BY DEF AreLast
  <1>2. ASSUME NEW o \in E, \A k \in DOMAIN s : s[k] # o
        PROVE  Len(s) = n /\ o < s[1]
    BY <1>1, <1>2 DEF AreLast
  <1> QED BY <1>2 DEF AreLast

LEMMA ReadIsRecent ==
    ASSUME Typed, NEW v, NEW part
    PROVE  /\ ReadOf(v, part) \in SUBSET Offsets /\ EverRead(v, part) \in SUBSET Offsets
           /\ ReadOf(v, part) \subseteq EverRead(v, part)
           /\ \A e \in EverRead(v, part) \ ReadOf(v, part) : \A r \in ReadOf(v, part) : e < r
  <1>1. /\ consumer.start \in Nat /\ consumer.position \in Nat /\ Len(log) \in Nat
        /\ MaxLog \in Nat /\ consumer.position <= MaxLog
    BY ConsumerType DEF Typed, Places
  <1>2. EverRead(v, part) \in SUBSET Offsets
    BY <1>1 DEF EverRead, Offsets
  <1>3. ReadOf(v, part) = {o \in EverRead(v, part) : consumer.start <= o}
    BY <1>1 DEF EverRead, ReadOf
  <1>4. Offsets \subseteq Nat
    BY <1>1 DEF Offsets
  <1>5. ReadOf(v, part) \subseteq EverRead(v, part)
    BY <1>3
  <1>6. \A e \in EverRead(v, part) \ ReadOf(v, part) : \A r \in ReadOf(v, part) : e < r
    <2> DEFINE all == EverRead(v, part)
               read == ReadOf(v, part)
    <2>1. read = {o \in all : consumer.start <= o} /\ all \subseteq Nat
      BY <1>2, <1>3, <1>4
    <2> HIDE DEF all, read
    <2> SUFFICES ASSUME NEW e \in all \ read, NEW r \in read PROVE e < r
      BY DEF all, read
    <2>2. e \in Nat /\ r \in Nat /\ ~(consumer.start <= e) /\ consumer.start <= r
      BY <2>1
    <2> QED BY <1>1, <2>2
  <1> QED BY <1>2, <1>5, <1>6

\* What a restart lost is made up for by max_samples new requests of a version: its
\* window is then the one of a consumer that was never stopped.
THEOREM RestartsAreForgotten == Spec => []FullWindowsRecover
  <1>1. Typed /\ WindowsAreExact => FullWindowsRecover
    <2> SUFFICES ASSUME Typed, WindowsAreExact, consumer.pc # "down", NEW v \in Versions
                 PROVE  /\ Len(windows[v].server) = MaxSamples =>
                               AreLast(windows[v].server, MaxSamples, EverRead(v, "server"))
                        /\ Len(windows[v].db) = MaxSamples * 60 =>
                               AreLast(windows[v].db, MaxSamples * 60, EverRead(v, "db"))
      BY DEF FullWindowsRecover
    <2>1. MaxSamples \in Nat \ {0} /\ MaxSamples * 60 \in Nat \ {0}
      BY BoundsAssumption
    <2>2. windows[v].server \in Seq(Offsets) /\ windows[v].db \in Seq(Offsets)
      BY DEF Typed, TypeOK, Window
    <2>3. /\ AreLast(windows[v].server, MaxSamples, ReadOf(v, "server"))
          /\ AreLast(windows[v].db, MaxSamples * 60, ReadOf(v, "db"))
      BY DEF WindowsAreExact
    <2> QED BY <2>1, <2>2, <2>3, ReadIsRecent, LastOfMore
  <1>2. Spec => []Typed
    BY TypeInit, TypeStep, PTL DEF Spec
  <1> QED BY <1>1, <1>2, WindowsHoldWhatWasRead, PTL

-----------------------------------------------------------------------------
(* The versions compared.                                                  *)

\* last_seen of a version is that of the last span counted of it.
SeenIsLast ==
    consumer.pc # "down" => \A v \in Versions :
        /\ windows[v].last_seen = 0 => CountedOf(v) = {}
        /\ windows[v].last_seen > 0 =>
               /\ windows[v].last_seen - 1 \in CountedOf(v)
               /\ \A o \in CountedOf(v) : o < windows[v].last_seen

LEMMA SeenStep ==
    ASSUME Typed, SeenIsLast, [Next]_vars
    PROVE  SeenIsLast'
  <1> DEFINE Last(v) ==
                 /\ windows[v].last_seen = 0 => CountedOf(v) = {}
                 /\ windows[v].last_seen > 0 =>
                        /\ windows[v].last_seen - 1 \in CountedOf(v)
                        /\ \A o \in CountedOf(v) : o < windows[v].last_seen
  <1>1. ASSUME UNCHANGED windows, NEW v \in Versions, Last(v),
               consumer'.start = consumer.start, consumer'.position = consumer.position,
               \A k \in 1..Len(log) : log'[k] = log[k]
        PROVE  Last(v)'
    <2>1. CountedOf(v)' = CountedOf(v)
      BY <1>1, ReadOfSame DEF CountedOf
    <2> QED BY <1>1, <2>1
  <1> SUFFICES ASSUME consumer'.pc # "down", NEW v \in Versions PROVE Last(v)'
    BY DEF SeenIsLast
  <1>2. consumer.pc # "down" => Last(v)
    BY DEF SeenIsLast
  <1>3. CASE (\E u \in Versions : Deploy(u)) \/ UNCHANGED vars
    <2>1. UNCHANGED <<windows, consumer, log>>
      BY <1>3 DEF Deploy, vars
    <2> QED BY <1>1, <1>2, <2>1
  <1>4. CASE \E m \in Message : Produce(m)
    <2>1. PICK m \in Message : Produce(m)
      BY <1>4
    <2>2. UNCHANGED <<windows, consumer>> /\ log' = Append(log, m)
      BY <2>1 DEF Produce
    <2>3. \A k \in 1..Len(log) : log'[k] = log[k]
      BY <2>2 DEF Typed, TypeOK
    <2> QED BY <1>1, <1>2, <2>2, <2>3
  <1>5. CASE Start
    <2>1. CountedOf(v)' = {}
      BY <1>5, ReadOfStart DEF CountedOf
    <2>2. windows'[v].last_seen = 0
      BY <1>5 DEF Start, NoWindow
    <2> QED BY <2>1, <2>2
  <1>6. CASE Fold
    <2>1. Last(v) /\ consumer.position \in Offsets /\ consumer.position + 1 \in Offsets
      BY <1>2, <1>6, FoldIs DEF Fold
    <2>2. windows[v] \in Window
      BY DEF Typed, TypeOK
    <2>3. CASE Counts /\ v = Polled.version
      <3>1. windows'[v] = Observed(windows[v], Polled.part, consumer.position)
        BY <1>6, <2>3 DEF Fold, Typed, TypeOK
      <3>2. Polled = [version |-> v, part |-> Polled.part] /\ Polled.part \in {"server", "db"}
        BY <1>6, <2>3, CountedIs DEF Counts
      <3>3. windows'[v].last_seen = consumer.position + 1
        BY <2>1, <2>2, <3>1, <3>2, ObservedType
      <3>4. CountedOf(v)' = CountedOf(v) \cup {consumer.position}
        BY <1>6, <3>2, ReadOfFold DEF CountedOf
      <3>5. \A o \in CountedOf(v) : o < consumer.position /\ o \in Offsets
        BY ReadOfType DEF CountedOf
      <3>6. consumer.position \in Nat /\ Offsets \subseteq Nat
        BY <2>1, BoundsAssumption DEF Offsets
      <3>7. windows'[v].last_seen # 0 /\ windows'[v].last_seen - 1 = consumer.position
        BY <3>3, <3>6
      <3>8. \A o \in CountedOf(v)' : o < windows'[v].last_seen
        <4>1. \A o \in CountedOf(v) \cup {consumer.position} : o < consumer.position + 1
          <5> SUFFICES ASSUME NEW o \in CountedOf(v) \cup {consumer.position}
                       PROVE  o < consumer.position + 1
            OBVIOUS
          <5>1. CASE o \in CountedOf(v)
            <6>1. o < consumer.position /\ o \in Nat
              BY <3>5, <3>6, <5>1
            <6> QED BY <3>6, <6>1
          <5>2. CASE o = consumer.position
            BY <3>6, <5>2
          <5> QED BY <5>1, <5>2
        <4> QED BY <3>3, <3>4, <4>1
      <3> QED BY <3>4, <3>7, <3>8
    <2>4. CASE ~(Counts /\ v = Polled.version)
      <3>1. windows'[v] = windows[v]
        BY <1>6, <2>4 DEF Fold, Typed, TypeOK
      <3>2. /\ Polled # [version |-> v, part |-> "server"]
            /\ Polled # [version |-> v, part |-> "db"]
        BY <1>6, <2>4, CountedIs
      <3>3. CountedOf(v)' = CountedOf(v)
        BY <1>6, <3>2, ReadOfFold DEF CountedOf
      <3> QED BY <2>1, <3>1, <3>3
    <2> QED BY <2>3, <2>4
  <1>7. CASE Raise \/ Commit \/ Evaluate \/ End \/ Stop
    <2>1. Down.pc = "down"
      BY DEF Down
    <2>2. /\ UNCHANGED <<log, windows>> /\ consumer.pc # "down"
          /\ consumer'.start = consumer.start /\ consumer'.position = consumer.position
      BY <1>7, <2>1, TypeOther
    <2> QED BY <1>1, <1>2, <2>2
  <1> QED BY <1>3, <1>4, <1>5, <1>6, <1>7 DEF Next, Consume

\* A message is a span of one version.
LEMMA OffsetsAreOfOne ==
    ASSUME NEW u, NEW v, NEW o \in CountedOf(u), o \in CountedOf(v)
    PROVE  u = v
  BY DEF CountedOf, ReadOf

\* Whatever versions roll out and back, in whatever order their spans arrive, the
\* versions compared are the two whose spans this process counted last.
THEOREM LastTwoAreCompared == Spec => []NewestLast
  <1>1. Init => SeenIsLast
    <2>1. Down.pc = "down"
      BY DEF Down
    <2> QED BY <2>1 DEF Init, SeenIsLast
  <1>2. Spec => [](Typed /\ SeenIsLast)
    BY <1>1, SeenStep, TypeInit, TypeStep, PTL DEF Spec
  <1>3. Typed /\ SeenIsLast => NewestLast
    <2> SUFFICES ASSUME Typed, SeenIsLast, consumer.pc # "down"
                 PROVE  IF Compare = None
                        THEN \A u, v \in Versions :
                                 CountedOf(u) # {} /\ CountedOf(v) # {} => u = v
                        ELSE \E o \in CountedOf(Compare.base) :
                                 /\ \E n \in CountedOf(Compare.cand) : o < n
                                 /\ \A v \in Versions : \A n \in CountedOf(v) :
                                        o < n => v = Compare.cand
      BY DEF NewestLast
    <2> DEFINE at(v) == windows[v].last_seen
    <2>0. Offsets \subseteq Nat
      BY BoundsAssumption DEF Offsets
    <2>1. \A v \in Versions : at(v) \in Nat
      BY <2>0 DEF Typed, TypeOK, Window
    <2>2. \A v \in Versions : /\ CountedOf(v) # {} => v \in Seen
                              /\ v \in Seen => at(v) - 1 \in CountedOf(v)
                              /\ \A o \in CountedOf(v) : o < at(v) /\ o \in Nat
      <3> SUFFICES ASSUME NEW v \in Versions
                   PROVE  /\ CountedOf(v) # {} => v \in Seen
                          /\ v \in Seen => at(v) - 1 \in CountedOf(v)
                          /\ \A o \in CountedOf(v) : o < at(v) /\ o \in Nat
        OBVIOUS
      <3>1. \A o \in CountedOf(v) : o \in Nat
        BY <2>0, ReadOfType DEF CountedOf
      <3>2. v \in Seen <=> at(v) > 0
        BY DEF Seen
      <3>3. /\ at(v) = 0 => CountedOf(v) = {}
            /\ at(v) > 0 => at(v) - 1 \in CountedOf(v) /\ \A o \in CountedOf(v) : o < at(v)
        BY DEF SeenIsLast
      <3> QED BY <2>1, <3>1, <3>2, <3>3
    <2> HIDE DEF at
    <2>3. CASE Compare = None /\ \A u, v \in Seen : u = v
      BY <2>2, <2>3
    <2>4. CASE /\ Compare \in Verdict
               /\ Compare.base \in Seen /\ Compare.cand \in Seen /\ Compare.base # Compare.cand
               /\ \A u \in Seen : at(u) <= at(Compare.cand)
               /\ \A u \in Seen : u # Compare.cand => at(u) <= at(Compare.base)
      <3> DEFINE b == Compare.base
                 c == Compare.cand
                 o == at(b) - 1
                 n == at(c) - 1
      <3>1. b \in Versions /\ c \in Versions /\ b \in Seen /\ c \in Seen /\ b # c
        BY <2>4 DEF Seen
      <3>2. Compare # None
        BY <2>4, NoneAssumption
      <3>3. o \in CountedOf(b) /\ n \in CountedOf(c) /\ at(b) <= at(c)
        BY <2>2, <2>4, <3>1
      <3>4. o < n
        <4>1. o # n
          BY <3>1, <3>3, OffsetsAreOfOne
        <4> QED BY <2>1, <3>1, <3>3, <4>1
      <3>5. ASSUME NEW v \in Versions, NEW x \in CountedOf(v), o < x
            PROVE  v = c
        <4>1. v \in Seen /\ x < at(v) /\ x \in Nat
          BY <2>2, <3>5
        <4>2. at(v) > at(b)
          BY <2>1, <3>1, <3>5, <4>1
        <4> QED BY <2>1, <2>4, <3>1, <4>1, <4>2
      <3> QED BY <3>2, <3>3, <3>4, <3>5
    <2> QED BY <2>3, <2>4, CompareIs DEF Typed, at
  <1> QED BY <1>2, <1>3, PTL
=============================================================================
