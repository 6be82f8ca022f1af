-------------------------- MODULE MeasurementProofs --------------------------
(***************************************************************************)
(* Proofs about Measurement. The invariant behind them: in a settling      *)
(* count either nothing of the replay's own is on its way, or the polls    *)
(* that found the count unchanged are no more than the seconds since the   *)
(* last arrival, so that as many as settle it make a pause. Docker         *)
(* commands that fail can feign a quiet table only for as many polls as    *)
(* there are failures.                                                     *)
(***************************************************************************)
EXTENDS Measurement, FiniteSetTheorems, TLAPS

\* The operations of the requests sent so far.
Upto(n) == {replay} \X (1..n) \X (1..Work)
Measured == {"counting", "settling", "measuring"}
Waiting == {"rooting"} \cup Measured

\* No operation is missing or misplaced, and no request failed, so far.
Untroubled ==
    /\ ~disturbed /\ ~paused /\ faults <= Settle /\ failures = 0
    /\ \A n \in DOMAIN readings : Clean(readings[n])

Shape ==
    /\ failures <= sent
    /\ step = "ready" => sent = 0
    /\ step \in Waiting => sent = Repeat
    /\ step = "settling" => unchanged < Settle
    /\ Len(readings) = IF step = "judged" THEN 2 ELSE replay - 1

\* A span is in one place, of a request already sent, and in a sandbox of its own a
\* replay meets no operation but its own.
Placed ==
    /\ held \cap stored = {}
    /\ \A s \in held \cup stored : s[1] < replay \/ (s[1] = replay /\ s[2] <= sent)
    /\ experiment.replays[replay].fresh => Operations(held \cup stored) \subseteq Upto(sent)

\* Between the reset and the measurement, the operations of the requests sent are in
\* the table or on their way, and no others are.
Whereabouts ==
    /\ step = "ready" => Operations(held) = {}
    /\ step \in {"sending"} \cup Waiting => Operations(held \cup stored) = Upto(sent)

Quiet ==
    /\ step \in Measured => RootCount >= Repeat
    /\ step = "settling" =>
          /\ seen <= SpanCount
          /\ seen = 0 => unchanged < faults
          /\ (seen = SpanCount /\ Operations(held) # {}) => unchanged <= idle
    /\ step = "measuring" => Operations(held) = {}

Accurate ==
    \A n \in DOMAIN readings :
        /\ experiment.replays[n].fresh => readings[n].spans \subseteq OwnOperations(n)
        /\ Undisturbed(n) => Exact(n)

IInv ==
    /\ Shape
    /\ Placed
    /\ Untroubled => Whereabouts /\ Quiet
    /\ Accurate

-----------------------------------------------------------------------------
LEMMA WorkType ==
    ASSUME TypeOK
    PROVE  Work \in Nat /\ \A n \in 1..2 : experiment.replays[n].work \in Nat
<1>1. experiment.replays \in Seq(Replay) /\ Len(experiment.replays) = 2
  BY MeasurementAssumption DEF TypeOK
<1>2. \A n \in 1..2 : experiment.replays[n] \in Replay
  BY <1>1
<1> QED
  BY <1>2 DEF Replay, Work, TypeOK

LEMMA FiniteTriples ==
    ASSUME NEW A, NEW B, NEW C, IsFiniteSet(A), IsFiniteSet(B), IsFiniteSet(C)
    PROVE  IsFiniteSet(A \X B \X C)
<1> DEFINE S == (A \X B) \X C
           T == A \X B \X C
           f == [x \in S |-> <<x[1][1], x[1][2], x[2]>>]
<1>1. IsFiniteSet(S)
  BY FS_Product
<1>2. f \in [S -> T]
  OBVIOUS
<1>3. \A t \in T : \E x \in S : f[x] = t
  <2> SUFFICES ASSUME NEW t \in T PROVE \E x \in S : f[x] = t
    OBVIOUS
  <2>1. PICK a \in A, b \in B, c \in C : t = <<a, b, c>>
    OBVIOUS
  <2>2. <<<<a, b>>, c>> \in S /\ f[<<<<a, b>>, c>>] = t
    BY <2>1
  <2> QED
    BY <2>2
<1>4. f \in Surjection(S, T)
  BY <1>2, <1>3 DEF Surjection
<1> QED
  BY <1>1, <1>4, FS_Surjection

LEMMA SpanSets ==
    ASSUME TypeOK, NEW n \in Nat
    PROVE  /\ CheckRoots \subseteq Span /\ IsFiniteSet(CheckRoots)
           /\ Spans(replay, n, Work) \subseteq Span /\ IsFiniteSet(Spans(replay, n, Work))
<1>1. Work \in Nat /\ replay \in Nat /\ Checks \in Nat
  BY WorkType, MeasurementAssumption DEF TypeOK
<1>2. IsFiniteSet({0}) /\ IsFiniteSet({replay}) /\ IsFiniteSet({n})
  BY FS_Singleton
<1>3. IsFiniteSet(1..Checks) /\ IsFiniteSet(0..Work)
  BY <1>1, FS_Interval
<1>4. CheckRoots \subseteq Span /\ Spans(replay, n, Work) \subseteq Span
  BY <1>1, SMT DEF CheckRoots, Spans, Span
<1> QED
  BY <1>2, <1>3, <1>4, FiniteTriples DEF CheckRoots, Spans

LEMMA CountType ==
    ASSUME TypeOK
    PROVE  RootCount \in Nat /\ SpanCount \in Nat
<1>1. {s \in stored : IsRoot(s)} \subseteq stored
  OBVIOUS
<1>2. IsFiniteSet({s \in stored : IsRoot(s)})
  BY <1>1, FS_Subset DEF TypeOK
<1> QED
  BY <1>2, FS_CardinalityType DEF RootCount, SpanCount, TypeOK

LEMMA CountedType ==
    ASSUME TypeOK, NEW n \in Nat, NEW count \in Nat, Counted(count, n)
    PROVE  /\ faults' \in 0..MaxFaults
           /\ \/ n = count /\ faults' = faults
              \/ n = 0 /\ faults' = faults + 1
<1>1. faults \in 0..MaxFaults /\ MaxFaults \in Nat
  BY MeasurementAssumption DEF TypeOK
<1> QED
  BY <1>1 DEF Counted

LEMMA SecondType ==
    ASSUME TypeOK, Second
    PROVE  idle' \in 0..Settle /\ paused' \in BOOLEAN
<1>1. idle \in 0..Settle /\ Settle \in Nat
  BY MeasurementAssumption DEF TypeOK
<1>2. idle' = IF idle < Settle THEN idle + 1 ELSE idle
  BY DEF Second
<1>3. paused' \in BOOLEAN
  BY Zenon DEF Second, TypeOK
<1> QED
  BY <1>1, <1>2, <1>3

-----------------------------------------------------------------------------
(* Type correctness.                                                       *)

LEMMA TypeInit == Init => TypeOK /\ Shape
<1> SUFFICES ASSUME Init PROVE TypeOK /\ Shape
  OBVIOUS
<1>1. CheckRoots \subseteq Span /\ IsFiniteSet(CheckRoots)
  <2>1. Checks \in Nat
    BY MeasurementAssumption
  <2>2. IsFiniteSet({0})
    BY FS_Singleton
  <2>4. IsFiniteSet(1..Checks)
    BY <2>1, FS_Interval
  <2>3. CheckRoots \subseteq Span
    BY <2>1, SMT DEF CheckRoots, Span
  <2> QED
    BY <2>2, <2>3, <2>4, FiniteTriples DEF CheckRoots
<1>2. held \subseteq CheckRoots /\ stored \subseteq CheckRoots
  BY DEF Init
<1>3. IsFiniteSet(held) /\ IsFiniteSet(stored)
  BY <1>1, <1>2, FS_Subset
<1>4. readings \in Seq([spans : SUBSET Span, failures : 0..Repeat]) /\ Len(readings) = 0
  BY DEF Init
<1>6. /\ experiment \in Experiments /\ replay = 1 /\ step = "ready" /\ sent = 0 /\ failures = 0
      /\ seen = 0 /\ unchanged = 0 /\ waited = 0 /\ idle = 0 /\ faults = 0
  BY DEF Init
<1>7. held \in SUBSET Span /\ stored \in SUBSET Span
  BY <1>1, <1>2
<1>8. Repeat \in Nat /\ Settle \in Nat /\ Patience \in Nat /\ MaxFaults \in Nat
  BY MeasurementAssumption
<1>11. disturbed \in BOOLEAN /\ paused \in BOOLEAN
  BY Zenon DEF Init
<1>9. /\ experiment \in Experiments /\ step \in Steps
      /\ replay \in 1..2 /\ sent \in 0..Repeat /\ failures \in 0..Repeat
  BY <1>6, <1>8 DEF Steps
<1>10. /\ seen \in Nat /\ unchanged \in 0..Settle /\ waited \in 0..Patience
       /\ idle \in 0..Settle /\ faults \in 0..MaxFaults
  BY <1>6, <1>8
<1>5. TypeOK
  BY <1>3, <1>4, <1>7, <1>9, <1>10, <1>11 DEF TypeOK
<1> QED
  BY <1>4, <1>5, MeasurementAssumption DEF Init, Shape, Waiting, Measured
LEMMA TypeStep == TypeOK /\ Shape /\ [Next]_vars => TypeOK' /\ Shape'
<1> SUFFICES ASSUME TypeOK, Shape, [Next]_vars PROVE TypeOK' /\ Shape'
  OBVIOUS
<1> USE DEF Shape, Waiting, Measured, Steps
<1>0. /\ Repeat \in Nat \ {0} /\ Settle \in Nat \ {0} /\ Patience \in Nat
      /\ CheckRoots \subseteq Span /\ IsFiniteSet(CheckRoots)
  BY MeasurementAssumption, SpanSets
<1>1. CASE Reset
  <2>1. IsFiniteSet(stored')
    BY <1>1, FS_EmptySet DEF Reset, TypeOK
  <2>2. faults' \in 0..MaxFaults
    BY SMTT(30), <1>1, MeasurementAssumption DEF Reset, TypeOK
  <2> QED
    BY <1>0, <1>1, <2>1, <2>2 DEF Reset, TypeOK, requests, clock
<1>2. CASE Send
  <2> DEFINE spans == Spans(replay, sent + 1, Work)
  <2>1. sent + 1 \in Nat /\ sent + 1 \in 0..Repeat
    BY <1>0, <1>2 DEF Send, TypeOK
  <2>2. spans \subseteq Span /\ IsFiniteSet(spans)
    BY <2>1, SpanSets
  <2>3. failures' \in 0..Repeat /\ failures' <= sent'
    BY <1>0, <1>2 DEF Send, TypeOK
  <2>4. \E some \in SUBSET spans : held' = held \cup some
    BY <1>2 DEF Send
  <2>5. held' \in SUBSET Span /\ IsFiniteSet(held')
    <3>1. PICK some \in SUBSET spans : held' = held \cup some
      BY <2>4
    <3>2. IsFiniteSet(some)
      BY <2>2, FS_Subset
    <3> QED
      BY <2>2, <3>1, <3>2, FS_Union DEF TypeOK
  <2> QED
    BY <1>0, <1>2, <2>1, <2>3, <2>5 DEF Send, TypeOK, clock
<1>3. CASE BeginWait
  BY <1>0, <1>3 DEF BeginWait, TypeOK, requests, table
<1>4. CASE AwaitRoots
  <2>1. PICK n \in {RootCount, 0} :
           /\ Counted(RootCount, n)
           /\ IF n >= Delivered
              THEN step' = "counting" /\ waited' = 0 /\ UNCHANGED <<idle, paused>>
              ELSE Second /\ UNCHANGED step
    BY <1>4 DEF AwaitRoots
  <2>2. faults' \in 0..MaxFaults
    BY <2>1, CountType, CountedType
  <2>3. waited' \in 0..Patience /\ idle' \in 0..Settle /\ paused' \in BOOLEAN
    <3>1. waited' \in 0..Patience
      BY <1>0, <1>4, <2>1 DEF AwaitRoots, Second, TypeOK
    <3>2. Second \/ UNCHANGED <<idle, paused>>
      BY <1>4, <2>1 DEF AwaitRoots
    <3> QED
      BY <3>1, <3>2, SecondType DEF TypeOK
  <2>4. step' \in Steps /\ step' \in {"rooting", "counting"}
    BY <1>4, <2>1 DEF AwaitRoots
  <2> QED
    BY <1>0, <1>4, <2>2, <2>3, <2>4 DEF AwaitRoots, TypeOK, requests, table
<1>5. CASE AwaitSpans
  <2>1. PICK n \in {SpanCount, 0} :
           /\ Counted(SpanCount, n)
           /\ seen' = n
           /\ IF n >= Delivered
              THEN step' = "settling" /\ waited' = 0 /\ unchanged' = 0 /\ UNCHANGED <<idle, paused>>
              ELSE Second /\ UNCHANGED <<step, unchanged>>
    BY <1>5 DEF AwaitSpans
  <2>2. faults' \in 0..MaxFaults /\ seen' \in Nat
    BY <2>1, CountType, CountedType
  <2>3. waited' \in 0..Patience /\ idle' \in 0..Settle /\ paused' \in BOOLEAN
    <3>1. waited' \in 0..Patience
      BY <1>0, <1>5, <2>1 DEF AwaitSpans, Second, TypeOK
    <3>2. Second \/ UNCHANGED <<idle, paused>>
      BY <1>5, <2>1 DEF AwaitSpans
    <3> QED
      BY <3>1, <3>2, SecondType DEF TypeOK
  <2>4. /\ step' \in Steps /\ step' \in {"settling", "counting"}
        /\ unchanged' \in 0..Settle /\ step' = "settling" => unchanged' < Settle
    BY <1>0, <1>5, <2>1 DEF AwaitSpans, TypeOK
  <2> QED
    BY <1>0, <1>5, <2>2, <2>3, <2>4 DEF AwaitSpans, TypeOK, requests, table
<1>6. CASE PollSpans
  <2>1. PICK n \in {SpanCount, 0} :
           /\ Counted(SpanCount, n)
           /\ seen' = n
           /\ unchanged' = IF n = seen THEN unchanged + 1 ELSE 0
           /\ step' = IF unchanged' = Settle THEN "measuring" ELSE step
    BY <1>6 DEF PollSpans
  <2>2. faults' \in 0..MaxFaults /\ seen' \in Nat
    BY <2>1, CountType, CountedType
  <2>3. waited' \in 0..Patience /\ idle' \in 0..Settle /\ paused' \in BOOLEAN
    <3>1. waited' \in 0..Patience
      BY <1>0, <1>6, <2>1 DEF PollSpans, Second, TypeOK
    <3>2. Second \/ UNCHANGED <<idle, paused>>
      BY <1>6, <2>1 DEF PollSpans
    <3> QED
      BY <3>1, <3>2, SecondType DEF TypeOK
  <2>4. /\ step' \in Steps /\ step' \in {"settling", "measuring"}
        /\ unchanged' \in 0..Settle /\ step' = "settling" => unchanged' < Settle
    BY <1>0, <1>6, <2>1 DEF PollSpans, TypeOK
  <2> QED
    BY <1>0, <1>6, <2>2, <2>3, <2>4 DEF PollSpans, TypeOK, requests, table
<1>7. CASE Measure
  <2> DEFINE reading == [spans |-> Operations(stored), failures |-> failures]
  <2>1. reading \in [spans : SUBSET Span, failures : 0..Repeat]
    BY DEF TypeOK, Operations
  <2>2. /\ readings' \in Seq([spans : SUBSET Span, failures : 0..Repeat])
        /\ Len(readings') = Len(readings) + 1
    BY <1>7, <2>1 DEF Measure, TypeOK
  <2>3. \/ UNCHANGED <<held, stored>>
        \/ held' \in SUBSET CheckRoots /\ stored' = CheckRoots \ held'
    BY <1>7 DEF Measure
  <2>4. /\ held' \in SUBSET Span /\ IsFiniteSet(held')
        /\ stored' \in SUBSET Span /\ IsFiniteSet(stored')
    BY <1>0, <2>3, FS_Subset, FS_Difference DEF TypeOK
  <2>5. /\ step' \in {"ready", "judged"} /\ replay' \in 1..2
        /\ sent' \in 0..Repeat /\ failures' \in 0..Repeat /\ failures' <= sent'
        /\ step' = "ready" => sent' = 0 /\ replay' = 2 /\ replay = 1
        /\ step' = "judged" => replay = 2
    BY <1>0, <1>7 DEF Measure, TypeOK
  <2>6. seen' = 0 /\ unchanged' = 0 /\ waited' = 0 /\ idle' = 0
    BY <1>7 DEF Measure
  <2>7. UNCHANGED <<experiment, disturbed, paused, faults>>
    BY <1>7 DEF Measure
  <2>8. Len(readings) = replay - 1
    BY <1>7 DEF Measure
  <2>9. TypeOK'
    BY <1>0, <2>2, <2>4, <2>5, <2>6, <2>7 DEF TypeOK
  <2>10. Len(readings') = IF step' = "judged" THEN 2 ELSE replay' - 1
    <3>1. CASE step' = "ready"
      BY <2>2, <2>5, <2>8, <3>1
    <3>2. CASE step' = "judged"
      BY <2>2, <2>5, <2>8, <3>2
    <3> QED
      BY <2>5, <3>1, <3>2
  <2> QED
    BY <2>5, <2>9, <2>10
<1>8. CASE GiveUp
  BY <1>0, <1>8 DEF GiveUp, TypeOK, requests, table, clock
<1>9. CASE Arrive
  <2>1. PICK s \in held : held' = held \ {s} /\ stored' = stored \cup {s}
    BY <1>9 DEF Arrive
  <2>2. IsFiniteSet(held') /\ IsFiniteSet(stored')
    BY <2>1, FS_AddElement, FS_RemoveElement DEF TypeOK
  <2> QED
    BY <1>0, <1>9, <2>1, <2>2 DEF Arrive, TypeOK, requests
<1>10. CASE Lose
  <2>1. PICK s \in held : held' = held \ {s} /\ disturbed' = (disturbed \/ ~IsRoot(s))
    BY <1>10 DEF Lose
  <2>2. IsFiniteSet(held') /\ faults' \in 0..MaxFaults
    BY <1>10, <2>1, FS_RemoveElement, MeasurementAssumption DEF TypeOK, Lose
  <2>3. disturbed' \in BOOLEAN
    BY <2>1
  <2> QED
    BY <1>0, <1>10, <2>1, <2>2, <2>3 DEF Lose, TypeOK, requests, clock
<1>11. CASE UNCHANGED vars
  BY <1>11 DEF vars, TypeOK
<1> QED
  BY <1>1, <1>2, <1>3, <1>4, <1>5, <1>6, <1>7, <1>8, <1>9, <1>10, <1>11
     DEF Next, Driver, Over

\* The type invariant of a replay, for any experiments, bounds and delays.
THEOREM TypeCorrect == Spec => []TypeOK
<1>1. Spec => [](TypeOK /\ Shape)
  BY TypeInit, TypeStep, PTL DEF Spec
<1> QED
  BY <1>1, PTL

-----------------------------------------------------------------------------
(* A replay measures its own requests.                                     *)

LEMMA OperationsOf ==
    /\ \A A, B : Operations(A \cup B) = Operations(A) \cup Operations(B)
    /\ \A A : Operations(A) \subseteq A
    /\ Operations({}) = {}
BY DEF Operations

LEMMA NoOperationOfChecks == \A A \in SUBSET CheckRoots : Operations(A) = {}
BY DEF Operations, CheckRoots, IsRoot

\* What a request adds to the operations sent.
LEMMA UptoNext ==
    ASSUME TypeOK, NEW n \in Nat
    PROVE  Upto(n + 1) = Upto(n) \cup Operations(Spans(replay, n + 1, Work))
<1>1. Work \in Nat
  BY WorkType
<1>2. Operations(Spans(replay, n + 1, Work)) = {replay} \X {n + 1} \X (1..Work)
  <2>1. 1..Work = {o \in 0..Work : o # 0}
    BY <1>1
  <2> QED
    BY <2>1 DEF Operations, Spans, IsRoot
<1>3. 1..(n + 1) = (1..n) \cup {n + 1}
  OBVIOUS
<1> QED
  BY <1>2, <1>3 DEF Upto

LEMMA PlacedInit == Init => Placed
<1> SUFFICES ASSUME Init PROVE Placed
  OBVIOUS
<1>1. held \cap stored = {} /\ held \cup stored \subseteq CheckRoots /\ replay = 1
  BY DEF Init
<1>2. \A s \in CheckRoots : s[1] < 1
  BY DEF CheckRoots
<1>3. Operations(held \cup stored) = {}
  BY <1>1, NoOperationOfChecks
<1> QED
  BY <1>1, <1>2, <1>3 DEF Placed

\* Where spans are, after any step: this needs nothing of what may go wrong.
LEMMA PlacedStep ==
    ASSUME TypeOK, Shape, Placed, Next
    PROVE  Placed'
<1> USE DEF Placed
<1>0. /\ sent \in Nat /\ Repeat \in Nat /\ replay \in 1..2
      /\ \A s \in held \cup stored : s[1] \in Nat /\ s[2] \in Nat
  BY MeasurementAssumption DEF TypeOK, Span
<1>1. CASE Send
  <2> DEFINE spans == Spans(replay, sent + 1, Work)
  <2>1. PICK some \in SUBSET spans : held' = held \cup some
    BY <1>1 DEF Send
  <2>2. sent' = sent + 1 /\ UNCHANGED <<experiment, replay, stored>>
    BY <1>1 DEF Send
  <2>3. \A s \in spans : s[1] = replay /\ s[2] = sent + 1
    BY DEF Spans
  <2>4. held' \cap stored' = {}
    BY <1>0, <2>1, <2>2, <2>3
  <2>5. \A s \in held' \cup stored' : s[1] < replay' \/ (s[1] = replay' /\ s[2] <= sent')
    BY <1>0, <2>1, <2>2, <2>3
  <2>6. ASSUME experiment.replays[replay].fresh
        PROVE  Operations(held' \cup stored') \subseteq Upto(sent)'
    <3>1. Upto(sent)' = Upto(sent) \cup Operations(spans)
      <4>1. Upto(sent)' = Upto(sent + 1)
        BY <2>2 DEF Upto, Work
      <4> QED
        BY <1>0, <4>1, UptoNext
    <3>2. held' \cup stored' \subseteq (held \cup stored) \cup spans
      BY <2>1, <2>2
    <3>3. Operations(held' \cup stored') \subseteq Operations(held \cup stored) \cup Operations(spans)
      BY <3>2 DEF Operations
    <3> QED
      BY <2>6, <3>1, <3>3
  <2> QED
    BY <2>2, <2>4, <2>5, <2>6
<1>2. CASE Measure
  <2>1. CASE replay = 1 /\ experiment.replays[2].fresh
    <3>1. /\ replay' = 2 /\ held' \cap stored' = {} /\ held' \cup stored' \subseteq CheckRoots
      BY <1>2, <2>1 DEF Measure
    <3>2. \A s \in CheckRoots : s[1] < 2
      BY DEF CheckRoots
    <3>3. Operations(held' \cup stored') = {}
      BY <3>1, NoOperationOfChecks
    <3> QED
      BY <3>1, <3>2, <3>3
  <2>2. CASE replay = 1 /\ ~experiment.replays[2].fresh
    BY <1>0, <1>2, <2>2 DEF Measure
  <2>3. CASE replay # 1
    <3>1. UNCHANGED <<experiment, replay, sent, held, stored>>
      BY <1>2, <2>3 DEF Measure
    <3> QED
      BY <3>1 DEF Upto, Work
  <2> QED
    BY <2>1, <2>2, <2>3
<1>3. CASE ~Send /\ ~Measure
  <2>1. UNCHANGED <<experiment, replay, sent>>
    BY <1>3 DEF Next, Driver, Over, vars, Reset, BeginWait, AwaitRoots, AwaitSpans,
                PollSpans, GiveUp, Arrive, Lose, requests
  <2>2. held' \cup stored' \subseteq held \cup stored /\ held' \cap stored' = {}
    <3>1. CASE Arrive
      BY <3>1 DEF Arrive
    <3>2. CASE Lose
      BY <3>2 DEF Lose
    <3>3. CASE Reset
      BY <3>3 DEF Reset
    <3>4. CASE ~Arrive /\ ~Lose /\ ~Reset
      BY <1>3, <3>4 DEF Next, Driver, Over, vars, BeginWait, AwaitRoots, AwaitSpans,
                        PollSpans, GiveUp, table
    <3> QED
      BY <3>1, <3>2, <3>3, <3>4
  <2>3. Upto(sent)' = Upto(sent)
    BY <2>1 DEF Upto, Work
  <2>4. Operations(held' \cup stored') \subseteq Operations(held \cup stored)
    BY <2>2 DEF Operations
  <2> QED
    BY <2>1, <2>2, <2>3, <2>4
<1> QED
  BY <1>1, <1>2, <1>3

\* What went wrong stays so.
LEMMA FlagsStep ==
    ASSUME TypeOK, Next
    PROVE  (~disturbed' => ~disturbed) /\ (~paused' => ~paused) /\ (faults' <= Settle => faults <= Settle)
<1>0. faults \in Nat /\ Settle \in Nat
  BY MeasurementAssumption DEF TypeOK
<1>1. ~disturbed' => ~disturbed
  BY DEF Next, Driver, Over, vars, Reset, Send, BeginWait, AwaitRoots, AwaitSpans,
         PollSpans, Measure, GiveUp, Arrive, Lose, table
<1>2. ~paused' => ~paused
  BY DEF Next, Driver, Over, vars, Reset, Send, BeginWait, AwaitRoots, AwaitSpans,
         PollSpans, Measure, GiveUp, Arrive, Lose, clock, Second
<1>3. faults' = faults \/ faults' = faults + 1
  BY DEF Next, Driver, Over, vars, Reset, Send, BeginWait, AwaitRoots, AwaitSpans,
         PollSpans, Measure, GiveUp, Arrive, Lose, Counted
<1> QED
  BY <1>0, <1>1, <1>2, <1>3

LEMMA UntroubledStep ==
    ASSUME TypeOK, Shape, Next, Untroubled'
    PROVE  Untroubled
<1> USE DEF Untroubled
<1>1. CASE Measure
  <2> DEFINE reading == [spans |-> Operations(stored), failures |-> failures]
  <2>1. readings \in Seq([spans : SUBSET Span, failures : 0..Repeat])
    BY DEF TypeOK
  <2>2. /\ DOMAIN readings \subseteq DOMAIN readings'
        /\ \A n \in DOMAIN readings : readings'[n] = readings[n]
        /\ readings'[Len(readings) + 1] = reading /\ Len(readings) + 1 \in DOMAIN readings'
    BY <1>1, <2>1 DEF Measure
  <2>3. Clean(reading)
    BY <2>2
  <2>4. failures = 0
    BY <2>3 DEF Clean
  <2> QED
    BY <2>2, <2>4, FlagsStep
<1>2. CASE ~Measure
  <2>1. readings' = readings
    BY <1>2 DEF Next, Driver, Over, vars, Reset, Send, BeginWait, AwaitRoots, AwaitSpans,
                PollSpans, GiveUp, Arrive, Lose
  <2>2. failures' = failures \/ failures' = failures + 1
    BY <1>2 DEF Next, Driver, Over, vars, Reset, Send, BeginWait, AwaitRoots, AwaitSpans,
                PollSpans, GiveUp, Arrive, Lose, requests
  <2>3. failures \in Nat
    BY MeasurementAssumption DEF TypeOK
  <2> QED
    BY <2>1, <2>2, <2>3, FlagsStep
<1> QED
  BY <1>1, <1>2

\* What one step does to where the operations of an untroubled replay are.
LEMMA WhereaboutsStep ==
    ASSUME TypeOK, Shape, Untroubled, Whereabouts, Quiet, Next, Untroubled'
    PROVE  Whereabouts'
<1> USE DEF Whereabouts, Shape, Waiting, Measured
<1>0. sent \in Nat /\ Repeat \in Nat
  BY MeasurementAssumption DEF TypeOK
<1>1. CASE Reset
  <2>1. held' = held /\ step = "ready" /\ step' = "sending" /\ sent' = 0
    BY <1>1 DEF Reset, requests
  <2>2. Upto(sent)' = {}
    BY <2>1 DEF Upto
  <2>3. Operations(stored') = {}
    BY <1>1, OperationsOf DEF Reset, Untroubled
  <2>4. Operations(held' \cup stored') = {}
    BY <2>1, <2>3, OperationsOf
  <2> QED
    BY <2>1, <2>2, <2>4
<1>2. CASE Send
  <2> DEFINE spans == Spans(replay, sent + 1, Work)
  <2>1. held' = held \cup spans /\ stored' = stored /\ step = "sending" /\ step' = "sending"
        /\ sent' = sent + 1 /\ UNCHANGED <<replay, experiment>>
    <3>1. failures' = failures
      BY <1>2, MeasurementAssumption DEF Send, Untroubled, TypeOK
    <3> QED
      BY <1>0, <1>2, <3>1, MeasurementAssumption DEF Send, TypeOK
  <2>2. Upto(sent)' = Upto(sent) \cup Operations(spans)
    <3>1. Upto(sent)' = Upto(sent + 1)
      BY <2>1 DEF Upto, Work
    <3> QED
      BY <1>0, <3>1, UptoNext
  <2>3. Operations(held' \cup stored') = Operations(held \cup stored) \cup Operations(spans)
    BY <2>1 DEF Operations
  <2> QED
    BY <2>1, <2>2, <2>3
<1>3. CASE BeginWait \/ AwaitRoots \/ AwaitSpans \/ PollSpans \/ GiveUp
  <2>1. UNCHANGED <<held, stored, sent, replay, experiment>>
    BY <1>3 DEF BeginWait, AwaitRoots, AwaitSpans, PollSpans, GiveUp, requests, table
  <2>2. step \in {"sending"} \cup Waiting /\ step' \in Waiting \cup {"failed"}
    BY <1>3 DEF BeginWait, AwaitRoots, AwaitSpans, PollSpans, GiveUp
  <2>3. Upto(sent)' = Upto(sent)
    BY <2>1 DEF Upto, Work
  <2> QED
    BY <2>1, <2>2, <2>3
<1>4. CASE Measure
  <2>1. Operations(held) = {} /\ step' \in {"ready", "judged"}
    BY <1>4 DEF Measure, Quiet
  <2>2. UNCHANGED held \/ held' \in SUBSET CheckRoots
    BY <1>4 DEF Measure
  <2> QED
    BY <2>1, <2>2, NoOperationOfChecks
<1>5. CASE Arrive
  <2>1. held' \cup stored' = held \cup stored /\ held' \subseteq held
    BY <1>5 DEF Arrive
  <2>2. UNCHANGED <<step, sent, replay, experiment>>
    BY <1>5 DEF Arrive, requests
  <2>3. Upto(sent)' = Upto(sent) /\ Operations(held') \subseteq Operations(held)
    BY <2>1, <2>2 DEF Upto, Work, Operations
  <2> QED
    BY <2>1, <2>2, <2>3
<1>6. CASE Lose
  <2>1. PICK s \in held : held' = held \ {s} /\ disturbed' = (disturbed \/ ~IsRoot(s))
    BY <1>6 DEF Lose
  <2>2. IsRoot(s) /\ UNCHANGED <<step, sent, replay, experiment, stored>>
    BY <1>6, <2>1 DEF Lose, Untroubled, requests
  <2>3. /\ Upto(sent)' = Upto(sent) /\ Operations(held') = Operations(held)
        /\ Operations(held' \cup stored') = Operations(held \cup stored)
    BY <2>1, <2>2 DEF Upto, Work, Operations
  <2> QED
    BY <2>2, <2>3
<1>7. CASE Over
  <2>1. UNCHANGED <<held, stored, step, sent, replay, experiment>>
    BY <1>7 DEF Over, vars
  <2>2. Upto(sent)' = Upto(sent)
    BY <2>1 DEF Upto, Work
  <2> QED
    BY <2>1, <2>2
<1> QED
  BY <1>1, <1>2, <1>3, <1>4, <1>5, <1>6, <1>7 DEF Next, Driver

\* What one step does to the quiet of the table: the poll that settles the count has
\* seen none of the replay's operations on their way, or a pause.
LEMMA QuietStep ==
    ASSUME TypeOK, Shape, Placed, Untroubled, Whereabouts, Quiet, Next, Untroubled'
    PROVE  Quiet'
<1> USE DEF Quiet, Shape, Waiting, Measured
<1>0. /\ Repeat \in Nat \ {0} /\ Settle \in Nat /\ MaxFaults \in Nat
      /\ SpanCount \in Nat /\ RootCount \in Nat /\ seen \in Nat /\ unchanged \in Nat
      /\ idle \in 0..Settle /\ faults \in Nat /\ failures = 0 /\ Delivered = Repeat
  BY CountType, MeasurementAssumption DEF TypeOK, Untroubled, Delivered
<1>1. CASE Reset \/ Send \/ BeginWait \/ GiveUp
  BY <1>1 DEF Reset, Send, BeginWait, GiveUp
<1>2. CASE AwaitRoots
  <2>1. PICK n \in {RootCount, 0} :
           IF n >= Delivered
              THEN step' = "counting" /\ waited' = 0 /\ UNCHANGED <<idle, paused>>
              ELSE Second /\ UNCHANGED step
    BY <1>2 DEF AwaitRoots
  <2>2. step' = "counting" => RootCount >= Repeat
    BY <1>0, <1>2, <2>1 DEF AwaitRoots
  <2>3. RootCount' = RootCount
    BY <1>2 DEF AwaitRoots, table, RootCount
  <2>4. step' \in {"rooting", "counting"}
    BY <1>2, <2>1 DEF AwaitRoots
  <2> QED
    BY <2>2, <2>3, <2>4
<1>3. CASE AwaitSpans
  <2>1. PICK n \in {SpanCount, 0} :
           /\ seen' = n
           /\ IF n >= Delivered
              THEN step' = "settling" /\ waited' = 0 /\ unchanged' = 0 /\ UNCHANGED <<idle, paused>>
              ELSE Second /\ UNCHANGED <<step, unchanged>>
    BY <1>3 DEF AwaitSpans
  <2>2. UNCHANGED held /\ SpanCount' = SpanCount /\ RootCount' = RootCount
    BY <1>3 DEF AwaitSpans, table, SpanCount, RootCount
  <2>3. step = "counting" /\ step' \in {"counting", "settling"}
    BY <1>3, <2>1 DEF AwaitSpans
  <2>4. step' = "settling" => /\ seen' <= SpanCount' /\ seen' # 0
                              /\ unchanged' = 0 /\ idle' = idle
    BY <1>0, <2>1, <2>2, <2>3
  <2> QED
    BY <1>0, <2>2, <2>3, <2>4
<1>4. CASE PollSpans
  <2>1. PICK n \in {SpanCount, 0} :
           /\ Counted(SpanCount, n)
           /\ seen' = n
           /\ unchanged' = IF n = seen THEN unchanged + 1 ELSE 0
           /\ step' = IF unchanged' = Settle THEN "measuring" ELSE step
    BY <1>4 DEF PollSpans
  <2>2. UNCHANGED held /\ SpanCount' = SpanCount /\ RootCount' = RootCount
    BY <1>4 DEF PollSpans, table, SpanCount, RootCount
  <2>3. step = "settling" /\ unchanged < Settle /\ RootCount >= Repeat
    BY <1>4 DEF PollSpans
  <2>4. /\ idle' = IF idle < Settle THEN idle + 1 ELSE idle
        /\ idle' = Settle => Operations(held) = {}
    <3>1. \A s \in Operations(held) : s[1] = replay
      BY <2>3 DEF Whereabouts, Upto, Operations
    <3>2. Second /\ ~paused'
      BY <1>4 DEF PollSpans, Untroubled
    <3> QED
      BY <1>0, <2>3, <3>1, <3>2 DEF Second
  <2>5. SpanCount > 0
    <3>1. {s \in stored : IsRoot(s)} \subseteq stored
      OBVIOUS
    <3>2. RootCount <= SpanCount
      BY <3>1, FS_Subset DEF RootCount, SpanCount, TypeOK
    <3> QED
      BY <1>0, <2>3, <3>2
  <2>6. CASE n = SpanCount /\ faults' = faults
    <3>1. n = seen => (Operations(held) # {} => unchanged <= idle)
      BY <2>3, <2>6
    <3>2. Operations(held) # {} => unchanged' <= idle'
      BY <1>0, <2>1, <2>3, <2>4, <3>1
    <3>3. step' = "measuring" => Operations(held) = {}
      <4>1. step' = "measuring" => unchanged' = Settle
        BY <2>1, <2>3
      <4>2. unchanged' = Settle /\ unchanged' <= idle' => idle' = Settle
        BY <1>0, <2>4
      <4> QED
        BY <2>4, <3>2, <4>1, <4>2
    <3> QED
      BY <1>0, <2>1, <2>2, <2>3, <2>5, <2>6, <3>2, <3>3
  <2>7. CASE n = 0 /\ faults' = faults + 1
    <3>1. unchanged' < faults' /\ faults' <= Settle
      BY <1>0, <2>1, <2>3, <2>7 DEF Untroubled
    <3>2. step' = "settling"
      <4>1. unchanged' \in Nat /\ faults' \in Nat
        BY <1>0, <2>1, <2>7
      <4>2. unchanged' # Settle
        BY <1>0, <3>1, <4>1
      <4> QED
        BY <2>1, <2>3, <4>2
    <3> QED
      BY <1>0, <2>1, <2>2, <2>3, <2>5, <2>7, <3>1, <3>2
  <2> QED
    BY <1>0, <2>1, <2>6, <2>7, CountedType
<1>5. CASE Measure
  <2>1. step' \in {"ready", "judged"}
    BY <1>5 DEF Measure
  <2> QED
    BY <2>1
<1>6. CASE Arrive
  <2>1. PICK s \in held : held' = held \ {s} /\ stored' = stored \cup {s}
    BY <1>6 DEF Arrive
  <2>2. UNCHANGED <<step, seen, unchanged, faults>>
    BY <1>6 DEF Arrive
  <2>3. SpanCount' = SpanCount + 1
    <3>1. IsFiniteSet(stored) /\ s \notin stored
      BY <2>1 DEF TypeOK, Placed
    <3> QED
      BY <2>1, <3>1, FS_AddElement DEF SpanCount
  <2>4. RootCount' >= RootCount /\ RootCount' \in Nat
    <3> DEFINE before == {t \in stored : IsRoot(t)}
               after == {t \in stored \cup {s} : IsRoot(t)}
    <3>1. IsFiniteSet(stored \cup {s})
      BY FS_AddElement DEF TypeOK
    <3>2. after \subseteq stored \cup {s} /\ before \subseteq after
      OBVIOUS
    <3>3. IsFiniteSet(after)
      BY <3>1, <3>2, FS_Subset
    <3>4. Cardinality(before) <= Cardinality(after) /\ Cardinality(after) \in Nat
      BY <3>2, <3>3, FS_Subset, FS_CardinalityType
    <3>5. RootCount = Cardinality(before) /\ RootCount' = Cardinality(after)
      BY <2>1 DEF RootCount
    <3> QED
      BY <1>0, <3>4, <3>5
  <2>5. Operations(held') \subseteq Operations(held)
    BY <2>1 DEF Operations
  <2>6. step \in Measured => RootCount' >= Repeat
    BY <1>0, <2>4
  <2>7. step = "settling" => seen < SpanCount'
    BY <1>0, <2>3
  <2>8. step = "measuring" => Operations(held') = {}
    BY <2>5
  <2>9. SpanCount' \in Nat /\ seen \in Nat
    BY <1>0, <2>3
  <2> QED
    BY <2>2, <2>6, <2>7, <2>8, <2>9
<1>7. CASE Lose
  <2>1. Operations(held') \subseteq Operations(held)
    BY <1>7 DEF Lose, Operations
  <2>2. UNCHANGED <<step, seen, unchanged, idle, SpanCount, RootCount>> /\ faults' = faults + 1
    BY <1>7 DEF Lose, clock, SpanCount, RootCount
  <2> QED
    BY <1>0, <2>1, <2>2
<1>8. CASE Over
  BY <1>8 DEF Over, vars, RootCount, SpanCount
<1> QED
  BY <1>1, <1>2, <1>3, <1>4, <1>5, <1>6, <1>7, <1>8 DEF Next, Driver

LEMMA AccurateStep ==
    ASSUME TypeOK, Shape, Placed, Untroubled => Whereabouts /\ Quiet, Accurate, Next
    PROVE  Accurate'
<1> USE DEF Accurate
<1>0. UNCHANGED experiment
  BY DEF Next, Driver, Over, vars, Reset, Send, BeginWait, AwaitRoots, AwaitSpans,
         PollSpans, GiveUp, Arrive, Lose, Measure, requests
<1>1. \A n : OwnOperations(n)' = OwnOperations(n)
  BY <1>0 DEF OwnOperations
<1>2. CASE Measure
  <2> DEFINE reading == [spans |-> Operations(stored), failures |-> failures]
             last == Len(readings) + 1
  <2>1. readings \in Seq([spans : SUBSET Span, failures : 0..Repeat])
    BY DEF TypeOK
  <2>2. readings' = Append(readings, reading)
    BY <1>2 DEF Measure
  <2>3. /\ DOMAIN readings' = DOMAIN readings \cup {last} /\ last \in Nat
        /\ \A n \in DOMAIN readings : readings'[n] = readings[n] /\ n < last
        /\ readings'[last] = reading /\ DOMAIN readings = 1..Len(readings)
    BY <2>1, <2>2
  <2>4. last = replay
    BY <1>2, <2>1 DEF Measure, Shape, TypeOK
  <2>5. /\ step = "measuring" /\ sent = Repeat
        /\ UNCHANGED <<disturbed, paused, faults>> /\ OwnOperations(last) = Upto(sent)
    BY <1>2, <2>4 DEF Measure, Shape, Waiting, Measured, OwnOperations, Upto, Work
  <2>6. experiment.replays[last].fresh => reading.spans \subseteq OwnOperations(last)
    BY <2>4, <2>5, OperationsOf DEF Placed
  <2>7. ASSUME ~disturbed, ~paused, faults <= Settle, \A m \in 1..last : Clean(readings'[m])
        PROVE  reading.spans = OwnOperations(last)
    <3>1. Clean(reading) /\ \A m \in DOMAIN readings : Clean(readings[m])
      BY <2>3, <2>7
    <3>2. Untroubled
      BY <2>7, <3>1 DEF Untroubled, Clean
    <3>3. Operations(held) = {} /\ Operations(held \cup stored) = Upto(sent)
      BY <2>5, <3>2 DEF Whereabouts, Quiet, Waiting, Measured
    <3>4. Operations(stored) = Upto(sent)
      BY <3>3, OperationsOf
    <3> QED
      BY <2>5, <3>4
  <2> HIDE DEF last, reading
  <2>8. ASSUME NEW n \in DOMAIN readings
        PROVE  Undisturbed(n)' => Undisturbed(n)
    <3>1. \A m \in 1..n : m \in DOMAIN readings
      BY <2>3, <2>1
    <3> QED
      BY <2>3, <2>5, <3>1 DEF Undisturbed
  <2>9. ASSUME NEW n \in DOMAIN readings'
        PROVE  /\ (experiment.replays[n].fresh => readings[n].spans \subseteq OwnOperations(n))'
               /\ (Undisturbed(n) => Exact(n))'
    <3>1. CASE n \in DOMAIN readings
      BY <1>0, <1>1, <2>3, <2>8, <3>1 DEF Exact
    <3>2. CASE n = last
      <4>1. Undisturbed(n)' => /\ ~disturbed /\ ~paused /\ faults <= Settle
                               /\ \A m \in 1..last : Clean(readings'[m])
        BY <2>5, <3>2 DEF Undisturbed
      <4> QED
        BY <1>0, <1>1, <2>3, <2>6, <2>7, <3>2, <4>1 DEF Exact
    <3> QED
      BY <2>3, <3>1, <3>2
  <2> QED
    BY <2>9
<1>3. CASE ~Measure
  <2>1. readings' = readings
    BY <1>3 DEF Next, Driver, Over, vars, Reset, Send, BeginWait, AwaitRoots, AwaitSpans,
                PollSpans, GiveUp, Arrive, Lose
  <2>2. \A n : Undisturbed(n)' => Undisturbed(n)
    BY <2>1, FlagsStep DEF Undisturbed
  <2> QED
    BY <1>0, <1>1, <2>1, <2>2 DEF Exact
<1> QED
  BY <1>2, <1>3

\* Whatever the works, the number of requests, the delays, the deadlines and what is
\* lost: a replay in a sandbox of its own counts no operation but its own; and a clean
\* one counts all of them, if none was lost or left behind and none stayed away for as
\* long as the settling lasts.
THEOREM ReplaysMeasureTheirOwn == Spec => []MeasuresItsOwn
<1>1. Init => IInv
  <2> SUFFICES ASSUME Init PROVE IInv
    OBVIOUS
  <2>1. Shape /\ Placed
    BY TypeInit, PlacedInit
  <2>2. Operations(held) = {}
    BY NoOperationOfChecks DEF Init
  <2> QED
    BY <2>1, <2>2 DEF Init, IInv, Whereabouts, Quiet, Accurate, Waiting, Measured
<1>2. TypeOK /\ Shape /\ IInv /\ [Next]_vars => IInv'
  <2> SUFFICES ASSUME TypeOK, Shape, IInv, [Next]_vars PROVE IInv'
    OBVIOUS
  <2>1. CASE Next
    <3>1. Shape'
      BY TypeStep
    <3>2. Placed'
      BY <2>1, PlacedStep DEF IInv
    <3>3. Untroubled' => Whereabouts' /\ Quiet'
      BY <2>1, UntroubledStep, WhereaboutsStep, QuietStep DEF IInv
    <3>4. Accurate'
      BY <2>1, AccurateStep DEF IInv
    <3> QED
      BY <3>1, <3>2, <3>3, <3>4 DEF IInv
  <2>2. CASE UNCHANGED vars
    <3> USE <2>2 DEF vars
    <3>1. Shape' = Shape
      BY DEF Shape, Waiting, Measured
    <3>2. Untroubled' = Untroubled /\ Accurate' = Accurate
      BY DEF Untroubled, Accurate, Undisturbed, Exact, OwnOperations
    <3>3. Whereabouts' = Whereabouts /\ Placed' = Placed
      BY DEF Whereabouts, Placed, Upto, Work, Waiting, Measured
    <3>4. Quiet' = Quiet
      BY DEF Quiet, RootCount, SpanCount, Measured
    <3> QED
      BY <3>1, <3>2, <3>3, <3>4 DEF IInv
  <2> QED
    BY <2>1, <2>2
<1>3. IInv => MeasuresItsOwn
  BY DEF IInv, Accurate, MeasuresItsOwn
<1>4. Spec => [](TypeOK /\ Shape /\ IInv)
  BY <1>1, <1>2, TypeInit, TypeStep, PTL DEF Spec
<1> QED
  BY <1>3, <1>4, PTL
-----------------------------------------------------------------------------
(* What is concluded from accurate readings.                               *)

\* The quotient a reading gives is the work of one request.
IsRate(q, work) == q.per \in Nat \ {0} /\ q.ops = q.per * work

LEMMA OperationsCount ==
    ASSUME NEW n \in Nat, NEW work \in Nat
    PROVE  Cardinality({n} \X (1..Repeat) \X (1..work)) = Repeat * work
<1> DEFINE S == (1..Repeat) \X (1..work)
           T == {n} \X (1..Repeat) \X (1..work)
           f == [x \in S |-> <<n, x[1], x[2]>>]
<1>1. Repeat \in Nat
  BY MeasurementAssumption
<1>2. /\ IsFiniteSet(1..Repeat) /\ Cardinality(1..Repeat) = Repeat
      /\ IsFiniteSet(1..work) /\ Cardinality(1..work) = work
  BY <1>1, FS_Interval
<1>3. IsFiniteSet(S) /\ Cardinality(S) = Repeat * work
  <2> DEFINE A == 1..Repeat
             B == 1..work
  <2>1. IsFiniteSet(A) /\ Cardinality(A) = Repeat /\ IsFiniteSet(B) /\ Cardinality(B) = work
    BY <1>2
  <2> HIDE DEF A, B
  <2>2. IsFiniteSet(A \X B) /\ Cardinality(A \X B) = Cardinality(A) * Cardinality(B)
    BY <2>1, FS_Product
  <2> QED
    BY <2>1, <2>2 DEF A, B
<1>4. f \in [S -> T]
  OBVIOUS
<1>5. \A a, b \in S : f[a] = f[b] => a = b
  OBVIOUS
<1>6. \A t \in T : \E x \in S : f[x] = t
  <2> SUFFICES ASSUME NEW t \in T PROVE \E x \in S : f[x] = t
    OBVIOUS
  <2>1. PICK r \in 1..Repeat, o \in 1..work : t = <<n, r, o>>
    OBVIOUS
  <2>2. <<r, o>> \in S /\ f[<<r, o>>] = t
    BY <2>1
  <2> QED
    BY <2>2
<1> HIDE DEF f, S, T
<1>7. ExistsBijection(S, T)
  BY <1>4, <1>5, <1>6 DEF ExistsBijection, Bijection, Injection, Surjection, IsInjective
<1> QED
  BY <1>3, <1>7, FS_Bijection DEF T

LEMMA RequestsCount ==
    ASSUME NEW n \in Nat, NEW work \in Nat \ {0}
    PROVE  Cardinality({<<s[1], s[2]>> : s \in {n} \X (1..Repeat) \X (1..work)}) = Repeat
<1> DEFINE S == {<<s[1], s[2]>> : s \in {n} \X (1..Repeat) \X (1..work)}
<1>1. Repeat \in Nat
  BY MeasurementAssumption
<1>2. S = {n} \X (1..Repeat)
  <2>1. ASSUME NEW x \in {n} \X (1..Repeat) PROVE x \in S
    <3>1. PICK r \in 1..Repeat : x = <<n, r>>
      OBVIOUS
    <3>2. <<n, r, 1>> \in {n} \X (1..Repeat) \X (1..work)
      OBVIOUS
    <3> QED
      BY <3>1, <3>2
  <2>2. S \subseteq {n} \X (1..Repeat)
    OBVIOUS
  <2> QED
    BY <2>1, <2>2
<1>3. IsFiniteSet({n}) /\ Cardinality({n}) = 1
  BY FS_Singleton, Zenon
<1>4. Cardinality({n} \X (1..Repeat)) = 1 * Repeat
  <2> DEFINE A == 1..Repeat
             B == {n}
  <2>1. IsFiniteSet(A) /\ Cardinality(A) = Repeat
    BY <1>1, FS_Interval
  <2>2. IsFiniteSet(B) /\ Cardinality(B) = 1
    BY <1>3
  <2> HIDE DEF A, B
  <2>3. Cardinality(B \X A) = Cardinality(B) * Cardinality(A)
    BY <2>1, <2>2, FS_Product
  <2> QED
    BY <2>1, <2>2, <2>3 DEF A, B
<1> QED
  BY <1>1, <1>2, <1>4

\* A replay without operations has no request to divide by: PerRequest divides by 1.
LEMMA ReadingIsRate ==
    ASSUME NEW n \in Nat, NEW work \in Nat, NEW reading,
           reading.spans = {n} \X (1..Repeat) \X (1..work)
    PROVE  IsRate(PerRequest(reading), work)
<1>1. Repeat \in Nat \ {0}
  BY MeasurementAssumption
<1>2. PerRequest(reading).ops = Repeat * work
  BY OperationsCount DEF PerRequest
<1>3. CASE work = 0
  <2>1. {<<s[1], s[2]>> : s \in reading.spans} = {}
    BY <1>3
  <2>2. PerRequest(reading).per = 1
    BY <2>1, FS_EmptySet DEF PerRequest, Larger
  <2> QED
    BY <1>1, <1>2, <1>3, <2>2 DEF IsRate
<1>4. CASE work # 0
  <2> DEFINE T == {n} \X (1..Repeat) \X (1..work)
  <2>0. Cardinality({<<s[1], s[2]>> : s \in T}) = Repeat
    BY <1>4, RequestsCount
  <2> HIDE DEF T
  <2>1. Cardinality({<<s[1], s[2]>> : s \in reading.spans}) = Repeat
    <3>1. reading.spans = T
      BY DEF T
    <3> QED
      BY <2>0, <3>1
  <2>2. PerRequest(reading).per = Repeat
    BY <1>1, <2>1 DEF PerRequest, Larger
  <2> QED
    BY <1>1, <1>2, <2>2 DEF IsRate
<1> QED
  BY <1>3, <1>4

LEMMA Scaled ==
    ASSUME NEW k \in Nat \ {0}, NEW x \in Int, NEW y \in Int
    PROVE  k * x <= k * y <=> x <= y
<1>1. k * y - k * x = k * (y - x)
  OBVIOUS
<1>2. y - x >= 0 => k * (y - x) >= 0
  OBVIOUS
<1>3. y - x < 0 => k * (y - x) < 0
  OBVIOUS
<1> QED
  BY <1>1, <1>2, <1>3

\* Comparing two quotients crosswise compares the works.
CompareAs(a, u, b, v) ==
    /\ \A c \in Nat : /\ AtLeast(a, c, b) <=> u >= c * v
                      /\ AtMostMore(a, b, c) <=> u <= v + c
    /\ AtMostHalfMore(a, b) <=> 2 * u <= 3 * v
    /\ a.ops > 0 <=> u > 0
    /\ b.ops = 0 <=> v = 0

LEMMA RatesCompare ==
    ASSUME NEW a, NEW b, NEW u \in Nat, NEW v \in Nat, IsRate(a, u), IsRate(b, v)
    PROVE  CompareAs(a, u, b, v)
<1> DEFINE p == a.per
           q == b.per
<1>1. p \in Nat \ {0} /\ q \in Nat \ {0} /\ a.ops = p * u /\ b.ops = q * v
  BY DEF IsRate
<1> HIDE DEF p, q
<1>2. p * q \in Nat \ {0}
  BY <1>1
<1>3. ASSUME NEW c \in Nat
      PROVE  (AtLeast(a, c, b) <=> u >= c * v) /\ (AtMostMore(a, b, c) <=> u <= v + c)
  <2>1. AtLeast(a, c, b) <=> (p * q) * (c * v) <= (p * q) * u
    BY <1>1 DEF AtLeast, p, q
  <2>2. AtMostMore(a, b, c) <=> (p * q) * u <= (p * q) * (v + c)
    BY <1>1 DEF AtMostMore, p, q
  <2>3. c * v \in Int /\ v + c \in Int /\ u \in Int
    OBVIOUS
  <2> QED
    BY <1>2, <2>1, <2>2, <2>3, Scaled
<1>4. AtMostHalfMore(a, b) <=> 2 * u <= 3 * v
  <2>1. AtMostHalfMore(a, b) <=> (p * q) * (2 * u) <= (p * q) * (3 * v)
    BY <1>1 DEF AtMostHalfMore, p, q
  <2>2. 2 * u \in Int /\ 3 * v \in Int
    OBVIOUS
  <2> QED
    BY <1>2, <2>1, <2>2, Scaled
<1>5. (p * u > 0 <=> u > 0) /\ (q * v = 0 <=> v = 0)
  BY <1>1
<1> QED
  BY <1>1, <1>3, <1>4, <1>5 DEF CompareAs

LEMMA JudgementOfRates ==
    ASSUME NEW judge \in Judges, NEW a, NEW b, NEW u \in Nat, NEW v \in Nat,
           IsRate(a, u), IsRate(b, v)
    PROVE  Judgement(judge, a, b) <=> Judgement(judge, Exactly(u), Exactly(v))
<1> DEFINE x == Exactly(u)
           y == Exactly(v)
<1>1. IsRate(x, u) /\ IsRate(y, v)
  BY DEF IsRate, Exactly
<1> HIDE DEF x, y
<1>2. CompareAs(b, v, a, u) /\ CompareAs(y, v, x, u)
  BY <1>1, RatesCompare
<1>3. Threshold \in Nat /\ Allowance \in Nat /\ 1 \in Nat
  BY MeasurementAssumption
<1>4. Amplified(a, b) <=> Amplified(x, y)
  BY <1>2, <1>3 DEF CompareAs, Amplified
<1>5. /\ AtMostMore(b, a, Allowance) <=> AtMostMore(y, x, Allowance)
      /\ AtMostMore(b, a, 1) <=> AtMostMore(y, x, 1)
  BY <1>2, <1>3 DEF CompareAs
<1>6. AtMostHalfMore(b, a) <=> AtMostHalfMore(y, x)
  BY <1>2 DEF CompareAs
<1> QED
  BY <1>4, <1>5, <1>6 DEF Judgement, Judges, x, y

\* A request of a reading has at most the operations its build makes.
LEMMA ReadingIsBounded ==
    ASSUME NEW n \in Nat, NEW work \in Nat, NEW reading,
           reading.spans \subseteq {n} \X (1..Repeat) \X (1..work)
    PROVE  /\ PerRequest(reading).per \in Nat \ {0} /\ PerRequest(reading).ops \in Nat
           /\ PerRequest(reading).ops <= PerRequest(reading).per * work
<1> DEFINE spans == reading.spans
           requested == {<<s[1], s[2]>> : s \in spans}
           S == requested \X (1..work)
           f == [s \in spans |-> <<<<s[1], s[2]>>, s[3]>>]
           all == {n} \X (1..Repeat) \X (1..work)
<1>0. IsFiniteSet({n})
  BY FS_Singleton, Zenon
<1>1. Repeat \in Nat
  BY MeasurementAssumption
<1>2. IsFiniteSet(spans)
  <2>1. IsFiniteSet({n}) /\ IsFiniteSet(1..Repeat) /\ IsFiniteSet(1..work)
    BY <1>1, FS_Interval, <1>0
  <2>2. IsFiniteSet(all)
    BY <2>1, FiniteTriples
  <2> QED
    BY <2>2, FS_Subset
<1>3. IsFiniteSet(requested) /\ Cardinality(requested) \in Nat
  <2>1. requested \subseteq {n} \X (1..Repeat)
    OBVIOUS
  <2>2. IsFiniteSet({n}) /\ IsFiniteSet(1..Repeat)
    BY <1>0, <1>1, FS_Interval
  <2>3. IsFiniteSet({n} \X (1..Repeat))
    BY <2>2, FS_Product
  <2> QED
    BY <2>1, <2>3, FS_Subset, FS_CardinalityType
<1>4. f \in Injection(spans, S)
  <2>1. f \in [spans -> S]
    <3> SUFFICES ASSUME NEW s \in spans PROVE <<<<s[1], s[2]>>, s[3]>> \in S
      OBVIOUS
    <3>1. <<s[1], s[2]>> \in requested /\ s[3] \in 1..work
      OBVIOUS
    <3> QED
      BY <3>1
  <2>2. \A s, t \in spans : f[s] = f[t] => s = t
    <3> SUFFICES ASSUME NEW s \in spans, NEW t \in spans, f[s] = f[t] PROVE s = t
      OBVIOUS
    <3>1. s \in all /\ t \in all
      OBVIOUS
    <3>2. s[1] = t[1] /\ s[2] = t[2] /\ s[3] = t[3]
      OBVIOUS
    <3> QED
      BY <3>1, <3>2
  <2> HIDE DEF f, S, spans
  <2> QED
    BY <2>1, <2>2 DEF Injection, IsInjective
<1>5. IsFiniteSet(S) /\ Cardinality(S) = Cardinality(requested) * work
  <2> DEFINE A == requested
             B == 1..work
  <2>1. IsFiniteSet(A) /\ IsFiniteSet(B) /\ Cardinality(B) = work
    BY <1>3, FS_Interval
  <2> HIDE DEF A, B
  <2>2. IsFiniteSet(A \X B) /\ Cardinality(A \X B) = Cardinality(A) * Cardinality(B)
    BY <2>1, FS_Product
  <2> QED
    BY <2>1, <2>2 DEF A, B
<1> HIDE DEF f, S, spans, requested
<1>6. Cardinality(spans) <= Cardinality(requested) * work /\ Cardinality(spans) \in Nat
  <2>1. Cardinality(spans) <= Cardinality(S)
    BY <1>4, <1>5, FS_Injection
  <2> QED
    BY <1>2, <1>5, <2>1, FS_CardinalityType
<1>7. PerRequest(reading).ops = Cardinality(spans) /\ PerRequest(reading).per = Larger(1, Cardinality(requested))
  BY DEF PerRequest, spans, requested
<1>8. CASE Cardinality(requested) >= 1
  BY <1>3, <1>6, <1>7, <1>8 DEF Larger
<1>9. CASE Cardinality(requested) = 0
  <2>1. Cardinality(spans) <= 0
    BY <1>6, <1>9
  <2>2. PerRequest(reading).per = 1
    BY <1>7, <1>9 DEF Larger
  <2> QED
    BY <1>6, <1>7, <2>1, <2>2
<1> QED
  BY <1>3, <1>8, <1>9

\* A reading that misses operations of the bad build claims no more amplification.
LEMMA MissingIsHarmless ==
    ASSUME NEW good, NEW bad, NEW u \in Nat, NEW v \in Nat, IsRate(good, u),
           bad.per \in Nat \ {0}, bad.ops \in Nat, bad.ops <= bad.per * v,
           Amplified(good, bad)
    PROVE  Amplified(Exactly(u), Exactly(v))
<1> DEFINE p == good.per
           q == bad.per
<1>0. Threshold \in Nat
  BY MeasurementAssumption
<1>1. p \in Nat \ {0} /\ good.ops = p * u /\ q \in Nat \ {0}
  BY DEF IsRate
<1>2. Exactly(u).ops = u /\ Exactly(u).per = 1 /\ Exactly(v).ops = v /\ Exactly(v).per = 1
  BY DEF Exactly
<1>3. CASE u = 0
  <2>1. bad.ops > 0
    <3>1. good.ops = 0
      BY <1>1, <1>3
    <3> QED
      BY <3>1 DEF Amplified
  <2>2. v # 0
    BY <1>1, <2>1
  <2> QED
    BY <1>2, <1>3, <2>2 DEF Amplified
<1>4. CASE u # 0
  <2>1. good.ops # 0
    BY <1>1, <1>4
  <2>2. bad.ops * p >= Threshold * (p * u) * q
    BY <1>1, <2>1 DEF Amplified, AtLeast
  <2> HIDE DEF p, q
  <2>3. (q * v) * p >= bad.ops * p
    <3>1. q * v \in Int /\ bad.ops \in Int /\ bad.ops <= q * v
      BY <1>1 DEF q
    <3>2. p * bad.ops <= p * (q * v)
      BY <1>1, <3>1, Scaled
    <3> QED
      BY <1>1, <3>1, <3>2
  <2>4. (p * q) * (Threshold * u) <= (p * q) * v
    <3>1. Threshold * (p * u) * q = (p * q) * (Threshold * u) /\ (q * v) * p = (p * q) * v
      BY <1>0, <1>1
    <3>2. Threshold * (p * u) * q \in Int /\ bad.ops * p \in Int /\ (q * v) * p \in Int
      BY <1>0, <1>1
    <3> QED
      BY <2>2, <2>3, <3>1, <3>2
  <2>5. Threshold * u <= v
    <3>1. p * q \in Nat \ {0} /\ Threshold * u \in Int /\ v \in Int
      BY <1>0, <1>1
    <3> QED
      BY <2>4, <3>1, Scaled
  <2> QED
    BY <1>0, <1>2, <1>4, <2>5 DEF Amplified, AtLeast
<1> QED
  BY <1>3, <1>4

\* What is concluded of two builds, or of two page sizes, is what their works warrant:
\* no threshold is crossed because of how often a request was replayed, or because one
\* of the two did no work at all; and what is missing of the bad build's spans never
\* makes a differential claim a regression.
THEOREM VerdictsAreTrue == Spec => []VerdictIsTrue
<1>1. TypeOK /\ Shape /\ MeasuresItsOwn => VerdictIsTrue
  <2> SUFFICES ASSUME TypeOK, Shape, MeasuresItsOwn, step = "judged"
               PROVE  /\ Undisturbed(2) => (Verdict <=> Warranted)
                      /\ (experiment.judge = "differential" /\ Exact(1) /\ Verdict) => Warranted
    BY DEF VerdictIsTrue
  <2>1. DOMAIN readings = 1..2
    BY DEF TypeOK, Shape
  <2>2. \A n \in 1..2 : experiment.replays[n].work \in Nat
    BY WorkType
  <2>3. ASSUME NEW n \in 1..2, Exact(n)
        PROVE  IsRate(PerRequest(readings[n]), experiment.replays[n].work)
    <3> DEFINE work == experiment.replays[n].work
               reading == readings[n]
    <3>1. n \in Nat /\ work \in Nat /\ reading.spans = {n} \X (1..Repeat) \X (1..work)
      BY <2>2, <2>3 DEF Exact, OwnOperations
    <3> HIDE DEF work, reading
    <3>2. IsRate(PerRequest(reading), work)
      BY <3>1, ReadingIsRate
    <3> QED
      BY <3>2 DEF work, reading
  <2>4. experiment \in Experiments /\ experiment.judge \in Judges
    BY MeasurementAssumption DEF TypeOK
  <2>5. ASSUME Undisturbed(2)
        PROVE  Verdict <=> Warranted
    <3>1. Undisturbed(1) /\ \A n \in 1..2 : Clean(readings[n])
      BY <2>5 DEF Undisturbed
    <3>2. Exact(1) /\ Exact(2)
      BY <2>1, <2>5, <3>1 DEF MeasuresItsOwn
    <3>3. /\ IsRate(PerRequest(readings[1]), experiment.replays[1].work)
          /\ IsRate(PerRequest(readings[2]), experiment.replays[2].work)
      BY <2>3, <3>2
    <3>4. Judgement(experiment.judge, PerRequest(readings[1]), PerRequest(readings[2])) <=> Warranted
      BY <2>2, <2>4, <3>3, JudgementOfRates DEF Warranted
    <3> QED
      BY <3>1, <3>4 DEF Verdict
  <2>6. ASSUME experiment.judge = "differential", Exact(1), Verdict
        PROVE  Warranted
    <3> DEFINE u == experiment.replays[1].work
               v == experiment.replays[2].work
               good == PerRequest(readings[1])
               bad == PerRequest(readings[2])
               second == readings[2]
    <3>1. u \in Nat /\ v \in Nat /\ IsRate(good, u)
      BY <2>2, <2>3, <2>6
    <3>2. second.spans \subseteq {2} \X (1..Repeat) \X (1..v)
      <4>1. experiment.replays[2].fresh
        BY <2>4, <2>6, MeasurementAssumption
      <4> QED
        BY <2>1, <4>1 DEF MeasuresItsOwn, OwnOperations
    <3>3. Amplified(good, bad)
      BY <2>6 DEF Verdict, Judgement
    <3> HIDE DEF u, v, good, second
    <3>4. /\ PerRequest(second).per \in Nat \ {0} /\ PerRequest(second).ops \in Nat
          /\ PerRequest(second).ops <= PerRequest(second).per * v
      BY <3>1, <3>2, ReadingIsBounded
    <3>5. bad = PerRequest(second)
      BY DEF second
    <3> HIDE DEF bad
    <3>6. Amplified(Exactly(u), Exactly(v))
      BY <3>1, <3>3, <3>4, <3>5, MissingIsHarmless
    <3> QED
      BY <2>6, <3>6 DEF Warranted, Judgement, u, v
  <2> QED
    BY <2>5, <2>6
<1>2. Spec => [](TypeOK /\ Shape)
  BY TypeInit, TypeStep, PTL DEF Spec
<1> QED
  BY <1>1, <1>2, ReplaysMeasureTheirOwn, PTL
-----------------------------------------------------------------------------
(* An experiment is bounded.                                               *)

\* The most steps of the driver that remain of a replay: what is left of the present
\* wait, and the steps and waits after it.
OneWait == Patience + 1
OneReplay == 1 + (Repeat + 1) + 3 * OneWait + 1

LeftOfReplay ==
    CASE step = "ready"     -> OneReplay
      [] step = "sending"   -> (Repeat - sent) + 1 + 3 * OneWait + 1
      [] step = "rooting"   -> (Patience - waited) + 1 + 2 * OneWait + 1
      [] step = "counting"  -> (Patience - waited) + 1 + OneWait + 1
      [] step = "settling"  -> (Patience - waited) + 1 + 1
      [] step = "measuring" -> 1
      [] OTHER              -> 0

StepsLeft ==
    IF step \in {"judged", "failed"} THEN 0
    ELSE LeftOfReplay + IF replay = 1 THEN OneReplay ELSE 0

\* Every step of the driver uses up one of those that are left, and nothing that
\* happens to the spans gives one back: a deadline is never set anew.
DriverAdvances ==
    [][/\ StepsLeft' <= StepsLeft
       /\ Driver => StepsLeft' < StepsLeft]_vars

LEMMA LeftType ==
    ASSUME TypeOK
    PROVE  /\ LeftOfReplay \in 0..OneReplay /\ OneReplay \in Nat
           /\ step \notin {"judged", "failed"} => LeftOfReplay > 0
<1>1. /\ Repeat \in Nat /\ Patience \in Nat /\ sent \in 0..Repeat /\ waited \in 0..Patience
      /\ step \in Steps
  BY MeasurementAssumption DEF TypeOK
<1> QED
  BY <1>1 DEF LeftOfReplay, OneReplay, OneWait, Steps

LEMMA StepsLeftType ==
    ASSUME TypeOK
    PROVE  /\ StepsLeft \in 0..(2 * OneReplay)
           /\ StepsLeft = 0 <=> step \in {"judged", "failed"}
<1>1. LeftOfReplay \in Nat /\ OneReplay \in Nat /\ LeftOfReplay <= OneReplay
  BY LeftType
<1> QED
  BY <1>1, LeftType DEF StepsLeft

LEMMA DriverStep ==
    ASSUME TypeOK, TypeOK', Driver
    PROVE  StepsLeft' < StepsLeft /\ StepsLeft' \in Nat
<1>1. /\ Repeat \in Nat /\ Patience \in Nat /\ sent \in 0..Repeat /\ waited \in 0..Patience
      /\ sent' \in 0..Repeat /\ waited' \in 0..Patience /\ replay \in 1..2
  BY MeasurementAssumption DEF TypeOK
<1>2. CASE Reset
  <2>1. step = "ready" /\ step' = "sending" /\ sent' = sent /\ replay' = replay
    BY <1>2 DEF Reset, requests
  <2> QED
    BY <1>1, <2>1 DEF StepsLeft, LeftOfReplay, OneReplay, OneWait
<1>3. CASE Send
  <2>1. step = "sending" /\ step' = "sending" /\ sent' = sent + 1 /\ replay' = replay
    BY <1>3 DEF Send
  <2> QED
    BY <1>1, <2>1 DEF StepsLeft, LeftOfReplay, OneReplay, OneWait
<1>4. CASE BeginWait
  <2>1. step = "sending" /\ step' = "rooting" /\ waited' = 0 /\ replay' = replay
    BY <1>4 DEF BeginWait, requests
  <2> QED
    BY <1>1, <2>1 DEF StepsLeft, LeftOfReplay, OneReplay, OneWait
<1>5. CASE AwaitRoots
  <2>1. /\ step = "rooting" /\ waited < Patience /\ replay' = replay
        /\ \/ step' = "counting" /\ waited' = 0
           \/ step' = "rooting" /\ waited' = waited + 1
    BY <1>5 DEF AwaitRoots, Second, requests
  <2> QED
    BY <1>1, <2>1 DEF StepsLeft, LeftOfReplay, OneReplay, OneWait
<1>6. CASE AwaitSpans
  <2>1. /\ step = "counting" /\ waited < Patience /\ replay' = replay
        /\ \/ step' = "settling" /\ waited' = 0
           \/ step' = "counting" /\ waited' = waited + 1
    BY <1>6 DEF AwaitSpans, Second, requests
  <2> QED
    BY <1>1, <2>1 DEF StepsLeft, LeftOfReplay, OneReplay, OneWait
<1>7. CASE PollSpans
  <2>1. /\ step = "settling" /\ waited < Patience /\ replay' = replay
        /\ step' \in {"settling", "measuring"} /\ waited' = waited + 1
    BY <1>7 DEF PollSpans, Second, requests
  <2> QED
    BY <1>1, <2>1 DEF StepsLeft, LeftOfReplay, OneReplay, OneWait
<1>8. CASE Measure
  <2>1. /\ step = "measuring"
        /\ \/ replay = 1 /\ replay' = 2 /\ step' = "ready"
           \/ replay = 2 /\ step' = "judged"
    BY <1>1, <1>8 DEF Measure
  <2> QED
    BY <1>1, <2>1 DEF StepsLeft, LeftOfReplay, OneReplay, OneWait
<1>9. CASE GiveUp
  <2>1. step \in {"rooting", "counting", "settling"} /\ step' = "failed"
    BY <1>9 DEF GiveUp
  <2>2. StepsLeft' = 0
    BY <2>1 DEF StepsLeft
  <2>3. StepsLeft \in 0..(2 * OneReplay) /\ StepsLeft # 0 /\ OneReplay \in Nat
    BY <2>1, StepsLeftType, LeftType
  <2> QED
    BY <2>2, <2>3
<1> QED
  BY <1>2, <1>3, <1>4, <1>5, <1>6, <1>7, <1>8, <1>9 DEF Driver

\* Whatever is lost or late and whichever commands fail, an experiment is over, or has
\* one step less to go, after every step of the driver; it began with no more than
\* those of two replays, each with three waits of a deadline.
THEOREM ExperimentsAreBounded ==
    Spec => /\ [](StepsLeft \in 0..(2 * OneReplay))
            /\ [](StepsLeft = 0 <=> step \in {"judged", "failed"})
            /\ DriverAdvances
<1>1. Spec => [](TypeOK /\ Shape)
  BY TypeInit, TypeStep, PTL DEF Spec
<1>2. TypeOK => StepsLeft \in 0..(2 * OneReplay) /\ (StepsLeft = 0 <=> step \in {"judged", "failed"})
  BY StepsLeftType
<1>3. TypeOK /\ TypeOK' /\ [Next]_vars
          => [StepsLeft' <= StepsLeft /\ (Driver => StepsLeft' < StepsLeft)]_vars
  <2> SUFFICES ASSUME TypeOK, TypeOK', Next
               PROVE  StepsLeft' <= StepsLeft /\ (Driver => StepsLeft' < StepsLeft)
    OBVIOUS
  <2>1. StepsLeft \in Nat
    <3>1. StepsLeft \in 0..(2 * OneReplay) /\ OneReplay \in Nat
      BY StepsLeftType, LeftType
    <3> QED
      BY <3>1
  <2>2. CASE Driver
    <3>1. StepsLeft' < StepsLeft /\ StepsLeft' \in Int
      BY <2>2, DriverStep
    <3> QED
      BY <2>1, <3>1
  <2>3. CASE ~Driver
    <3>1. UNCHANGED <<replay, step, sent, waited>>
      BY <2>3 DEF Next, Arrive, Lose, Over, requests, clock, vars
    <3>2. StepsLeft' = StepsLeft
      BY <3>1 DEF StepsLeft, LeftOfReplay
    <3> QED
      BY <2>1, <2>3, <3>2
  <2> QED
    BY <2>2, <2>3
<1> QED
  BY <1>1, <1>2, <1>3, PTL DEF Spec, DriverAdvances
=============================================================================
