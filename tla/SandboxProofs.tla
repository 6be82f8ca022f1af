---------------------------- MODULE SandboxProofs ----------------------------
(***************************************************************************)
(* Proofs about Sandbox, for any processes, commits and bounds. A run's    *)
(* number makes its resources its own; the steps of a run say which of     *)
(* them it still has to remove, and which tree and image it relies on.     *)
(***************************************************************************)
EXTENDS Sandbox, TLAPS

Excused == killed \cup faulty

\* What a run has made carries a number its process has already given out.
Numbered ==
    /\ \A r \in stacks \cup databases \cup scratch \cup adds : r.number <= runs[r.by]
    /\ \A p \in Users : job[p] # Idle => job[p].run.number = runs[p]

InUse == {"awaiting", "body", "down"}

\* Which step of a run still removes what it made.
Left ==
    /\ \A r \in stacks \ Excused : Active(r) /\ job[r.by].step \in InUse
    /\ \A r \in databases \ Excused :
          Kept(r) \/ (Active(r) /\ job[r.by].step \in InUse \cup {"drop"})
    /\ \A r \in scratch \ Excused : Active(r) /\ job[r.by].patches
    /\ \A p \in Users : At(p, "patching") => job[p].patches

\* What a run that has its commit to itself can rely on.
Relies(p) ==
    Undisputed(Commit(p)) =>
        /\ job[p].step \in {"tree", "add", "adding"} /\ ~job[p].builds =>
              image[Commit(p)] = "whole"
        /\ job[p].step = "building" => tree[Commit(p)] = "whole" /\ job[p].builds
        /\ job[p].step \in {"up", "awaiting", "body"} =>
              image[Commit(p)] = "whole" /\ tree[Commit(p)] = "whole"

\* Where the tree and the image of a commit that one process uses come from.
Waited ==
    /\ \A p \in Users : job[p] # Idle => Commit(p) \in Uses[p]
    /\ \A r \in adds : r.commit \in Uses[r.by]
    /\ \A r \in adds \ killed : Active(r) /\ At(r.by, "adding")
Sources ==
    /\ \A c \in Commits : tree[c] = "partial" => \E r \in adds : r.commit = c
    /\ \A c \in Commits : Undisputed(c) => image[c] # "partial"
Made == Waited /\ Sources /\ \A p \in Users : job[p] # Idle => Relies(p)

-----------------------------------------------------------------------------
(* What a step does to the local variables of a run.                       *)

LEMMA AtIsJob ==
    ASSUME TypeOK, NEW p \in Users, NEW s \in Steps, At(p, s)
    PROVE  job[p] \in Job /\ job[p] # Idle /\ job[p].run.by = p /\ Commit(p) \in Commits
<1>1. job[p] \in Job \cup {Idle} /\ "idle" \notin Steps
  BY DEF TypeOK, Steps
<1>2. job[p] # Idle
  BY <1>1 DEF At, Idle
<1> QED
  BY <1>1, <1>2 DEF TypeOK, Job, Run, Commit

LEMMA JobIsNotIdle ==
    ASSUME NEW j \in Job
    PROVE  j # Idle /\ j.step \in Steps /\ j.step # "idle"
  BY DEF Job, Idle, Steps

\* The run goes on to step s, or is over.
Onwards(p, s, b) == job' = [job EXCEPT ![p] = [job[p] EXCEPT !.step = s, !.builds = b]]
Over(p) == job' = [job EXCEPT ![p] = Idle]

LEMMA Moved ==
    ASSUME TypeOK, NEW p \in Users, job[p] \in Job, NEW s \in Steps, NEW b \in BOOLEAN,
           Onwards(p, s, b)
    PROVE  /\ job' \in [Users -> Job \cup {Idle}]
           /\ \A q \in Users : job'[q] # Idle => job'[q].run.by = q
           /\ job'[p] # Idle /\ job'[p].step = s /\ job'[p].builds = b
           /\ job'[p].run = job[p].run /\ job'[p].patches = job[p].patches
           /\ \A q \in Users : q # p => job'[q] = job[q]
<1> DEFINE j == [job[p] EXCEPT !.step = s, !.builds = b]
<1>1. j \in Job /\ j.step = s /\ j.builds = b /\ j.run = job[p].run /\ j.patches = job[p].patches
  BY DEF Job
<1>2. j # Idle /\ job[p] # Idle
  BY <1>1, JobIsNotIdle
<1>3. job' = [job EXCEPT ![p] = j]
  BY DEF Onwards
<1> HIDE DEF j
<1> QED
  BY <1>1, <1>2, <1>3 DEF TypeOK

LEMMA OverMoves ==
    ASSUME TypeOK, NEW p \in Users, Over(p)
    PROVE  /\ job' \in [Users -> Job \cup {Idle}]
           /\ \A q \in Users : job'[q] # Idle => job'[q].run.by = q
           /\ job'[p] = Idle
           /\ \A q \in Users : q # p => job'[q] = job[q]
  BY DEF TypeOK, Over

LEMMA GotoMoves ==
    ASSUME TypeOK, NEW p \in Users, job[p] \in Job, NEW s, Goto(p, s)
    PROVE  Onwards(p, s, job[p].builds)
<1>1. [job[p] EXCEPT !.step = s] = [job[p] EXCEPT !.step = s, !.builds = job[p].builds]
  BY DEF Job
<1> QED
  BY <1>1 DEF Goto, Become, Onwards

LEMMA LeaveMoves ==
    ASSUME TypeOK, NEW p \in Users, job[p] \in Job, Leave(p)
    PROVE  \/ job[p].patches /\ Onwards(p, "unpatch", job[p].builds)
           \/ ~job[p].patches /\ Over(p)
<1>1. CASE job[p].patches
  BY <1>1, GotoMoves DEF Leave
<1>2. CASE ~job[p].patches
  BY <1>2 DEF Leave, Become, Over
<1> QED
  BY <1>1, <1>2

-----------------------------------------------------------------------------
\* The steps a run moves to, and what it takes with it.
After(step) ==
    CASE step = "patching" -> {"image", "unpatch"}
      [] step = "image"    -> {"tree"}
      [] step = "tree"     -> {"add", "building", "up"}
      [] step = "add"      -> {"adding", "unpatch"}
      [] step = "adding"   -> {"building", "up"}
      [] step = "building" -> {"tree", "unpatch"}
      [] step = "up"       -> {"awaiting", "down"}
      [] step = "awaiting" -> {"body", "down"}
      [] step = "body"     -> {"down"}
      [] step = "down"     -> {"drop", "unpatch"}
      [] step = "drop"     -> {"unpatch"}
      [] OTHER             -> {}

Moves(p) ==
    \/ \E s \in Steps \cap After(job[p].step), b \in BOOLEAN :
          Onwards(p, s, b) /\ (s = "unpatch" => job[p].patches)
    \/ /\ Over(p)
       /\ job[p].step \in {"add", "building", "down", "drop", "unpatch"}
       /\ job[p].step # "unpatch" => ~job[p].patches

LEMMA GotoIsMove ==
    ASSUME TypeOK, NEW p \in Users, job[p] \in Job, NEW s \in Steps \cap After(job[p].step),
           s = "unpatch" => job[p].patches, Goto(p, s)
    PROVE  Moves(p)
<1>1. job[p].builds \in BOOLEAN
  BY DEF Job
<1> QED
  BY <1>1, GotoMoves DEF Moves

LEMMA LeaveIsMove ==
    ASSUME TypeOK, NEW p \in Users, job[p] \in Job, Leave(p),
           job[p].step \in {"add", "building", "down", "drop"}
    PROVE  Moves(p)
<1>1. job[p].builds \in BOOLEAN /\ "unpatch" \in Steps \cap After(job[p].step)
  BY DEF Job, After, Steps
<1> QED
  BY <1>1, LeaveMoves DEF Moves

LEMMA StepMoves ==
    ASSUME TypeOK, NEW p \in Users, Step(p), At(p, "patching") => job[p].patches
    PROVE  job[p] \in Job /\ Moves(p)
<1>0. \A s \in Steps : job[p].step = s => job[p] \in Job
  BY AtIsJob DEF At
<1> USE DEF At, Steps, After
<1>1. CASE ApplyPatch(p)
  <2>1. job[p] \in Job /\ (Goto(p, "image") \/ Goto(p, "unpatch"))
    BY <1>0, <1>1 DEF ApplyPatch
  <2> QED
    BY <1>1, <2>1, GotoIsMove DEF ApplyPatch
<1>2. CASE FindImage(p)
  <2>1. job[p] \in Job /\ (image[Commit(p)] = "absent") \in BOOLEAN
    BY <1>0, <1>2 DEF FindImage
  <2>2. Onwards(p, "tree", image[Commit(p)] = "absent")
    BY <1>2 DEF FindImage, Become, Onwards
  <2> QED
    BY <1>2, <2>1, <2>2 DEF FindImage, Moves
<1>3. CASE FindTree(p)
  <2>1. job[p] \in Job /\ \E s \in {"add", "building", "up"} : Goto(p, s)
    BY <1>0, <1>3 DEF FindTree, Onward
  <2> QED
    BY <1>3, <2>1, GotoIsMove DEF FindTree
<1>4. CASE AddTree(p)
  <2>1. job[p] \in Job /\ (Goto(p, "adding") \/ Leave(p))
    BY <1>0, <1>4 DEF AddTree
  <2> QED
    BY <1>4, <2>1, GotoIsMove, LeaveIsMove DEF AddTree
<1>5. CASE Build(p)
  <2>1. job[p] \in Job /\ (Onwards(p, "tree", FALSE) \/ Leave(p))
    BY <1>0, <1>5 DEF Build, Become, Onwards
  <2> QED
    BY <1>5, <2>1, LeaveIsMove DEF Build, Moves
<1>6. CASE Up(p)
  <2>1. job[p] \in Job /\ \E s \in {"awaiting", "down"} : Goto(p, s)
    BY <1>0, <1>6 DEF Up
  <2> QED
    BY <1>6, <2>1, GotoIsMove DEF Up
<1>7. CASE Await(p)
  <2>1. job[p] \in Job /\ \E s \in {"body", "down"} : Goto(p, s)
    BY <1>0, <1>7 DEF Await
  <2> QED
    BY <1>7, <2>1, GotoIsMove DEF Await
<1>8. CASE EndBody(p)
  <2>1. job[p] \in Job
    BY <1>0, <1>8 DEF EndBody
  <2> QED
    BY <1>8, <2>1, GotoIsMove DEF EndBody
<1>9. CASE Down(p)
  <2>1. job[p] \in Job /\ (Goto(p, "drop") \/ Leave(p))
    BY <1>0, <1>9 DEF Down
  <2> QED
    BY <1>9, <2>1, GotoIsMove, LeaveIsMove DEF Down
<1>10. CASE Drop(p)
  <2>1. job[p] \in Job
    BY <1>0, <1>10 DEF Drop
  <2> QED
    BY <1>10, <2>1, LeaveIsMove DEF Drop
<1>11. CASE RemoveScratch(p)
  <2>1. job[p] \in Job
    BY <1>0, <1>11 DEF RemoveScratch
  <2> QED
    BY <1>11, <2>1 DEF RemoveScratch, Become, Over, Moves
<1> QED
  BY <1>1, <1>2, <1>3, <1>4, <1>5, <1>6, <1>7, <1>8, <1>9, <1>10, <1>11 DEF Step

-----------------------------------------------------------------------------
(* Type correctness.                                                       *)

LEMMA MovesType ==
    ASSUME TypeOK, NEW p \in Users, job[p] \in Job, Moves(p)
    PROVE  /\ job' \in [Users -> Job \cup {Idle}]
           /\ \A q \in Users : job'[q] # Idle => job'[q].run.by = q
           /\ \A q \in Users : q # p => job'[q] = job[q]
           /\ job'[p] = Idle \/ (job'[p].run = job[p].run /\ job'[p].patches = job[p].patches)
<1>1. CASE Over(p)
  BY <1>1, OverMoves
<1>2. CASE ~Over(p)
  <2>1. PICK s \in Steps, b \in BOOLEAN : Onwards(p, s, b)
    BY <1>2 DEF Moves
  <2> QED
    BY <2>1, Moved
<1> QED
  BY <1>1, <1>2

Entering == \A p \in Users : At(p, "patching") => job[p].patches

LEMMA EnteringStep ==
    ASSUME TypeOK, Entering, NEW p \in Users, job[p] \in Job, Moves(p)
    PROVE  Entering'
<1>1. CASE Over(p)
  BY <1>1, OverMoves DEF Entering, At, Idle
<1>2. CASE ~Over(p)
  <2>1. PICK s \in Steps \cap After(job[p].step), b \in BOOLEAN : Onwards(p, s, b)
    BY <1>2 DEF Moves
  <2>2. s # "patching"
    BY <2>1 DEF After
  <2> QED
    BY <2>1, <2>2, Moved DEF Entering, At
<1> QED
  BY <1>1, <1>2

LEMMA TypeStep == TypeOK /\ Entering /\ [Next]_vars => TypeOK' /\ Entering'
<1> SUFFICES ASSUME TypeOK, Entering, [Next]_vars PROVE TypeOK' /\ Entering'
  OBVIOUS
<1>1. ASSUME NEW p \in Users, NEW c \in Commits, Begin(p, c)
      PROVE  TypeOK' /\ Entering'
  <2> DEFINE r == [by |-> p, number |-> runs[p] + 1, commit |-> c]
             j == [step |-> IF c \in commits THEN "image" ELSE "patching", run |-> r,
                   patches |-> c \notin commits, builds |-> FALSE]
  <2>1. runs[p] + 1 \in 1..MaxRuns /\ runs' \in [Users -> 0..MaxRuns]
    BY <1>1, SandboxAssumption DEF Begin, TypeOK
  <2>2. r \in Run
    BY <2>1 DEF Run
  <2>3. j \in Job /\ j.run.by = p /\ (j.step = "patching" => j.patches)
    BY <2>2 DEF Job, Steps
  <2>4. job' = [job EXCEPT ![p] = j]
    BY <1>1 DEF Begin, Become
  <2> HIDE DEF j, r
  <2>5. /\ job' \in [Users -> Job \cup {Idle}]
        /\ \A q \in Users : job'[q] # Idle => job'[q].run.by = q
    BY <2>3, <2>4 DEF TypeOK
  <2>6. Entering'
    BY <2>3, <2>4 DEF Entering, At, TypeOK
  <2> QED
    BY <1>1, <2>1, <2>5, <2>6 DEF Begin, TypeOK, cache, services, mishaps
<1>2. ASSUME NEW p \in Users, Step(p)
      PROVE  TypeOK' /\ Entering'
  <2>1. job[p] \in Job /\ Moves(p)
    BY <1>2, StepMoves DEF Entering
  <2>2. Entering'
    BY <2>1, EnteringStep
  <2>3. job[p].run \in Run /\ Commit(p) \in Commits
    BY <2>1 DEF Job, Run, Commit
  <2>4. commits' \subseteq Commits /\ tree' \in [Commits -> Contents] /\ image' \in [Commits -> Contents]
    BY <1>2, <2>3 DEF Step, ApplyPatch, FindImage, FindTree, AddTree, Build, Up, Await, EndBody,
       Down, Drop, RemoveScratch, TypeOK, Contents, cache
  <2>5. adds' \subseteq Run /\ scratch' \subseteq Run /\ runs' = runs
    BY <1>2, <2>3 DEF Step, ApplyPatch, FindImage, FindTree, AddTree, Build, Up, Await, EndBody,
       Down, Drop, RemoveScratch, TypeOK, cache
  <2>6. stacks' \subseteq Run /\ starting' \subseteq stacks' /\ databases' \subseteq Run
    BY <1>2, <2>3 DEF Step, ApplyPatch, FindImage, FindTree, AddTree, Build, Up, Await, EndBody,
       Down, Drop, RemoveScratch, TypeOK, services
  <2>7. killed' \subseteq Run /\ faulty' \subseteq Run
    BY <1>2, <2>3 DEF Step, ApplyPatch, FindImage, FindTree, AddTree, Build, Up, Await, EndBody,
       Down, Drop, RemoveScratch, TypeOK, mishaps, Fails
  <2>8. TypeOK'
    BY <2>1, <2>4, <2>5, <2>6, <2>7, MovesType DEF TypeOK
  <2> QED
    BY <2>2, <2>8
<1>3. ASSUME NEW p \in Users, Kill(p)
      PROVE  TypeOK' /\ Entering'
  <2>1. Over(p) /\ job[p] \in Job
    BY <1>3 DEF Kill, Become, Over, TypeOK
  <2>2. job[p].run \in Run
    BY <2>1 DEF Job
  <2>3. Entering'
    BY <2>1, OverMoves DEF Entering, At, Idle
  <2> QED
    BY <1>3, <2>1, <2>2, <2>3, OverMoves DEF Kill, TypeOK, cache, services
<1>4. ASSUME NEW r \in adds, TreeAdded(r)
      PROVE  TypeOK' /\ Entering'
  <2>1. r \in Run /\ r.by \in Users /\ r.commit \in Commits
    BY <1>4 DEF TypeOK, Run
  <2>2. tree' \in [Commits -> Contents] /\ adds' \subseteq Run
    BY <1>4, <2>1 DEF TreeAdded, TypeOK, Contents
  <2>3. CASE At(r.by, "adding") /\ job[r.by].run = r
    <3>1. job[r.by] \in Job
      BY <2>1, <2>3, AtIsJob DEF Steps
    <3>2. \E s \in {"building", "up"} : Goto(r.by, s)
      BY <1>4, <2>3 DEF TreeAdded, Onward
    <3>3. Moves(r.by)
      BY <2>1, <2>3, <3>1, <3>2, GotoIsMove DEF At, After, Steps
    <3>4. Entering'
      BY <2>1, <3>1, <3>3, EnteringStep
    <3> QED
      BY <1>4, <2>1, <2>2, <3>1, <3>3, <3>4, MovesType DEF TreeAdded, TypeOK, services, mishaps
  <2>4. CASE ~(At(r.by, "adding") /\ job[r.by].run = r)
    BY <1>4, <2>2, <2>4 DEF TreeAdded, TypeOK, Entering, At, services, mishaps
  <2> QED
    BY <2>3, <2>4
<1>5. ASSUME NEW r \in starting, CollectorStarts(r)
      PROVE  TypeOK' /\ Entering'
  BY <1>5 DEF CollectorStarts, TypeOK, Entering, At, cache, mishaps
<1>6. CASE UNCHANGED vars
  BY <1>6 DEF vars, TypeOK, Entering, At
<1> QED
  BY <1>1, <1>2, <1>3, <1>4, <1>5, <1>6 DEF Next

\* Type correctness of the sandboxes and their caches.
THEOREM TypeCorrect == Spec => []TypeOK
<1>1. Init => TypeOK /\ Entering
  BY SandboxAssumption DEF Init, TypeOK, Entering, At, Idle, Contents
<1>2. Spec => [](TypeOK /\ Entering)
  BY <1>1, TypeStep, PTL DEF Spec
<1> QED
  BY <1>2, PTL

-----------------------------------------------------------------------------
(* Teardown.                                                               *)

\* Nothing but a run's own resources changes, and only Begin gives out a number.
LEMMA NumberedStep ==
    ASSUME TypeOK, Entering, Numbered, Next
    PROVE  Numbered'
<1> USE DEF Numbered
<1>0. runs \in [Users -> 0..MaxRuns] /\ MaxRuns \in Nat
  BY SandboxAssumption DEF TypeOK
<1>1. ASSUME NEW p \in Users, NEW c \in Commits, Begin(p, c)
      PROVE  Numbered'
  <2> DEFINE r == [by |-> p, number |-> runs[p] + 1, commit |-> c]
             j == [step |-> IF c \in commits THEN "image" ELSE "patching", run |-> r,
                   patches |-> c \notin commits, builds |-> FALSE]
  <2>1. job' = [job EXCEPT ![p] = j] /\ j.run.number = runs[p] + 1
    BY <1>1 DEF Begin, Become
  <2>2. runs' = [runs EXCEPT ![p] = runs[p] + 1] /\ UNCHANGED <<stacks, databases, scratch, adds>>
    BY <1>1 DEF Begin, cache, services
  <2>3. \A q \in Users : runs[q] <= runs'[q]
    BY <1>0, <2>2
  <2>4. \A t \in stacks \cup databases \cup scratch \cup adds : t.by \in Users /\ t.number \in Nat
    BY <1>0 DEF TypeOK, Run
  <2> HIDE DEF j
  <2>5. \A q \in Users : job'[q] # Idle => job'[q].run.number = runs'[q]
    BY <1>0, <2>1, <2>2 DEF TypeOK
  <2>6. \A t \in stacks \cup databases \cup scratch \cup adds : t.number <= runs'[t.by]
    <3> SUFFICES ASSUME NEW t \in stacks \cup databases \cup scratch \cup adds
                 PROVE  t.number <= runs'[t.by]
      OBVIOUS
    <3>1. t.by \in Users /\ t.number \in Nat /\ t.number <= runs[t.by]
      BY <2>4
    <3>2. runs[t.by] <= runs'[t.by] /\ runs[t.by] \in Nat /\ runs'[t.by] \in Nat
      BY <1>0, <2>2, <2>3, <3>1
    <3> QED
      BY <3>1, <3>2
  <2> QED
    BY <2>2, <2>5, <2>6
<1>2. ASSUME NEW p \in Users, Step(p)
      PROVE  Numbered'
  <2>1. job[p] \in Job /\ Moves(p)
    BY <1>2, StepMoves DEF Entering
  <2>2. job[p] # Idle
    BY <2>1, JobIsNotIdle
  <2>3. job[p].run.by = p /\ job[p].run.number = runs[p] /\ runs[p] \in Nat
    BY <1>0, <2>2 DEF TypeOK
  <2>4. runs' = runs
    BY <1>2 DEF Step, ApplyPatch, FindImage, FindTree, AddTree, Build, Up, Await, EndBody,
       Down, Drop, RemoveScratch
  <2>5. /\ stacks' \subseteq stacks \cup {job[p].run}
        /\ databases' \subseteq databases
        /\ scratch' \subseteq scratch \cup {job[p].run}
        /\ adds' \subseteq adds \cup {job[p].run}
    BY <1>2 DEF Step, ApplyPatch, FindImage, FindTree, AddTree, Build, Up, Await, EndBody,
       Down, Drop, RemoveScratch, cache, services
  <2>6. \A q \in Users : job'[q] # Idle => job'[q].run.number = runs'[q]
    BY <2>1, <2>2, <2>4, MovesType
  <2> QED
    BY <2>3, <2>4, <2>5, <2>6
<1>3. ASSUME NEW p \in Users, Kill(p)
      PROVE  Numbered'
  BY <1>3, OverMoves DEF Kill, Become, Over, cache, services
<1>4. ASSUME NEW r \in adds, TreeAdded(r)
      PROVE  Numbered'
  <2>1. r.by \in Users
    BY DEF TypeOK, Run
  <2>2. \A q \in Users : job'[q] # Idle => job[q] # Idle /\ job'[q].run = job[q].run
    <3>1. CASE At(r.by, "adding") /\ job[r.by].run = r
      <4>1. job[r.by] \in Job /\ job[r.by] # Idle
        BY <2>1, <3>1, AtIsJob DEF Steps
      <4>2. \E s \in {"building", "up"} : Goto(r.by, s)
        BY <1>4, <3>1 DEF TreeAdded, Onward
      <4>3. Moves(r.by)
        BY <2>1, <3>1, <4>1, <4>2, GotoIsMove DEF At, After, Steps
      <4> QED
        BY <2>1, <4>1, <4>3, MovesType
    <3>2. CASE ~(At(r.by, "adding") /\ job[r.by].run = r)
      BY <1>4, <3>2 DEF TreeAdded
    <3> QED
      BY <3>1, <3>2
  <2> QED
    BY <1>4, <2>2 DEF TreeAdded, services
<1>5. ASSUME NEW r \in starting, CollectorStarts(r)
      PROVE  Numbered'
  BY <1>5 DEF CollectorStarts, TypeOK, cache
<1> QED
  BY <1>1, <1>2, <1>3, <1>4, <1>5 DEF Next

\* A run that is under way holds what it made until the step that removes it.
LEMMA LeftStep ==
    ASSUME TypeOK, Numbered, Left, Next
    PROVE  Left'
<1> USE DEF Left
<1>0. Entering
  BY DEF Entering
<1>1. ASSUME NEW p \in Users, NEW c \in Commits, Begin(p, c)
      PROVE  Left'
  <2>1. job[p] = Idle /\ \A q \in Users : q # p => job'[q] = job[q]
    BY <1>1 DEF Begin, Become, TypeOK
  <2>2. UNCHANGED <<stacks, databases, scratch, killed, faulty>>
    BY <1>1 DEF Begin, services, mishaps
  <2>3. \A r \in Run : Active(r) => r.by # p
    BY <2>1 DEF Active
  <2>4. \A r \in Run : Active(r) => Active(r)' /\ job'[r.by] = job[r.by]
    BY <2>1, <2>3 DEF Active, Run
  <2>5. Entering'
    BY <1>0, <1>1, TypeStep DEF Next
  <2> QED
    BY <2>2, <2>4, <2>5 DEF Excused, Entering, TypeOK
<1>2. ASSUME NEW p \in Users, Step(p)
      PROVE  Left'
  <2> DEFINE me == job[p].run
  <2>1. job[p] \in Job /\ Moves(p) /\ job[p] # Idle
    BY <1>0, <1>2, StepMoves, JobIsNotIdle DEF Entering
  <2>2. me \in Run /\ me.by = p
    BY <2>1 DEF Job, TypeOK
  <2>3. Entering'
    BY <1>0, <2>1, EnteringStep
  <2>4. \A r \in Run : r.by # p => (Active(r) => Active(r)' /\ job'[r.by] = job[r.by])
    BY <2>1, MovesType DEF Active, Run
  <2>5. \A r \in Run : Active(r) /\ r.by = p => r = me
    BY DEF Active
  <2>6. /\ stacks' \subseteq stacks \cup {me} /\ databases' \subseteq databases
        /\ scratch' \subseteq scratch \cup {me} /\ killed' = killed /\ faulty \subseteq faulty'
    BY <1>2 DEF Step, ApplyPatch, FindImage, FindTree, AddTree, Build, Up, Await, EndBody,
       Down, Drop, RemoveScratch, cache, services, mishaps, Fails
  <2>7. ASSUME me \in stacks', me \notin killed' \cup faulty'
        PROVE  job'[p] # Idle /\ job'[p].run = me /\ job'[p].step \in InUse
    <3>1. me \notin Excused
      BY <2>6, <2>7 DEF Excused
    <3>2. CASE Up(p)
      <4>1. \E s \in {"awaiting", "down"} : Goto(p, s)
        BY <3>2 DEF Up
      <4> QED
        BY <2>1, <4>1, GotoMoves, Moved DEF InUse, Steps, Job
    <3>3. CASE Down(p)
      BY <2>7, <3>3 DEF Down, Fails
    <3>4. CASE ~Up(p) /\ ~Down(p)
      <4>1. stacks' = stacks
        BY <1>2, <3>4 DEF Step, ApplyPatch, FindImage, FindTree, AddTree, Build, Await, EndBody,
           Drop, RemoveScratch, services
      <4>2. job[p].step \in InUse
        BY <2>2, <2>7, <3>1, <4>1
      <4>3. Await(p) \/ EndBody(p)
        BY <1>2, <3>4, <4>2 DEF Step, ApplyPatch, FindImage, FindTree, AddTree, Build, Drop,
           RemoveScratch, At, InUse
      <4>4. \E s \in {"body", "down"} : Goto(p, s)
        BY <4>3 DEF Await, EndBody
      <4> QED
        BY <2>1, <4>4, GotoMoves, Moved DEF InUse, Steps, Job
    <3> QED
      BY <3>2, <3>3, <3>4
  <2>8. ASSUME me \in databases', me \notin killed' \cup faulty', ~Kept(me)
        PROVE  job'[p] # Idle /\ job'[p].run = me /\ job'[p].step \in InUse \cup {"drop"}
    <3>1. me \notin Excused /\ me \in databases
      BY <2>6, <2>8 DEF Excused
    <3>2. job[p].step \in InUse \cup {"drop"}
      BY <2>2, <2>8, <3>1
    <3>3. ~Drop(p)
      BY <2>8 DEF Drop, Fails
    <3>4. Await(p) \/ EndBody(p) \/ Down(p)
      BY <1>2, <3>2, <3>3 DEF Step, ApplyPatch, FindImage, FindTree, AddTree, Build, Up,
         RemoveScratch, At, InUse
    <3>5. \E s \in {"body", "down", "drop"} : Goto(p, s)
      BY <2>8, <3>4 DEF Await, EndBody, Down
    <3> QED
      BY <2>1, <3>5, GotoMoves, Moved DEF InUse, Steps, Job
  <2>9. ASSUME me \in scratch', me \notin killed' \cup faulty'
        PROVE  job'[p] # Idle /\ job'[p].run = me /\ job'[p].patches
    <3>1. me \notin Excused
      BY <2>6, <2>9 DEF Excused
    <3>2. job[p].patches
      <4>1. CASE ApplyPatch(p)
        BY <4>1 DEF ApplyPatch
      <4>2. CASE ~ApplyPatch(p)
        <5>1. me \in scratch
          BY <1>2, <2>9, <4>2 DEF Step, FindImage, FindTree, AddTree, Build, Up, Await, EndBody,
             Down, Drop, RemoveScratch
        <5> QED
          BY <2>2, <3>1, <5>1
      <4> QED
        BY <4>1, <4>2
    <3>3. ~RemoveScratch(p)
      BY <2>9 DEF RemoveScratch, Fails
    <3>4. job[p].step # "unpatch"
      BY <1>2, <3>3 DEF Step, ApplyPatch, FindImage, FindTree, AddTree, Build, Up, Await, EndBody,
         Down, Drop, At
    <3>5. PICK s \in Steps, b \in BOOLEAN : Onwards(p, s, b)
      BY <2>1, <3>2, <3>4 DEF Moves
    <3> QED
      BY <2>1, <3>2, <3>5, Moved
  <2> HIDE DEF me
  <2>10. \A r \in stacks' \ (killed' \cup faulty') : Active(r)' /\ job'[r.by].step \in InUse
    BY <2>2, <2>4, <2>5, <2>6, <2>7 DEF Active, Excused, TypeOK
  <2>11. \A r \in databases' \ (killed' \cup faulty') :
            Kept(r) \/ (Active(r)' /\ job'[r.by].step \in InUse \cup {"drop"})
    BY <2>2, <2>4, <2>5, <2>6, <2>8 DEF Active, Excused, TypeOK
  <2>12. \A r \in scratch' \ (killed' \cup faulty') : Active(r)' /\ job'[r.by].patches
    BY <2>2, <2>4, <2>5, <2>6, <2>9 DEF Active, Excused, TypeOK
  <2> QED
    BY <2>3, <2>10, <2>11, <2>12 DEF Excused, Entering, Kept
<1>3. ASSUME NEW p \in Users, Kill(p)
      PROVE  Left'
  <2>1. job'[p] = Idle /\ \A q \in Users : q # p => job'[q] = job[q]
    BY <1>3, OverMoves DEF Kill, Become, Over
  <2>2. killed' = killed \cup {job[p].run} /\ UNCHANGED <<stacks, databases, scratch, faulty>>
    BY <1>3 DEF Kill, services
  <2>3. \A r \in Run : (Active(r) /\ r \notin killed') => Active(r)' /\ job'[r.by] = job[r.by]
    BY <2>1, <2>2 DEF Active, Run
  <2>4. Entering'
    BY <1>0, <1>3, TypeStep DEF Next
  <2> QED
    BY <2>2, <2>3, <2>4 DEF Excused, Entering, TypeOK
<1>4. ASSUME NEW r \in adds, TreeAdded(r)
      PROVE  Left'
  <2>1. r.by \in Users
    BY DEF TypeOK, Run
  <2>2. UNCHANGED <<stacks, databases, scratch, killed, faulty>>
    BY <1>4 DEF TreeAdded, services, mishaps
  <2>3. Entering'
    BY <1>0, <1>4, TypeStep DEF Next
  <2>4. CASE At(r.by, "adding") /\ job[r.by].run = r
    <3>1. job[r.by] \in Job /\ job[r.by] # Idle
      BY <2>1, <2>4, AtIsJob DEF Steps
    <3>2. \E s \in {"building", "up"} : Goto(r.by, s)
      BY <1>4, <2>4 DEF TreeAdded, Onward
    <3>3. /\ job'[r.by] # Idle /\ job'[r.by].run = r /\ job'[r.by].patches = job[r.by].patches
          /\ \A q \in Users : q # r.by => job'[q] = job[q]
      BY <2>1, <2>4, <3>1, <3>2, GotoMoves, Moved DEF Job, Steps
    <3>4. job[r.by].step \notin InUse \cup {"drop"}
      BY <2>4 DEF At, InUse
    <3>5. \A t \in Run : (Active(t) /\ t.by # r.by) => Active(t)' /\ job'[t.by] = job[t.by]
      BY <3>3 DEF Active, Run
    <3>6. \A t \in Run : (Active(t) /\ t.by = r.by) => Active(t)' /\ job'[t.by].patches = job[t.by].patches
      BY <3>3, <2>4 DEF Active, Run
    <3> QED
      BY <2>2, <2>3, <3>4, <3>5, <3>6 DEF Excused, Entering, TypeOK
  <2>5. CASE ~(At(r.by, "adding") /\ job[r.by].run = r)
    BY <1>4, <2>2, <2>5 DEF TreeAdded, Excused, Active, At
  <2> QED
    BY <2>4, <2>5
<1>5. ASSUME NEW r \in starting, CollectorStarts(r)
      PROVE  Left'
  <2>1. /\ databases' = databases \cup {r} /\ r \in stacks
        /\ UNCHANGED <<stacks, scratch, job, killed, faulty>>
    BY <1>5 DEF CollectorStarts, mishaps, TypeOK
  <2> QED
    BY <2>1 DEF Excused, Active, At
<1> QED
  BY <1>1, <1>2, <1>3, <1>4, <1>5 DEF Next

\* However runs interleave, fail and start: stacks, databases and scratch worktrees
\* are those of runs that will remove them, unless a kill or a failing command says why.
THEOREM TornDown == Spec => []NothingIsLeftBehind
<1>1. Init => TypeOK /\ Entering /\ Numbered /\ Left
  BY SandboxAssumption DEF Init, TypeOK, Entering, At, Idle, Contents, Numbered, Left
<1>2. TypeOK /\ Entering /\ Numbered /\ Left /\ [Next]_vars => Numbered' /\ Left'
  <2> SUFFICES ASSUME TypeOK, Entering, Numbered, Left, [Next]_vars PROVE Numbered' /\ Left'
    OBVIOUS
  <2>1. CASE Next
    BY <2>1, NumberedStep, LeftStep
  <2>2. CASE UNCHANGED vars
    BY <2>2 DEF vars, Numbered, Left, Excused, Active, At
  <2> QED
    BY <2>1, <2>2
<1>3. TypeOK /\ Left => NothingIsLeftBehind
  <2> SUFFICES ASSUME TypeOK, Left,
                      NEW r \in (stacks \cup databases \cup scratch) \ (killed \cup faulty)
               PROVE  \/ r \in databases /\ Kept(r) /\ r \notin stacks \cup scratch
                      \/ Active(r) /\ /\ r \in stacks => job[r.by].step \in {"awaiting", "body", "down"}
                                      /\ (r \in databases /\ ~Kept(r)) =>
                                             job[r.by].step \in {"awaiting", "body", "down", "drop"}
    BY DEF NothingIsLeftBehind
  <2> QED
    BY DEF Left, Excused, InUse
<1>4. Spec => [](TypeOK /\ Entering /\ Numbered /\ Left)
  BY <1>1, <1>2, TypeStep, PTL DEF Spec
<1> QED
  BY <1>3, <1>4, PTL

-----------------------------------------------------------------------------
(* The worktree and the image.                                             *)

\* The step of a run leaves other commits' trees and images alone.
LEMMA Touches ==
    ASSUME TypeOK, NEW p \in Users, Step(p), job[p] \in Job
    PROVE  /\ \A c \in Commits : c # Commit(p) => tree'[c] = tree[c] /\ image'[c] = image[c]
           /\ killed' = killed
           /\ adds' = adds \/ (AddTree(p) /\ adds' = adds \cup {job[p].run})
           /\ tree' = tree \/ (AddTree(p) /\ adds' = adds \cup {job[p].run})
           /\ image' = image \/ Build(p)
<1>1. Commit(p) \in Commits
  BY DEF Job, Run, Commit
<1>2. CASE AddTree(p)
  BY <1>1, <1>2 DEF AddTree, TypeOK, mishaps
<1>3. CASE Build(p)
  BY <1>1, <1>3 DEF Build, TypeOK, mishaps
<1>4. CASE ~AddTree(p) /\ ~Build(p)
  BY <1>4 DEF Step, ApplyPatch, FindImage, FindTree, Up, Await, EndBody, Down, Drop,
     RemoveScratch, cache, mishaps
<1> QED
  BY <1>2, <1>3, <1>4

\* A commit has one user, or is disputed.
LEMMA OneUser ==
    ASSUME TypeOK, Waited, NEW p \in Users, NEW q \in Users, p # q,
           job[p] # Idle, job[q] # Idle, Undisputed(Commit(q))
    PROVE  Commit(p) # Commit(q)
  BY DEF Waited, Undisputed

\* The worktree of a commit that no other process uses is whole when it is there and
\* its user is not adding it.
LEMMA TreeIsWhole ==
    ASSUME TypeOK, Waited, Sources, NEW p \in Users, job[p] # Idle, ~At(p, "adding"),
           Commit(p) \in Commits, Undisputed(Commit(p)), tree[Commit(p)] # "absent"
    PROVE  tree[Commit(p)] = "whole"
<1>1. ASSUME tree[Commit(p)] = "partial" PROVE FALSE
  <2>1. PICK r \in adds : r.commit = Commit(p)
    BY <1>1 DEF Sources
  <2>2. r \notin killed /\ r.by \in Users
    BY DEF Undisputed, TypeOK, Run
  <2>3. At(r.by, "adding") /\ r.commit \in Uses[r.by] /\ Commit(p) \in Uses[p]
    BY <2>1, <2>2 DEF Waited
  <2>4. r.by = p
    BY <2>1, <2>2, <2>3 DEF Undisputed
  <2> QED
    BY <2>3, <2>4
<1> QED
  BY <1>1 DEF TypeOK, Contents

LEMMA WaitedStep ==
    ASSUME TypeOK, Entering, Made, NEW p \in Users, Step(p)
    PROVE  Waited'
<1>1. job[p] \in Job /\ Moves(p) /\ job[p] # Idle
  BY StepMoves, JobIsNotIdle DEF Entering
<1>2. job[p].run \in Run /\ job[p].run.by = p
  BY <1>1 DEF Job, TypeOK
<1>3. /\ \A q \in Users : q # p => job'[q] = job[q]
      /\ job'[p] = Idle \/ job'[p].run = job[p].run
  BY <1>1, MovesType
<1>4. killed' = killed /\ (adds' = adds \/ (AddTree(p) /\ adds' = adds \cup {job[p].run}))
  BY <1>1, Touches
<1>5. \A q \in Users : job'[q] # Idle => job'[q].run.commit \in Uses[q]
  BY <1>1, <1>3 DEF Made, Waited, Commit
<1>6. \A r \in adds' : r.commit \in Uses[r.by]
  BY <1>1, <1>2, <1>4 DEF Made, Waited, Commit
<1>7. ASSUME NEW r \in adds', r \notin killed
      PROVE  job'[r.by] # Idle /\ job'[r.by].run = r /\ job'[r.by].step = "adding"
  <2>1. CASE r \in adds
    <3>1. r.by \in Users /\ job[r.by].step = "adding" /\ Active(r)
      BY <1>7, <2>1 DEF Made, Waited, At, TypeOK, Run
    <3>2. job[p].step # "adding"
      BY DEF Step, ApplyPatch, FindImage, FindTree, AddTree, Build, Up, Await, EndBody, Down,
         Drop, RemoveScratch, At
    <3> QED
      BY <1>3, <3>1, <3>2 DEF Active
  <2>2. CASE r \notin adds
    <3>1. AddTree(p) /\ r = job[p].run
      BY <1>4, <1>7, <2>2
    <3>2. Goto(p, "adding")
      BY <1>4, <1>7, <2>2, <3>1 DEF AddTree
    <3> QED
      BY <1>1, <1>2, <3>1, <3>2, GotoMoves, Moved DEF Job, Steps
  <2> QED
    BY <2>1, <2>2
<1> QED
  BY <1>4, <1>5, <1>6, <1>7 DEF Waited, Active, At, Commit

LEMMA SourcesStep ==
    ASSUME TypeOK, Entering, Made, NEW p \in Users, Step(p)
    PROVE  Sources'
<1>1. job[p] \in Job /\ job[p] # Idle /\ Commit(p) \in Commits
  BY StepMoves, JobIsNotIdle DEF Entering, Job, Run, Commit
<1>2. /\ \A c \in Commits : c # Commit(p) => tree'[c] = tree[c] /\ image'[c] = image[c]
      /\ killed' = killed
      /\ adds' = adds \/ adds' = adds \cup {job[p].run}
      /\ tree' = tree \/ adds' = adds \cup {job[p].run}
      /\ image' = image \/ Build(p)
  BY <1>1, Touches
<1>3. ASSUME NEW c \in Commits, tree'[c] = "partial"
      PROVE  \E r \in adds' : r.commit = c
  <2>1. CASE tree'[c] = tree[c]
    BY <1>2, <1>3, <2>1 DEF Made, Sources
  <2>2. CASE tree'[c] # tree[c]
    BY <1>2, <2>2 DEF Commit
  <2> QED
    BY <2>1, <2>2
<1>4. ASSUME NEW c \in Commits, Undisputed(c)
      PROVE  image'[c] # "partial"
  <2>1. CASE image'[c] = image[c]
    BY <1>4, <2>1 DEF Made, Sources
  <2>2. CASE image'[c] # image[c]
    <3>1. Build(p) /\ c = Commit(p)
      BY <1>2, <2>2
    <3>2. tree[c] = "whole"
      BY <1>1, <1>4, <3>1 DEF Made, Relies, Build, At
    <3>3. image'[c] = tree[c]
      BY <2>2, <3>1, <1>1 DEF Build, TypeOK
    <3> QED
      BY <3>2, <3>3
  <2> QED
    BY <2>1, <2>2
<1> QED
  BY <1>2, <1>3, <1>4 DEF Sources, Undisputed

\* The run that steps.
LEMMA ReliesOwn ==
    ASSUME TypeOK, Entering, Made, NEW p \in Users, Step(p), job'[p] # Idle
    PROVE  Relies(p)'
<1> DEFINE c == Commit(p)
<1>1. job[p] \in Job /\ job[p] # Idle /\ Moves(p) /\ c \in Commits
  BY StepMoves, JobIsNotIdle DEF Entering, Job, Run, Commit
<1>2. job'[p].run = job[p].run /\ killed' = killed
  BY <1>1, MovesType, Touches
<1> SUFFICES ASSUME Undisputed(c)
             PROVE  /\ job'[p].step \in {"tree", "add", "adding"} /\ ~job'[p].builds =>
                          image'[c] = "whole"
                    /\ job'[p].step = "building" => tree'[c] = "whole" /\ job'[p].builds
                    /\ job'[p].step \in {"up", "awaiting", "body"} =>
                          image'[c] = "whole" /\ tree'[c] = "whole"
  BY <1>2 DEF Relies, Undisputed, Commit
<1>3. /\ job[p].step \in {"tree", "add", "adding"} /\ ~job[p].builds => image[c] = "whole"
      /\ job[p].step = "building" => tree[c] = "whole" /\ job[p].builds
      /\ job[p].step \in {"up", "awaiting", "body"} => image[c] = "whole" /\ tree[c] = "whole"
  BY <1>1 DEF Made, Relies
<1>4. image[c] # "partial" /\ image[c] \in Contents
  BY <1>1 DEF Made, Sources, TypeOK
<1>5. CASE job'[p].step \in {"patching", "image", "down", "drop", "unpatch"}
  BY <1>5
<1>6. CASE FindImage(p)
  <2>1. Onwards(p, "tree", image[c] = "absent") /\ (image[c] = "absent") \in BOOLEAN
    BY <1>6 DEF FindImage, Become, Onwards
  <2>2. job'[p].step = "tree" /\ job'[p].builds = (image[c] = "absent")
    BY <1>1, <2>1, Moved DEF Steps
  <2>3. image' = image
    BY <1>6 DEF FindImage, cache
  <2> QED
    BY <1>4, <2>2, <2>3 DEF Contents
<1>7. CASE FindTree(p)
  <2>1. job[p].step = "tree" /\ tree' = tree /\ image' = image
    BY <1>7 DEF FindTree, At, cache
  <2>2. CASE tree[c] = "absent"
    <3>1. Goto(p, "add")
      BY <1>7, <2>2 DEF FindTree
    <3>2. job'[p].step = "add" /\ job'[p].builds = job[p].builds
      BY <1>1, <3>1, GotoMoves, Moved DEF Steps, Job
    <3> QED
      BY <1>3, <2>1, <3>2
  <2>3. CASE tree[c] # "absent"
    <3>1. tree[c] = "whole"
      BY <1>1, <2>1, <2>3, TreeIsWhole DEF Made, At
    <3>2. Goto(p, IF job[p].builds THEN "building" ELSE "up")
      BY <1>7, <2>3 DEF FindTree, Onward
    <3>3. /\ job'[p].step = IF job[p].builds THEN "building" ELSE "up"
          /\ job'[p].builds = job[p].builds
      BY <1>1, <3>2, GotoMoves, Moved DEF Steps, Job
    <3> QED
      BY <1>3, <2>1, <3>1, <3>3
  <2> QED
    BY <2>2, <2>3
<1>8. CASE AddTree(p)
  <2>1. image' = image /\ job[p].step = "add" /\ (Goto(p, "adding") \/ Leave(p))
    BY <1>8 DEF AddTree, At
  <2>2. CASE Goto(p, "adding")
    <3>1. job'[p].step = "adding" /\ job'[p].builds = job[p].builds
      BY <1>1, <2>2, GotoMoves, Moved DEF Steps, Job
    <3> QED
      BY <1>3, <2>1, <3>1
  <2>3. CASE Leave(p)
    BY <1>1, <1>5, <2>3, LeaveMoves, OverMoves, Moved DEF Steps, Job
  <2> QED
    BY <2>1, <2>2, <2>3
<1>9. CASE Build(p)
  <2>1. job[p].step = "building"
    BY <1>9 DEF Build, At
  <2>2. CASE Leave(p)
    BY <1>1, <1>5, <2>2, LeaveMoves, OverMoves, Moved DEF Steps, Job
  <2>3. CASE ~Leave(p)
    <3>1. image'[c] = tree[c] /\ Onwards(p, "tree", FALSE)
      BY <1>1, <1>9, <2>3 DEF Build, Become, Onwards, TypeOK
    <3>2. job'[p].step = "tree"
      BY <1>1, <3>1, Moved DEF Steps
    <3> QED
      BY <1>3, <2>1, <3>1, <3>2
  <2> QED
    BY <2>2, <2>3
<1>10. CASE Up(p) \/ Await(p)
  <2>1. job[p].step \in {"up", "awaiting"} /\ tree' = tree /\ image' = image
    BY <1>10 DEF Up, Await, At, cache
  <2>2. \E s \in {"awaiting", "body", "down"} : Goto(p, s)
    BY <1>10 DEF Up, Await
  <2>3. job'[p].step \in {"awaiting", "body", "down"}
    BY <1>1, <2>2, GotoMoves, Moved DEF Steps, Job
  <2> QED
    BY <1>3, <2>1, <2>3
<1>11. CASE ApplyPatch(p) \/ EndBody(p) \/ Down(p) \/ Drop(p) \/ RemoveScratch(p)
  <2>1. job[p].step \in {"patching", "body", "down", "drop", "unpatch"}
    BY <1>11 DEF ApplyPatch, EndBody, Down, Drop, RemoveScratch, At
  <2>2. ~Over(p)
    BY OverMoves
  <2>3. PICK s \in Steps \cap After(job[p].step), b \in BOOLEAN : Onwards(p, s, b)
    BY <1>1, <2>2 DEF Moves
  <2>4. s \in {"image", "down", "drop", "unpatch"}
    BY <2>1, <2>3 DEF After
  <2>5. job'[p].step = s
    BY <1>1, <2>3, Moved
  <2> QED
    BY <1>5, <2>4, <2>5
<1> QED
  BY <1>6, <1>7, <1>8, <1>9, <1>10, <1>11 DEF Step

LEMMA MadeStep ==
    ASSUME TypeOK, TypeOK', Entering, Made, Next
    PROVE  Made'
<1>1. ASSUME NEW p \in Users, NEW c \in Commits, Begin(p, c)
      PROVE  Made'
  <2>1. job[p] = Idle /\ UNCHANGED <<tree, image, adds, killed>>
    BY <1>1 DEF Begin, cache, mishaps
  <2>2. /\ \A q \in Users : q # p => job'[q] = job[q]
        /\ job'[p].run.commit = c /\ c \in Uses[p]
        /\ job'[p].step \in {"image", "patching"}
    BY <1>1 DEF Begin, Become, TypeOK
  <2>3. Waited'
    <3>1. \A r \in adds \ killed : r.by # p /\ r.by \in Users
      BY <2>1 DEF Made, Waited, Active, TypeOK, Run
    <3> QED
      BY <2>1, <2>2, <3>1 DEF Made, Waited, Active, At, Commit
  <2>4. Sources'
    BY <2>1 DEF Made, Sources, Undisputed
  <2>5. \A q \in Users : (job[q] # Idle => Relies(q))'
    BY <2>1, <2>2 DEF Made, Relies, Undisputed, Commit
  <2> QED
    BY <2>3, <2>4, <2>5 DEF Made
<1>2. ASSUME NEW p \in Users, Step(p)
      PROVE  Made'
  <2>1. job[p] \in Job /\ job[p] # Idle /\ Moves(p)
    BY <1>2, StepMoves, JobIsNotIdle DEF Entering
  <2>2. ASSUME NEW q \in Users, q # p, job'[q] # Idle
        PROVE  Relies(q)'
    <3>1. job'[q] = job[q] /\ Commit(q) \in Commits /\ killed' = killed
      BY <1>2, <2>1, <2>2, MovesType, Touches DEF TypeOK, Job, Run, Commit
    <3>2. CASE ~Undisputed(Commit(q))
      BY <3>1, <3>2 DEF Relies, Undisputed, Commit
    <3>3. CASE Undisputed(Commit(q))
      <4>1. tree'[Commit(q)] = tree[Commit(q)] /\ image'[Commit(q)] = image[Commit(q)]
        BY <1>2, <2>1, <2>2, <3>1, <3>3, OneUser, Touches DEF Made
      <4>2. Relies(q)
        BY <2>2, <3>1 DEF Made
      <4> QED
        BY <3>1, <4>1, <4>2 DEF Relies, Undisputed, Commit
    <3> QED
      BY <3>2, <3>3
  <2>3. \A q \in Users : (job[q] # Idle => Relies(q))'
    BY <1>2, <2>2, ReliesOwn
  <2> QED
    BY <1>2, <2>3, WaitedStep, SourcesStep DEF Made
<1>3. ASSUME NEW p \in Users, Kill(p)
      PROVE  Made'
  <2>1. /\ job'[p] = Idle /\ \A q \in Users : q # p => job'[q] = job[q]
        /\ killed' = killed \cup {job[p].run} /\ UNCHANGED <<tree, image, adds>>
    BY <1>3, OverMoves DEF Kill, Become, Over, cache
  <2>2. Waited'
    BY <2>1 DEF Made, Waited, Active, At, Commit, TypeOK, Run
  <2>3. Sources' /\ \A q \in Users : Relies(q)'
    BY <2>1 DEF Made, Sources, Relies, Undisputed
  <2> QED
    BY <2>2, <2>3 DEF Made
<1>4. ASSUME NEW r \in adds, TreeAdded(r)
      PROVE  Made'
  <2>1. /\ r \in Run /\ r.by \in Users /\ r.commit \in Commits
        /\ adds' = adds \ {r} /\ tree' = [tree EXCEPT ![r.commit] = "whole"]
        /\ UNCHANGED <<image, killed>>
    BY <1>4 DEF TreeAdded, TypeOK, Run, mishaps
  <2>2. \A c \in Commits : tree'[c] = IF c = r.commit THEN "whole" ELSE tree[c]
    BY <2>1 DEF TypeOK
  <2>3. Sources'
    BY <2>1, <2>2 DEF Made, Sources, Undisputed
  <2>4. CASE At(r.by, "adding") /\ job[r.by].run = r
    <3> DEFINE p == r.by
    <3>1. job[p] \in Job /\ job[p] # Idle
      BY <2>1, <2>4, AtIsJob DEF Steps
    <3>2. Goto(p, IF job[p].builds THEN "building" ELSE "up")
      BY <1>4, <2>4 DEF TreeAdded, Onward
    <3>3. /\ job'[p].run = r /\ job'[p].builds = job[p].builds
          /\ job'[p].step = IF job[p].builds THEN "building" ELSE "up"
          /\ \A q \in Users : q # p => job'[q] = job[q]
      BY <2>1, <2>4, <3>1, <3>2, GotoMoves, Moved DEF Job, Steps
    <3>4. Waited'
      <4>1. \A t \in adds' \ killed : t.by # p /\ t.by \in Users
        BY <2>1, <2>4 DEF Made, Waited, Active, TypeOK, Run
      <4> QED
        BY <2>1, <2>4, <3>1, <3>3, <4>1 DEF Made, Waited, Active, At, Commit
    <3>5. Relies(p)'
      BY <2>1, <2>2, <2>4, <3>1, <3>3 DEF Made, Relies, At, Undisputed, Commit
    <3>6. ASSUME NEW q \in Users, q # p, job'[q] # Idle
          PROVE  Relies(q)'
      <4>1. Relies(q) /\ job'[q] = job[q] /\ Commit(q) \in Commits
        BY <3>3, <3>6 DEF Made, TypeOK, Job, Run, Commit
      <4> QED
        BY <2>1, <2>2, <4>1 DEF Relies, Undisputed, Commit
    <3> QED
      BY <2>3, <3>4, <3>5, <3>6 DEF Made
  <2>5. CASE ~(At(r.by, "adding") /\ job[r.by].run = r)
    <3>1. job' = job
      BY <1>4, <2>5 DEF TreeAdded
    <3>2. Waited'
      BY <2>1, <3>1 DEF Made, Waited, Active, At, Commit
    <3>3. ASSUME NEW q \in Users, job[q] # Idle
          PROVE  Relies(q)'
      <4>1. Relies(q) /\ Commit(q) \in Commits
        BY <3>3 DEF Made, TypeOK, Job, Run, Commit
      <4> QED
        BY <2>1, <2>2, <3>1, <4>1 DEF Relies, Undisputed, Commit
    <3> QED
      BY <2>3, <3>1, <3>2, <3>3 DEF Made
  <2> QED
    BY <2>4, <2>5
<1>5. ASSUME NEW r \in starting, CollectorStarts(r)
      PROVE  Made'
  BY <1>5 DEF CollectorStarts, Made, Waited, Sources, Relies, Undisputed, Active, At, Commit,
     cache, mishaps
<1> QED
  BY <1>1, <1>2, <1>3, <1>4, <1>5 DEF Next

\* A commit that one process uses, none being killed, is measured in an image made of
\* a complete checkout of it, however the other commits' runs interleave.
THEOREM MeasuresTheCommit == Spec => []RunsTheCommit
<1>1. Init => TypeOK /\ Entering /\ Made
  BY SandboxAssumption DEF Init, TypeOK, Entering, At, Idle, Contents, Made, Waited, Sources
<1>2. TypeOK /\ Entering /\ Made /\ [Next]_vars => Made'
  <2> SUFFICES ASSUME TypeOK, Entering, Made, [Next]_vars PROVE Made'
    OBVIOUS
  <2>1. CASE Next
    BY <2>1, MadeStep, TypeStep
  <2>2. CASE UNCHANGED vars
    BY <2>2 DEF vars, Made, Waited, Sources, Relies, Undisputed, Active, At, Commit
  <2> QED
    BY <2>1, <2>2
<1>3. TypeOK /\ Made => RunsTheCommit
  BY AtIsJob DEF Made, Relies, RunsTheCommit, At, Steps
<1>4. Spec => [](TypeOK /\ Entering /\ Made)
  BY <1>1, <1>2, TypeStep, PTL DEF Spec
<1> QED
  BY <1>3, <1>4, PTL

-----------------------------------------------------------------------------
(* A sandbox is bounded: the steps that it still has.                      *)

\* The worktree is asked for once for the image, if there is none, and once more.
LeftAt(step, builds) ==
    CASE step = "patching" -> 15
      [] step = "image"    -> 14
      [] step = "tree"     -> IF builds THEN 13 ELSE 9
      [] step = "add"      -> IF builds THEN 12 ELSE 8
      [] step = "adding"   -> IF builds THEN 11 ELSE 7
      [] step = "building" -> 10
      [] step = "up"       -> 6
      [] step = "awaiting" -> 5
      [] step = "body"     -> 4
      [] step = "down"     -> 3
      [] step = "drop"     -> 2
      [] step = "unpatch"  -> 1
      [] OTHER             -> 0

StepsLeft(p) == LeftAt(job[p].step, job[p].builds)

\* The worktree that the process p is waiting for is there.
TreeArrives(p) == \E r \in adds : TreeAdded(r) /\ At(p, "adding") /\ job[p].run = r

\* A sandbox has a step less after each of its own, and never more.
SandboxAdvances(p) ==
    [][job[p] # Idle =>
         /\ StepsLeft(p)' <= StepsLeft(p)
         /\ Step(p) \/ TreeArrives(p) \/ Kill(p) => StepsLeft(p)' < StepsLeft(p)]_vars

LEMMA StepsType ==
    ASSUME TypeOK, NEW p \in Users
    PROVE  /\ StepsLeft(p) \in 0..15
           /\ StepsLeft(p) = 0 <=> job[p] = Idle
<1>1. CASE job[p] = Idle
  <2>1. job[p].step = "idle"
    BY <1>1 DEF Idle
  <2>2. StepsLeft(p) = 0
    BY <2>1 DEF StepsLeft, LeftAt
  <2> QED
    BY <1>1, <2>2
<1>2. CASE job[p] # Idle
  <2>1. job[p].step \in Steps
    BY <1>2 DEF TypeOK, Job
  <2>2. StepsLeft(p) \in 1..15
    BY <2>1 DEF StepsLeft, LeftAt, Steps
  <2> QED
    BY <1>2, <2>2
<1> QED
  BY <1>1, <1>2

LEMMA OverSpends ==
    ASSUME TypeOK, NEW p \in Users, job[p] \in Job, Over(p)
    PROVE  StepsLeft(p)' < StepsLeft(p)
<1>1. job'[p].step = "idle" /\ job[p] # Idle
  BY OverMoves, JobIsNotIdle DEF Idle
<1>2. StepsLeft(p)' = 0
  BY <1>1 DEF StepsLeft, LeftAt
<1>3. StepsLeft(p) \in 0..15 /\ StepsLeft(p) # 0
  BY <1>1, StepsType
<1> QED
  BY <1>2, <1>3

LEMMA OnwardsSpends ==
    ASSUME TypeOK, NEW p \in Users, job[p] \in Job, NEW s \in Steps, NEW b \in BOOLEAN,
           Onwards(p, s, b), LeftAt(s, b) < LeftAt(job[p].step, job[p].builds)
    PROVE  StepsLeft(p)' < StepsLeft(p)
<1>1. job'[p].step = s /\ job'[p].builds = b
  BY Moved
<1> QED
  BY <1>1 DEF StepsLeft

LEMMA GotoSpends ==
    ASSUME TypeOK, NEW p \in Users, job[p] \in Job, NEW s \in Steps, Goto(p, s),
           LeftAt(s, job[p].builds) < LeftAt(job[p].step, job[p].builds)
    PROVE  StepsLeft(p)' < StepsLeft(p)
<1>1. job[p].builds \in BOOLEAN /\ Onwards(p, s, job[p].builds)
  BY GotoMoves DEF Job
<1> QED
  BY <1>1, OnwardsSpends

LEMMA LeaveSpends ==
    ASSUME TypeOK, NEW p \in Users, job[p] \in Job, Leave(p),
           job[p].step \in Steps \ {"unpatch"}
    PROVE  StepsLeft(p)' < StepsLeft(p)
<1>1. CASE job[p].patches /\ Onwards(p, "unpatch", job[p].builds)
  <2>1. job[p].builds \in BOOLEAN /\ "unpatch" \in Steps
    BY DEF Job, Steps
  <2>2. LeftAt("unpatch", job[p].builds) < LeftAt(job[p].step, job[p].builds)
    BY DEF LeftAt, Steps
  <2> QED
    BY <1>1, <2>1, <2>2, OnwardsSpends
<1>2. CASE Over(p)
  BY <1>2, OverSpends
<1> QED
  BY <1>1, <1>2, LeaveMoves

\* ensure_image builds with the worktree; the sandbox that wants it comes up.
LEMMA OnwardSpends ==
    ASSUME TypeOK, NEW p \in Users, job[p] \in Job, Onward(p),
           job[p].step \in {"tree", "add", "adding"}
    PROVE  StepsLeft(p)' < StepsLeft(p)
<1>1. CASE job[p].builds
  <2>1. Goto(p, "building") /\ "building" \in Steps
    BY <1>1 DEF Onward, Steps
  <2>2. LeftAt("building", job[p].builds) < LeftAt(job[p].step, job[p].builds)
    BY <1>1 DEF LeftAt
  <2> QED
    BY <2>1, <2>2, GotoSpends
<1>2. CASE ~job[p].builds
  <2>1. Goto(p, "up") /\ "up" \in Steps
    BY <1>2 DEF Onward, Steps
  <2>2. LeftAt("up", job[p].builds) < LeftAt(job[p].step, job[p].builds)
    BY <1>2 DEF LeftAt
  <2> QED
    BY <2>1, <2>2, GotoSpends
<1> QED
  BY <1>1, <1>2

LEMMA LeftAtIs ==
    ASSUME NEW b \in BOOLEAN
    PROVE  /\ LeftAt("patching", b) = 15
           /\ LeftAt("image", b) = 14
           /\ LeftAt("tree", b) = IF b THEN 13 ELSE 9
           /\ LeftAt("add", b) = IF b THEN 12 ELSE 8
           /\ LeftAt("adding", b) = IF b THEN 11 ELSE 7
           /\ LeftAt("building", b) = 10
           /\ LeftAt("up", b) = 6
           /\ LeftAt("awaiting", b) = 5
           /\ LeftAt("body", b) = 4
           /\ LeftAt("down", b) = 3
           /\ LeftAt("drop", b) = 2
           /\ LeftAt("unpatch", b) = 1
BY DEF LeftAt

LEMMA StepSpends ==
    ASSUME TypeOK, NEW p \in Users, Step(p)
    PROVE  job[p] \in Job /\ StepsLeft(p)' < StepsLeft(p)
<1>0. \A s \in Steps : job[p].step = s => job[p] \in Job
  BY AtIsJob DEF At
<1>b. ASSUME job[p] \in Job
      PROVE  job[p].builds \in BOOLEAN
  BY <1>b DEF Job
<1> USE DEF At, Steps
<1>1. CASE ApplyPatch(p)
  <2>1. job[p] \in Job /\ job[p].step = "patching" /\ (Goto(p, "image") \/ Goto(p, "unpatch"))
    BY <1>0, <1>1 DEF ApplyPatch
  <2> QED
    BY <2>1, <1>b, LeftAtIs, GotoSpends
<1>2. CASE FindImage(p)
  <2>1. /\ job[p] \in Job /\ job[p].step = "image"
        /\ (image[Commit(p)] = "absent") \in BOOLEAN
        /\ Onwards(p, "tree", image[Commit(p)] = "absent")
    BY <1>0, <1>2 DEF FindImage, Become, Onwards
  <2>2. \A b \in BOOLEAN : LeftAt("tree", b) < LeftAt(job[p].step, job[p].builds)
    BY <2>1, <1>b, LeftAtIs
  <2> QED
    BY <2>1, <2>2, OnwardsSpends
<1>3. CASE FindTree(p)
  <2>1. job[p] \in Job /\ job[p].step = "tree" /\ (Goto(p, "add") \/ Onward(p))
    BY <1>0, <1>3 DEF FindTree
  <2> QED
    BY <2>1, <1>b, LeftAtIs, GotoSpends, OnwardSpends
<1>4. CASE AddTree(p)
  <2>1. job[p] \in Job /\ job[p].step = "add" /\ (Goto(p, "adding") \/ Leave(p))
    BY <1>0, <1>4 DEF AddTree
  <2> QED
    BY <2>1, <1>b, LeftAtIs, GotoSpends, LeaveSpends
<1>5. CASE Build(p)
  <2>1. /\ job[p] \in Job /\ job[p].step = "building"
        /\ Onwards(p, "tree", FALSE) \/ Leave(p)
    BY <1>0, <1>5 DEF Build, Become, Onwards
  <2>2. LeftAt("tree", FALSE) < LeftAt(job[p].step, job[p].builds)
    BY <2>1 DEF LeftAt
  <2> QED
    BY <2>1, <2>2, OnwardsSpends, LeaveSpends
<1>6. CASE Up(p)
  <2>1. /\ job[p] \in Job /\ job[p].step = "up"
        /\ \E s \in {"awaiting", "down"} : Goto(p, s)
    BY <1>0, <1>6 DEF Up
  <2> QED
    BY <2>1, <1>b, LeftAtIs, GotoSpends
<1>7. CASE Await(p)
  <2>1. /\ job[p] \in Job /\ job[p].step = "awaiting"
        /\ \E s \in {"body", "down"} : Goto(p, s)
    BY <1>0, <1>7 DEF Await
  <2> QED
    BY <2>1, <1>b, LeftAtIs, GotoSpends
<1>8. CASE EndBody(p)
  <2>1. job[p] \in Job /\ job[p].step = "body" /\ Goto(p, "down")
    BY <1>0, <1>8 DEF EndBody
  <2> QED
    BY <2>1, <1>b, LeftAtIs, GotoSpends
<1>9. CASE Down(p)
  <2>1. job[p] \in Job /\ job[p].step = "down" /\ (Goto(p, "drop") \/ Leave(p))
    BY <1>0, <1>9 DEF Down
  <2> QED
    BY <2>1, <1>b, LeftAtIs, GotoSpends, LeaveSpends
<1>10. CASE Drop(p)
  <2>1. job[p] \in Job /\ job[p].step = "drop" /\ Leave(p)
    BY <1>0, <1>10 DEF Drop
  <2> QED
    BY <2>1, LeaveSpends
<1>11. CASE RemoveScratch(p)
  <2>1. job[p] \in Job /\ Over(p)
    BY <1>0, <1>11 DEF RemoveScratch, Become, Over
  <2> QED
    BY <2>1, OverSpends
<1> QED
  BY <1>1, <1>2, <1>3, <1>4, <1>5, <1>6, <1>7, <1>8, <1>9, <1>10, <1>11 DEF Step

\* Whatever fails, and whatever other processes do to the caches it shares with them, a
\* sandbox is over, or has a step less to go, after every step it takes: it asks for a
\* worktree at most twice, and its teardown is three commands (sandbox, worktree.py).
THEOREM SandboxesAreBounded ==
    ASSUME NEW p \in Users
    PROVE  Spec => /\ [](StepsLeft(p) \in 0..15)
                   /\ [](StepsLeft(p) = 0 <=> job[p] = Idle)
                   /\ SandboxAdvances(p)
<1>1. TypeOK => StepsLeft(p) \in 0..15 /\ (StepsLeft(p) = 0 <=> job[p] = Idle)
  BY StepsType
<1>2. TypeOK /\ TypeOK' /\ Entering /\ [Next]_vars
        => [job[p] # Idle =>
              /\ StepsLeft(p)' <= StepsLeft(p)
              /\ Step(p) \/ TreeArrives(p) \/ Kill(p) => StepsLeft(p)' < StepsLeft(p)]_vars
  <2> SUFFICES ASSUME TypeOK, TypeOK', Entering, Next, job[p] # Idle
               PROVE  /\ StepsLeft(p)' <= StepsLeft(p)
                      /\ Step(p) \/ TreeArrives(p) \/ Kill(p) => StepsLeft(p)' < StepsLeft(p)
    BY DEF vars
  <2>1. job[p] \in Job /\ StepsLeft(p) \in Nat
    BY StepsType DEF TypeOK
  <2>a. job'[p] = job[p] => StepsLeft(p)' = StepsLeft(p)
    BY DEF StepsLeft
  <2>b. StepsLeft(p)' \in Nat
    <3>1. CASE job'[p] = Idle
      BY <3>1 DEF StepsLeft, LeftAt, Idle
    <3>2. CASE job'[p] # Idle
      <4>1. job'[p].step \in Steps
        BY <3>2 DEF TypeOK, Job
      <4> QED
        BY <4>1 DEF StepsLeft, LeftAt, Steps
    <3> QED
      BY <3>1, <3>2
  <2>2. Step(p) => StepsLeft(p)' < StepsLeft(p)
    BY StepSpends
  <2>3. Kill(p) => StepsLeft(p)' < StepsLeft(p)
    <3>1. Kill(p) => Over(p)
      BY DEF Kill, Become, Over
    <3> QED
      BY <2>1, <3>1, OverSpends
  <2>4. ASSUME TreeArrives(p) PROVE StepsLeft(p)' < StepsLeft(p)
    <3>1. PICK r \in adds : TreeAdded(r) /\ At(p, "adding") /\ job[p].run = r
      BY <2>4 DEF TreeArrives
    <3>2. r.by = p
      BY <3>1 DEF TypeOK
    <3>3. Onward(p) /\ job[p].step = "adding"
      BY <3>1, <3>2 DEF TreeAdded, At
    <3> QED
      BY <2>1, <3>3, OnwardSpends
  <2>5. CASE ~Step(p) /\ ~Kill(p) /\ ~TreeArrives(p)
    <3>1. ASSUME NEW q \in Users, q # p,
                 (\E c \in Commits : Begin(q, c)) \/ Step(q) \/ Kill(q)
          PROVE  job'[p] = job[p]
      <4>1. CASE Step(q)
        <5>1. job[q] \in Job /\ Moves(q)
          BY <4>1, StepMoves DEF Entering
        <5> QED
          BY <3>1, <5>1, MovesType
      <4>2. CASE \E c \in Commits : Begin(q, c)
        BY <3>1, <4>2 DEF Begin, Become, TypeOK
      <4>3. CASE Kill(q)
        BY <3>1, <4>3 DEF Kill, Become, TypeOK
      <4> QED
        BY <3>1, <4>1, <4>2, <4>3
    <3>2. \A c \in Commits : ~Begin(p, c)
      BY DEF Begin
    <3>3. ASSUME NEW r \in adds, TreeAdded(r)
          PROVE  job'[p] = job[p]
      <4>1. CASE job' = job
        BY <4>1
      <4>2. CASE Onward(r.by) /\ At(r.by, "adding") /\ job[r.by].run = r
        <5>1. r.by # p
          BY <2>5, <3>3, <4>2 DEF TreeArrives
        <5>2. r.by \in Users
          BY DEF TypeOK, Run
        <5>3. PICK s : Goto(r.by, s)
          BY <4>2 DEF Onward
        <5> QED
          BY <5>1, <5>2, <5>3 DEF Goto, Become, TypeOK
      <4> QED
        BY <3>3, <4>1, <4>2 DEF TreeAdded
    <3>4. ASSUME NEW r \in starting, CollectorStarts(r)
          PROVE  job'[p] = job[p]
      BY <3>4 DEF CollectorStarts
    <3>5. job'[p] = job[p]
      BY <2>5, <3>1, <3>2, <3>3, <3>4 DEF Next
    <3> QED
      BY <2>1, <2>5, <2>a, <3>5
  <2> QED
    BY <2>1, <2>2, <2>3, <2>4, <2>5, <2>b
<1>3. Spec => [](TypeOK /\ Entering)
  <2>1. Init => TypeOK /\ Entering
    BY SandboxAssumption DEF Init, TypeOK, Entering, At, Idle, Contents
  <2> QED
    BY <2>1, TypeStep, PTL DEF Spec
<1> QED
  BY <1>1, <1>2, <1>3, PTL DEF Spec, SandboxAdvances
=============================================================================
