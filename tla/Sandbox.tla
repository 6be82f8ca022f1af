------------------------------- MODULE Sandbox -------------------------------
(***************************************************************************)
(* reproducer/sandbox.py, reproducer/worktree.py and patcher/tree.py: the  *)
(* application is brought up at a commit, used, and torn down. Worktrees   *)
(* and images are cached by commit and never removed; the compose project  *)
(* and its trace database belong to one sandbox. A patched commit is made  *)
(* in a scratch worktree that lives as long as it is being validated.      *)
(*                                                                         *)
(* Processes share git, docker and ClickHouse. A process that its parent   *)
(* kills (subprocess.run with a timeout) does not get to its `finally`,    *)
(* and the command it was waiting for goes on without it.                  *)
(***************************************************************************)
EXTENDS Naturals, FiniteSets

CONSTANTS
    Users,       \* processes that bring up sandboxes
    Commits,     \* the commits there are and those that patches make
    Patched,     \* the commits that patches make
    Uses,        \* [Users -> SUBSET Commits]: what each process brings up
    Keepers,     \* the processes that bring them up with keep_traces
    MaxRuns,     \* bound on the sandboxes of a process
    MaxKills,    \* bound on the processes killed
    MaxFaults    \* bound on the teardown commands that fail

ASSUME SandboxAssumption ==
    /\ Patched \subseteq Commits
    /\ Uses \in [Users -> SUBSET Commits]
    /\ Keepers \subseteq Users
    /\ MaxRuns \in Nat /\ MaxKills \in Nat /\ MaxFaults \in Nat

\* One use of sandbox(). The unique suffix of the compose project, of the database
\* and of the scratch worktree is whose run it is.
Run == [by : Users, number : 1..MaxRuns, commit : Commits]
Kept(r) == r.by \in Keepers

Contents == {"absent", "partial", "whole"}

VARIABLES
    commits,    \* commits in the object database
    tree,       \* .worktrees/<sha>
    image,      \* shopdemo:<sha>
    adds,       \* `git worktree add` commands under way
    scratch,    \* scratch worktrees of patched_commit
    stacks,     \* compose projects
    starting,   \* those whose collector has not created its database yet
    databases,  \* trace databases
    runs,       \* sandboxes each process has begun
    job,        \* what each process is doing
    killed,     \* runs whose process was killed
    faulty      \* runs of which a teardown command failed

vars == <<commits, tree, image, adds, scratch, stacks, starting, databases, runs, job,
          killed, faulty>>
cache == <<commits, tree, image, adds>>
services == <<stacks, starting, databases>>
mishaps == <<killed, faulty>>

Steps == {"patching", "image", "tree", "add", "adding", "building", "up", "awaiting",
          "body", "down", "drop", "unpatch"}

\* The local variables of a run. `patches`: is it inside patched_commit? `builds`: does
\* ensure_image want the worktree, or sandbox() itself?
Idle == [step |-> "idle"]
Job == [step : Steps, run : Run, patches : BOOLEAN, builds : BOOLEAN]

TypeOK ==
    /\ commits \subseteq Commits
    /\ tree \in [Commits -> Contents]
    /\ image \in [Commits -> Contents]
    /\ adds \subseteq Run
    /\ scratch \subseteq Run
    /\ stacks \subseteq Run
    /\ starting \subseteq stacks
    /\ databases \subseteq Run
    /\ runs \in [Users -> 0..MaxRuns]
    /\ job \in [Users -> Job \cup {Idle}]
    /\ \A p \in Users : job[p] # Idle => job[p].run.by = p
    /\ killed \subseteq Run
    /\ faulty \subseteq Run

Init ==
    /\ commits = Commits \ Patched
    /\ tree = [c \in Commits |-> "absent"]
    /\ image = [c \in Commits |-> "absent"]
    /\ adds = {} /\ scratch = {}
    /\ stacks = {} /\ starting = {} /\ databases = {}
    /\ runs = [p \in Users |-> 0]
    /\ job = [p \in Users |-> Idle]
    /\ killed = {} /\ faulty = {}

-----------------------------------------------------------------------------
At(p, step) == job[p].step = step
Commit(p) == job[p].run.commit
Become(p, j) == job' = [job EXCEPT ![p] = j]
Goto(p, step) == Become(p, [job[p] EXCEPT !.step = step])

\* patched_commit has a `finally` of its own around everything that uses the commit.
Leave(p) == IF job[p].patches THEN Goto(p, "unpatch") ELSE Become(p, Idle)

\* A teardown command fails, and nobody looks at its exit code.
Fails(p) ==
    /\ Cardinality(faulty) < MaxFaults
    /\ faulty' = faulty \cup {job[p].run}

Begin(p, c) ==
    /\ job[p] = Idle
    /\ runs[p] < MaxRuns
    /\ c \in Uses[p]
    /\ c \in commits \/ c \in Patched
    /\ runs' = [runs EXCEPT ![p] = @ + 1]
    /\ Become(p, [step |-> IF c \in commits THEN "image" ELSE "patching",
                  run |-> [by |-> p, number |-> runs[p] + 1, commit |-> c],
                  patches |-> c \notin commits, builds |-> FALSE])
    /\ UNCHANGED <<cache, scratch, services, mishaps>>

\* patched_commit: the scratch worktree is there before the patch is applied, and the
\* patch may not apply.
ApplyPatch(p) ==
    /\ At(p, "patching")
    /\ scratch' = scratch \cup {job[p].run}
    /\ \/ commits' = commits \cup {Commit(p)} /\ Goto(p, "image")
       \/ UNCHANGED commits /\ Goto(p, "unpatch")
    /\ UNCHANGED <<tree, image, adds, services, runs, mishaps>>

-----------------------------------------------------------------------------
(* ensure_image, ensure_worktree.                                          *)

FindImage(p) ==
    /\ At(p, "image")
    /\ Become(p, [job[p] EXCEPT !.step = "tree", !.builds = image[Commit(p)] = "absent"])
    /\ UNCHANGED <<cache, scratch, services, runs, mishaps>>

\* With the worktree at hand, ensure_image builds and sandbox() goes on.
Onward(p) == Goto(p, IF job[p].builds THEN "building" ELSE "up")

\* A directory is taken for a worktree.
FindTree(p) ==
    /\ At(p, "tree")
    /\ IF tree[Commit(p)] = "absent" THEN Goto(p, "add") ELSE Onward(p)
    /\ UNCHANGED <<cache, scratch, services, runs, mishaps>>

\* Mutated: nobody waits for git.
AddTreeInBackground(p) ==
    /\ At(p, "add")
    /\ tree[Commit(p)] = "absent"
    /\ tree' = [tree EXCEPT ![Commit(p)] = "partial"]
    /\ adds' = adds \cup {job[p].run}
    /\ Onward(p)
    /\ UNCHANGED <<commits, image, scratch, services, runs, mishaps>>

\* git refuses a path that exists by now.
AddTree(p) ==
    /\ At(p, "add")
    /\ IF tree[Commit(p)] = "absent"
       THEN /\ tree' = [tree EXCEPT ![Commit(p)] = "partial"]
            /\ adds' = adds \cup {job[p].run}
            /\ Goto(p, "adding")
       ELSE Leave(p) /\ UNCHANGED <<tree, adds>>
    /\ UNCHANGED <<commits, image, scratch, services, runs, mishaps>>

\* git has checked out every file. Whoever waits for it, if anyone does, goes on.
TreeAdded(r) ==
    /\ r \in adds
    /\ adds' = adds \ {r}
    /\ tree' = [tree EXCEPT ![r.commit] = "whole"]
    /\ IF At(r.by, "adding") /\ job[r.by].run = r THEN Onward(r.by) ELSE UNCHANGED job
    /\ UNCHANGED <<commits, image, scratch, services, runs, mishaps>>

\* The build sends what there is of the worktree, and may fail.
Build(p) ==
    /\ At(p, "building")
    /\ \/ /\ image' = [image EXCEPT ![Commit(p)] = tree[Commit(p)]]
          /\ Become(p, [job[p] EXCEPT !.step = "tree", !.builds = FALSE])
       \/ UNCHANGED image /\ Leave(p)
    /\ UNCHANGED <<commits, tree, adds, scratch, services, runs, mishaps>>

-----------------------------------------------------------------------------
(* sandbox(): up, and the teardown of its `finally`.                       *)

\* Mutated: the stack is brought up before the `try`.
UpBeforeTry(p) ==
    /\ At(p, "up")
    /\ stacks' = stacks \cup {job[p].run}
    /\ starting' = starting \cup {job[p].run}
    /\ Goto(p, "awaiting") \/ Leave(p)
    /\ UNCHANGED <<cache, scratch, databases, runs, mishaps>>

\* Containers exist as soon as `docker compose up` began, whether or not it succeeds.
Up(p) ==
    /\ At(p, "up")
    /\ stacks' = stacks \cup {job[p].run}
    /\ starting' = starting \cup {job[p].run}
    /\ \E next \in {"awaiting", "down"} : Goto(p, next)
    /\ UNCHANGED <<cache, scratch, databases, runs, mishaps>>

\* The collector creates its schema when it starts.
CollectorStarts(r) ==
    /\ r \in starting
    /\ starting' = starting \ {r}
    /\ databases' = databases \cup {r}
    /\ UNCHANGED <<cache, scratch, stacks, runs, job, mishaps>>

\* Mutated: the wait comes before the `try`.
AwaitBeforeTry(p) ==
    /\ At(p, "awaiting")
    /\ Goto(p, "body") \/ Leave(p)
    /\ UNCHANGED <<cache, scratch, services, runs, mishaps>>

\* The gateway serves the commit, or is not ready in time.
Await(p) ==
    /\ At(p, "awaiting")
    /\ \E next \in {"body", "down"} : Goto(p, next)
    /\ UNCHANGED <<cache, scratch, services, runs, mishaps>>

\* What the sandbox is for has returned, or raised.
EndBody(p) ==
    /\ At(p, "body")
    /\ Goto(p, "down")
    /\ UNCHANGED <<cache, scratch, services, runs, mishaps>>

\* docker compose down -v
Down(p) ==
    /\ At(p, "down")
    /\ \/ /\ stacks' = stacks \ {job[p].run}
          /\ starting' = starting \ {job[p].run}
          /\ UNCHANGED faulty
       \/ Fails(p) /\ UNCHANGED <<stacks, starting>>
    /\ IF Kept(job[p].run) THEN Leave(p) ELSE Goto(p, "drop")
    /\ UNCHANGED <<cache, scratch, databases, runs, killed>>

Drop(p) ==
    /\ At(p, "drop")
    /\ \/ databases' = databases \ {job[p].run} /\ UNCHANGED faulty
       \/ Fails(p) /\ UNCHANGED databases
    /\ Leave(p)
    /\ UNCHANGED <<cache, scratch, stacks, starting, runs, killed>>

RemoveScratch(p) ==
    /\ At(p, "unpatch")
    /\ \/ scratch' = scratch \ {job[p].run} /\ UNCHANGED faulty
       \/ Fails(p) /\ UNCHANGED scratch
    /\ Become(p, Idle)
    /\ UNCHANGED <<cache, services, runs, killed>>

\* The parent's timeout expires.
Kill(p) ==
    /\ job[p] # Idle
    /\ Cardinality(killed) < MaxKills
    /\ killed' = killed \cup {job[p].run}
    /\ Become(p, Idle)
    /\ UNCHANGED <<cache, scratch, services, runs, faulty>>

-----------------------------------------------------------------------------
Step(p) ==
    \/ ApplyPatch(p) \/ FindImage(p) \/ FindTree(p) \/ AddTree(p) \/ Build(p)
    \/ Up(p) \/ Await(p) \/ EndBody(p) \/ Down(p) \/ Drop(p) \/ RemoveScratch(p)

Next ==
    \/ \E p \in Users :
          \/ \E c \in Commits : Begin(p, c)
          \/ Step(p)
          \/ Kill(p)
    \/ \E r \in adds : TreeAdded(r)
    \/ \E r \in starting : CollectorStarts(r)

Spec == Init /\ [][Next]_vars

\* Every wait of a run has a timeout, and git ends.
FairSpec ==
    /\ Spec
    /\ \A p \in Users : WF_vars(Step(p))
    /\ WF_vars(\E r \in adds : TreeAdded(r))

-----------------------------------------------------------------------------
(* Properties.                                                             *)

Active(r) == job[r.by] # Idle /\ job[r.by].run = r

\* "Guarantee it is torn down" (sandbox), whatever fails and however it interleaves
\* with the collector: what is there belongs to a run that still has its teardown
\* before it, was killed, or had a teardown command fail; or the database was to be
\* kept.
NothingIsLeftBehind ==
    \A r \in (stacks \cup databases \cup scratch) \ (killed \cup faulty) :
        \/ r \in databases /\ Kept(r) /\ r \notin stacks \cup scratch
        \/ Active(r) /\ /\ r \in stacks => job[r.by].step \in {"awaiting", "body", "down"}
                        /\ (r \in databases /\ ~Kept(r)) =>
                               job[r.by].step \in {"awaiting", "body", "down", "drop"}

\* A commit that only one process brings up, while nobody is killed.
Undisputed(c) ==
    /\ killed = {}
    /\ \A p, q \in Users : c \in Uses[p] /\ c \in Uses[q] => p = q

\* What is measured is the application at the commit: a sandbox that is used runs an
\* image made of every file of it.
RunsTheCommit ==
    \A p \in Users : (At(p, "body") /\ Undisputed(Commit(p))) =>
        image[Commit(p)] = "whole" /\ tree[Commit(p)] = "whole"

\* A stack that came up goes down, unless the process was killed or the command fails.
StacksGoDown ==
    \A p \in Users, n \in 1..MaxRuns :
        (\E r \in stacks : r.by = p /\ r.number = n) ~>
            (\A r \in stacks : r.by = p /\ r.number = n => r \in killed \cup faulty)

\* "A unique suffix so two sandboxes at the same commit cannot collide" (sandbox): a
\* sandbox that is used runs an image made of every file of its commit, with others at
\* the same commit too.
SameCommitNeverCollides ==
    \A p \in Users : At(p, "body") => image[Commit(p)] = "whole"

\* "Teardown must be try/finally and label-based, so a crashed run does not leave
\* orphaned containers" (docs/slice-2.md): stacks are those of runs that go on, or of
\* commands that failed.
CrashedRunsLeaveNothing ==
    \A r \in stacks \ faulty : Active(r)

\* "The object database collects it later if the PR step never claims it" (tree.py):
\* once a run is over, no worktree holds the commit its patch made.
UnclaimedIsCollectable ==
    \A c \in Patched :
        (c \in commits /\ \A p \in Users : job[p] = Idle) =>
            tree[c] = "absent"
=============================================================================
