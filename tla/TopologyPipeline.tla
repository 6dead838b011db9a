-------------------------- MODULE TopologyPipeline --------------------------
(***************************************************************************)
(* A pipeline split over the routes of a topology: topology-pipeline.ts.   *)
(*                                                                         *)
(* The commands of one route form a unit that is sent as one pipeline; so  *)
(* do the commands without a route, except those that can be decomposed,   *)
(* each of which is a unit of its own.  With a plan (an automatic batch) a *)
(* unit waits for the units its commands depend on.                        *)
(***************************************************************************)
EXTENDS Naturals, Sequences, FiniteSets, OrderingPlan

CONSTANTS Commands,     \* [reads, writes, route]
          MaxLength,    \* bound on the length of the pipeline
          Concurrency

VARIABLES commands,
          planned,   \* the pipeline came with fallback dependencies
          unitByCommand,  \* the unit of each command
          dependencies,   \* the units each unit waits for
          item,      \* what became of each command
          tasks,     \* what became of the task of each unit
          result

pipeline == <<commands, planned, unitByCommand, dependencies>>
vars == <<pipeline, item, tasks, result>>

Indices == DOMAIN commands

\* A unit is named by its first command.
SameUnit(i, j) == \/ i = j
                  \/ /\ commands[i].route = commands[j].route
                     /\ commands[i].route # "standalone"
UnitOf(i) == CHOOSE j \in Indices : SameUnit(i, j) /\ \A k \in Indices : SameUnit(i, k) => j <= k

Units == {unitByCommand[i] : i \in Indices}
ItemsOf(u) == {i \in Indices : unitByCommand[i] = u}

CommandDependencies(j) == IF planned THEN FallbackDependencies(commands, j) ELSE {}

\* Slip: only the first command of a unit is asked for its dependencies.
FirstDependencies(u) == {UnitOf(i) : i \in CommandDependencies(u)} \ {u}

UnitDependencies(u) ==
    {UnitOf(i) : i \in UNION {CommandDependencies(j) : j \in {j \in Indices : UnitOf(j) = u}}} \ {u}

\* A unit on a cycle, or waiting for one.  runUnit runs into itself: a task is stored
\* only after those of its dependencies, so the recursion exhausts the stack and the
\* tasks on its way are rejected.
Overflows(u) == \E S \in SUBSET Units :
                   u \in S /\ \A v \in S : dependencies[v] \cap S # {}

Init == /\ \E n \in 1..MaxLength : commands \in [1..n -> Commands]
        /\ planned \in BOOLEAN
        /\ planned => HasPlan(commands)
        /\ unitByCommand = [i \in Indices |-> UnitOf(i)]
        /\ dependencies = [u \in Units |-> UnitDependencies(u)]
        /\ item = [i \in Indices |-> "waits"]
        /\ tasks = [u \in Units |-> "waits"]
        /\ result = "pending"

\* The dependencies of the unit have settled and it has taken one of the slots.
StartUnit(u) == /\ tasks[u] = "waits"
                /\ \A v \in dependencies[u] : tasks[v] = "settled"
                /\ Cardinality({v \in Units : tasks[v] = "runs"}) < Concurrency
                /\ tasks' = [tasks EXCEPT ![u] = "runs"]
                /\ UNCHANGED <<pipeline, item, result>>

Overflow(u) == /\ tasks[u] = "waits"
               /\ Overflows(u)
               /\ tasks' = [tasks EXCEPT ![u] = "rejected"]
               /\ UNCHANGED <<pipeline, item, result>>

\* The route executes a command, after the commands of its unit it depends on.
Run(i) == /\ tasks[unitByCommand[i]] = "runs"
          /\ item[i] = "waits"
          /\ \A j \in CommandDependencies(i) \cap ItemsOf(unitByCommand[i]) : item[j] = "ran"
          /\ item' = [item EXCEPT ![i] = "runs"]
          /\ UNCHANGED <<pipeline, tasks, result>>

Ran(i) == /\ item[i] = "runs"
          /\ item' = [item EXCEPT ![i] = "ran"]
          /\ UNCHANGED <<pipeline, tasks, result>>

\* The responses of the unit are captured.
Capture(u) == /\ tasks[u] = "runs"
              /\ \A i \in ItemsOf(u) : item[i] = "ran"
              /\ item' = [i \in Indices |-> IF i \in ItemsOf(u) THEN "answered" ELSE item[i]]
              /\ tasks' = [tasks EXCEPT ![u] = "settled"]
              /\ UNCHANGED <<pipeline, result>>

\* The unit fails: its commands get the error, the other units go on.
CaptureFailure(u) == /\ tasks[u] = "runs"
                     /\ \A i \in ItemsOf(u) : item[i] # "runs"
                     /\ item' = [i \in Indices |-> IF i \in ItemsOf(u) THEN "failed" ELSE item[i]]
                     /\ tasks' = [tasks EXCEPT ![u] = "settled"]
                     /\ UNCHANGED <<pipeline, result>>

\* Promise.all: at the first rejection, or when all have settled.
Finish == /\ result = "pending"
          /\ \/ /\ \E u \in Units : tasks[u] = "rejected"
                /\ result' = "rejected"
             \/ /\ \A u \in Units : tasks[u] = "settled"
                /\ result' = "returned"
          /\ UNCHANGED <<pipeline, item, tasks>>

Next == \/ \E u \in Units : StartUnit(u) \/ Overflow(u) \/ Capture(u) \/ CaptureFailure(u)
        \/ \E i \in Indices : Run(i) \/ Ran(i)
        \/ Finish

Spec == Init /\ [][Next]_vars

\* Routes answer or fail, and continuations run.
FairSpec == Spec /\ WF_vars(Next)

---------------------------------------------------------------------------
Ended == {"ran", "answered", "failed"}

\* Commands of a planned pipeline that touch a common key run one after the other, in
\* the order of the pipeline, whatever units they fall into.
SplitKeepsKeyOrder ==
    planned => \A i, j \in Indices :
        i < j /\ Conflict(commands[i], commands[j]) /\ item[j] = "runs" => item[i] \in Ended

\* Units whose dependencies form no cycle all get their turn, and the pipeline returns
\* an outcome for each command, whatever units fail.
Settled == (\A u \in Units : ~Overflows(u)) =>
               result = "returned" /\ \A i \in Indices : item[i] \in {"answered", "failed"}

\* README.md:709, of automatic batches: "resolves each original promise independently".
\* The pipeline as a whole, and with it every promise of the batch, is never rejected.
ItemsResolvedIndependently == result # "rejected"
=============================================================================
