---------------------------- MODULE OrderingPlan ----------------------------
(***************************************************************************)
(* The plan auto-batch-ordering.ts makes for a batch, which both           *)
(* AutoBatch and TopologyPipeline carry out.  A command is a record with   *)
(* the keys it reads and the keys it writes; it has neither when its keys  *)
(* are unknown.  A plan is given for a sequence of commands.               *)
(***************************************************************************)
EXTENDS Naturals, Sequences

Accesses(command) == command.reads \cup command.writes

\* Two commands that must not be swapped.
Conflict(first, second) ==
    (first.writes \cap Accesses(second)) \cup (second.writes \cap Accesses(first)) # {}

\* There is a plan only if the keys of every command are known.
HasPlan(commands) == \A i \in DOMAIN commands : Accesses(commands[i]) # {}

\* Key k is not written by the commands strictly between i and j.
NoWriteBetween(commands, i, j, k) ==
    \A m \in (i + 1)..(j - 1) : k \notin commands[m].writes

\* Slip: a write forgets the reads before it.
WritesOnly(commands, j) ==
    {i \in 1..(j - 1) : \E k \in commands[i].writes \cap Accesses(commands[j]) :
                            NoWriteBetween(commands, i, j, k)}

\* Command j comes after the last write of each of its keys and, if it writes the key,
\* after the reads since.
FallbackDependencies(commands, j) ==
    {i \in 1..(j - 1) :
        \E k \in Accesses(commands[i]) \cap Accesses(commands[j]) :
            /\ NoWriteBetween(commands, i, j, k)
            /\ k \in commands[i].writes \cup commands[j].writes}
=============================================================================
