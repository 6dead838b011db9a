--------------------------- MODULE WorkflowWorker ---------------------------
(***************************************************************************)
(* The run loops of a workflow worker (workflow.ts), which claims jobs of  *)
(* several states.  In waves it asks one state after the other, up to      *)
(* DrainBatches times each, and handles what it was given before it asks   *)
(* again.  Continuously it hands the pool of ContinuousWorker a claim that *)
(* asks the states in turn until one has jobs.  What happens to a job in   *)
(* its handler is in DurableSteps.                                         *)
(***************************************************************************)
EXTENDS Naturals, Sequences, FiniteSets, SequencesExt

CONSTANTS Jobs, StateNames,   \* StateNames is a sequence
          StateOf,            \* the state of each job
          Concurrency, ClaimLimit, DrainBatches,
          OverReturn          \* jobs a claim may return beyond its limit

VARIABLES strategy,   \* "waves" or "continuous"
          due,        \* the jobs the server would lease
          cursor,     \* the state that is asked, or is next
          asks,       \* the asks left, of this state or of this claim
          gotSome,    \* whether this round of waves had jobs
          stage,      \* "asking", "waiting" (for handlers), "idle", "draining" or "ended"
          queue,      \* jobs claimed that no handler has taken
          handling,   \* jobs in a handler
          guarded,    \* jobs whose lease is renewed
          failed, aborted

vars == <<strategy, due, cursor, asks, gotSome, stage, queue, handling, guarded, failed, aborted>>

---------------------------------------------------------------------------
States == DOMAIN StateNames
After(s) == IF s = Len(StateNames) THEN 1 ELSE s + 1

Asks(how) == IF how = "waves" THEN DrainBatches ELSE Len(StateNames)

Init == /\ strategy \in {"waves", "continuous"}
        /\ due = Jobs
        /\ cursor = 1 /\ asks = Asks(strategy) /\ gotSome = FALSE
        /\ stage = "asking"
        /\ queue = <<>> /\ handling = {} /\ guarded = {}
        /\ failed = FALSE /\ aborted = FALSE

---------------------------------------------------------------------------
\* Handlers take the jobs in the order they were claimed.
Start(jobs, busy) ==
    LET free == Concurrency - Cardinality(busy)
        n == IF free < Len(jobs) THEN free ELSE Len(jobs)
    IN /\ handling' = busy \cup Range(SubSeq(jobs, 1, n))
       /\ queue' = SubSeq(jobs, n + 1, Len(jobs))

\* A server that has jobs of the state gives some, in an order of its own.  (The limit may be
\* older than the answer: handlers end meanwhile.)
Answers ==
    LET of == {j \in due : StateOf[j] = StateNames[cursor]}
        free == IF strategy = "waves" THEN ClaimLimit ELSE Concurrency - Cardinality(handling)
        most == (IF free < ClaimLimit THEN free ELSE ClaimLimit) + OverReturn
    IN IF of = {} THEN {<<>>}
       ELSE {answer \in UNION {[1..n -> of] : n \in 1..most} : IsInjective(answer)}

\* The pool claims for its free slots; a worker that is to stop drains what it has.
PoolGoesOn(busy, failure) ==
    IF aborted \/ failure THEN stage' = "draining" /\ UNCHANGED <<cursor, asks>>
    ELSE /\ stage' = IF Cardinality(busy) < Concurrency THEN "asking" ELSE "waiting"
         /\ asks' = Len(StateNames) /\ UNCHANGED cursor

\* The end of a round of waves: at once the next one if this one had jobs.
NextState(had) ==
    IF cursor < Len(StateNames)
    THEN /\ cursor' = cursor + 1 /\ asks' = DrainBatches /\ gotSome' = had /\ stage' = "asking"
    ELSE /\ cursor' = 1 /\ asks' = DrainBatches /\ gotSome' = FALSE
         /\ stage' = IF aborted THEN "ended" ELSE IF had THEN "asking" ELSE "idle"

Claim(answer) ==
    /\ stage = "asking"
    /\ due' = due \ Range(answer)
    /\ guarded' = guarded \cup Range(answer)
    /\ Start(queue \o answer, handling)
    /\ IF strategy = "waves"
       THEN IF answer = <<>> THEN NextState(gotSome)
            ELSE stage' = "waiting" /\ asks' = asks - 1 /\ gotSome' = TRUE /\ UNCHANGED cursor
       ELSE /\ UNCHANGED gotSome
            /\ cursor' = After(cursor)
            /\ IF answer = <<>> /\ asks > 1 THEN asks' = asks - 1 /\ UNCHANGED stage
               ELSE /\ asks' = Len(StateNames)
                    /\ stage' = IF aborted \/ failed THEN "draining"
                                ELSE IF answer = <<>> THEN "idle"
                                ELSE IF Cardinality(handling') < Concurrency THEN "asking" ELSE "waiting"
    /\ UNCHANGED <<strategy, failed, aborted>>

ClaimFails ==
    /\ stage = "asking" /\ failed' = TRUE
    /\ stage' = IF strategy = "waves" THEN "ended" ELSE "draining"
    /\ UNCHANGED <<strategy, due, cursor, asks, gotSome, queue, handling, guarded, aborted>>

---------------------------------------------------------------------------
\* A handler has ended, its outcome is applied or has failed, and its guard has stopped.  The
\* job is due again if the outcome, or the end of its lease, makes it so.
HandlerEnds(j) ==
    /\ j \in handling
    /\ \E again \in {{}, {j}}, threw \in BOOLEAN :
           /\ due' = due \cup again /\ failed' = (failed \/ threw)
           /\ Start(queue, handling \ {j})
           /\ IF strategy = "continuous" /\ stage \in {"waiting", "idle"}
              THEN PoolGoesOn(handling', failed') ELSE UNCHANGED <<cursor, asks, stage>>
    /\ guarded' = guarded \ {j}
    /\ UNCHANGED <<strategy, gotSome, aborted>>

\* All of a wave is handled: the same state again, or the next one.
WaveEnds ==
    /\ strategy = "waves" /\ stage = "waiting" /\ handling = {} /\ queue = <<>>
    /\ IF failed THEN stage' = "ended" /\ UNCHANGED <<cursor, asks, gotSome>>
       ELSE IF asks = 0 THEN NextState(gotSome)
       ELSE stage' = "asking" /\ UNCHANGED <<cursor, asks, gotSome>>
    /\ UNCHANGED <<strategy, due, queue, handling, guarded, failed, aborted>>

\* The idle time is over, or the worker is aborted.
Wake ==
    /\ stage = "idle"
    /\ IF strategy = "waves" THEN stage' = (IF aborted THEN "ended" ELSE "asking")
       ELSE stage' = IF aborted \/ failed THEN "draining" ELSE "asking"
    /\ UNCHANGED <<strategy, due, cursor, asks, gotSome, queue, handling, guarded, failed, aborted>>

\* An abort wakes the pool as well.
Abort ==
    /\ ~aborted /\ aborted' = TRUE
    /\ stage' = IF strategy = "continuous" /\ stage = "waiting" THEN "draining" ELSE stage
    /\ UNCHANGED <<strategy, due, cursor, asks, gotSome, queue, handling, guarded, failed>>

Drained ==
    /\ stage = "draining" /\ handling = {} /\ queue = <<>>
    /\ stage' = "ended"
    /\ UNCHANGED <<strategy, due, cursor, asks, gotSome, queue, handling, guarded, failed, aborted>>

Continue == \/ \E answer \in Answers : Claim(answer)
            \/ \E j \in Jobs : HandlerEnds(j)
            \/ WaveEnds \/ Wake \/ Drained

Next == Continue \/ ClaimFails \/ Abort

---------------------------------------------------------------------------
\* However claims over-return, handlers fail and the worker is stopped: never more handlers
\* than allowed; a job is renewed exactly as long as the worker has it, queued or in a handler;
\* and a worker that has returned has none left.
JobsKept ==
    /\ Cardinality(handling) <= Concurrency
    /\ guarded = handling \cup Range(queue)
    /\ guarded \cap due = {}
    /\ stage = "ended" => guarded = {}
=============================================================================
