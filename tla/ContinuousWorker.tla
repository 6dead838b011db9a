-------------------------- MODULE ContinuousWorker --------------------------
(***************************************************************************)
(* A queue worker that refills its slots continuously:                     *)
(* QueueWorker.runContinuously with runContinuousWorkerPool                *)
(* (worker-internal.ts), QueueCompletionBatcher and LeaseRenewalGuard.     *)
(*                                                                         *)
(* The pool claims jobs and runs their handlers; the batcher completes     *)
(* them in batches, each request of which may claim replacements; a guard  *)
(* renews the lease of each job until its last request is sent.            *)
(*                                                                         *)
(* The code between two awaits is one step.                                *)
(***************************************************************************)
EXTENDS Naturals, Sequences, FiniteSets, FiniteSetsExt, SequencesExt

CONSTANTS Jobs,
          Concurrency,
          BatchSize,           \* of claims and of completions
          CompleteAsyncDepth,  \* completion requests in flight
          OverReturn,          \* jobs a claim may return beyond its limit
          FuseCompleteClaim,
          None

ASSUME WorkerAssumption == /\ IsFiniteSet(Jobs)
                           /\ {Concurrency, BatchSize, CompleteAsyncDepth} \subseteq Nat \ {0}
                           /\ OverReturn \in Nat
                           /\ FuseCompleteClaim \in BOOLEAN
                           /\ None \notin Jobs

VARIABLES task,       \* where each job is
          guard,      \* the lease renewal guard of each job
          result,     \* what the handling of a job gave the pool
          pending, active, failure, coalesceBeforeClaim,    \* the pool
          pc,         \* what the loop of the pool awaits
          notified,   \* the listener it waits with has been called
          claim,      \* its claim
          aborted,
          entries, inFlight, scheduled, refillEnabled, closed  \* the batcher

jobVars == <<task, guard, result>>
loop == <<pc, claim, coalesceBeforeClaim>>
pool == <<pending, active, failure, loop, notified, aborted>>
batcher == <<entries, inFlight, scheduled, refillEnabled, closed>>
vars == <<jobVars, pool, batcher>>

Waits == {"full", "idle", "drain"}
Stopped == aborted \/ failure

NoResult == [items |-> <<>>, error |-> FALSE]
Error == [items |-> <<>>, error |-> TRUE]

---------------------------------------------------------------------------
(* The guard.  A renewal in flight is awaited after stop(); a renewal that *)
(* failed, before or after, makes stop() throw.                            *)

Stop(g) == CASE g = "active" -> "stopped"
             [] g = "renewing" -> "stopping"
             [] g = "failed" -> "lost"
             [] OTHER -> g

Renew(j) == /\ guard[j] = "active"
            /\ guard' = [guard EXCEPT ![j] = "renewing"]
            /\ UNCHANGED <<task, result, pool, batcher>>

RenewalEnds(j) ==
    /\ \/ /\ guard[j] = "renewing"
          /\ \E g \in {"active", "failed"} : guard' = [guard EXCEPT ![j] = g]
       \/ /\ guard[j] = "stopping"
          /\ \E g \in {"stopped", "lost"} : guard' = [guard EXCEPT ![j] = g]
    /\ UNCHANGED <<task, result, pool, batcher>>

---------------------------------------------------------------------------
(* The pool.                                                               *)

Full(act) == Cardinality(act) >= Concurrency

\* Slip: every job that was claimed is started.
StartAll(queue) == Len(queue)

\* startAvailable(): the jobs of the queue that get a slot.
Startable(queue) == Min({Len(queue), IF Full(active) THEN 0 ELSE Concurrency - Cardinality(active)})

Quiescent(queue, act) == queue = <<>> /\ act = {}

Limit(act) == Min({BatchSize, Concurrency - Cardinality(act)})

IssueClaim(act) == /\ pc' = "claim"
                   /\ claim' = [limit |-> Limit(act), blocking |-> act = {}]

\* The rest of an iteration: wait for a slot, coalesce, or claim; leave the loop when
\* the worker stops, and return when nothing is left to drain.
Proceed(queue, act, coalesce) ==
    /\ coalesceBeforeClaim' = coalesce
    /\ \/ /\ Stopped
          /\ pc' = IF Quiescent(queue, act) THEN "returned" ELSE "drain"
          /\ claim' = None
       \/ /\ ~Stopped /\ Full(act)
          /\ pc' = "full"
          /\ claim' = None
       \/ /\ ~Stopped /\ ~Full(act) /\ coalesce /\ act # {}
          /\ pc' = "window"
          /\ claim' = None
       \/ /\ ~Stopped /\ ~Full(act) /\ ~(coalesce /\ act # {})
          /\ IssueClaim(act)

\* startAvailable() on a queue to which new jobs may have been added.
StartAvailable(queue) ==
    LET n == Startable(queue)
        started == ToSet(SubSeq(queue, 1, n))
        rest == SubSeq(queue, n + 1, Len(queue))
    IN /\ pending' = rest
       /\ active' = active \cup started
       /\ task' = [j \in Jobs |-> IF j \in started THEN "started"
                                  ELSE IF j \in ToSet(rest) THEN "pending" ELSE task[j]]

\* The head of the loop, or of the drain in its finally block.
Resume(coalesce) == /\ StartAvailable(pending)
                    /\ Proceed(pending', active', coalesce)
                    /\ notified' = FALSE
                    /\ UNCHANGED <<guard, result, failure, aborted, batcher>>

\* A timer fires when the continuations of the tasks have run.
TimersDue == \A j \in Jobs : task[j] \notin {"started", "resolved", "ended"}

\* Slip: no timer; only a notification ends the wait.
NoIdleTimeout == pc = "idle" /\ ~notified /\ TimersDue /\ active # {} /\ Resume(coalesceBeforeClaim)

Start == pc = "top" /\ Resume(FALSE)
Notified == pc \in Waits /\ notified /\ Resume(coalesceBeforeClaim \/ pc # "drain")
IdleTimeout == pc = "idle" /\ ~notified /\ TimersDue /\ Resume(coalesceBeforeClaim)

\* waitForRefillWindow is over; nothing is started before the claim.
WindowEnds == /\ pc = "window" /\ TimersDue
              /\ \/ /\ Stopped
                    /\ Resume(FALSE)
                 \/ /\ ~Stopped
                    /\ IssueClaim(active)
                    /\ coalesceBeforeClaim' = FALSE
                    /\ UNCHANGED <<jobVars, pending, active, failure, notified, aborted, batcher>>

\* The server answers with jobs that are due, if there are any.
ClaimAnswered ==
    /\ pc = "claim"
    /\ \E S \in SUBSET {j \in Jobs : task[j] = "due"} :
         /\ Cardinality(S) <= claim.limit + OverReturn
         /\ S = {} => \A j \in Jobs : task[j] # "due"
         /\ \E new \in SetToSeqs(S) : StartAvailable(pending \o new)
         /\ guard' = [j \in Jobs |-> IF j \in S THEN "active" ELSE guard[j]]
         /\ \/ /\ Stopped \/ Cardinality(S) >= claim.limit
               /\ Proceed(pending', active', coalesceBeforeClaim)
            \/ /\ ~Stopped /\ Cardinality(S) < claim.limit
               /\ pc' = IF Full(active') THEN "full" ELSE "idle"
               /\ claim' = None
               /\ UNCHANGED coalesceBeforeClaim
    /\ UNCHANGED <<result, failure, notified, aborted, batcher>>

\* The claim fails: recordFailure, and the drain begins.
ClaimFails == /\ pc = "claim"
              /\ failure' = TRUE
              /\ refillEnabled' = FALSE
              /\ StartAvailable(pending)
              /\ pc' = IF Quiescent(pending', active') THEN "returned" ELSE "drain"
              /\ claim' = None
              /\ UNCHANGED <<guard, result, coalesceBeforeClaim, notified, aborted,
                             entries, inFlight, scheduled, closed>>

\* The listener on the signal is removed when the drain begins.
Abort == /\ ~aborted
         /\ aborted' = TRUE
         /\ notified' = (notified \/ pc \in {"full", "idle"})
         /\ UNCHANGED <<jobVars, pending, active, failure, loop, batcher>>

---------------------------------------------------------------------------
(* The batcher.                                                            *)

\* pump(): full batches, or also a partial one, while there is room.  Flushing a batch
\* stops the guards of its jobs.
Pump(queue, flights, force) ==
    LET batches == (Len(queue) + (IF force THEN BatchSize - 1 ELSE 0)) \div BatchSize
        n == Min({batches, CompleteAsyncDepth - Cardinality(flights)})
        taken == Min({n * BatchSize, Len(queue)})
        batch(i) == SubSeq(queue, (i - 1) * BatchSize + 1, Min({i * BatchSize, Len(queue)}))
    IN /\ entries' = SubSeq(queue, taken + 1, Len(queue))
       /\ inFlight' = flights \cup
              {[entries |-> batch(i), phase |-> "stopping", refill |-> FALSE] : i \in 1..n}
       /\ guard' = [j \in Jobs |->
              IF j \in ToSet(SubSeq(queue, 1, taken)) THEN Stop(guard[j]) ELSE guard[j]]

\* pump(false), then schedulePartialFlush().
PumpThenSchedule(queue, flights) ==
    /\ Pump(queue, flights, FALSE)
    /\ scheduled' = (scheduled \/ (entries' # <<>> /\ ~closed))

PartialFlush == /\ scheduled /\ TimersDue
                /\ scheduled' = FALSE
                /\ Pump(entries, inFlight, TRUE)
                /\ UNCHANGED <<task, result, pool, refillEnabled, closed>>

Update(f, changed) == inFlight' = (inFlight \ {f}) \cup {changed}

\* The jobs of S resolve, or reject, the promise their handling awaits.
Settle(S, res) == /\ task' = [j \in Jobs |-> IF j \in S THEN "resolved" ELSE task[j]]
                  /\ result' = [j \in Jobs |-> IF j \in S THEN res[j] ELSE result[j]]

\* Slip: the renewals in flight are not awaited.
GuardsStopping(f) == \A j \in ToSet(f.entries) : guard[j] \in {"stopped", "stopping", "lost"}

GuardsSettled(f) == \A j \in ToSet(f.entries) : guard[j] \in {"stopped", "lost"}

\* Slip: the signal is only read when the completion is queued.
RefillUnlessClosed == FuseCompleteClaim /\ refillEnabled /\ ~closed

MayRefill == FuseCompleteClaim /\ refillEnabled /\ ~closed /\ ~aborted

InOrderOf(queue, seq) ==
    \A i, k \in DOMAIN seq : i < k =>
        \E a, b \in DOMAIN queue : a < b /\ queue[a] = seq[i] /\ queue[b] = seq[k]

\* The guards have stopped; jobs whose lease was lost are rejected, the others sent.
SendBatch(f) ==
    LET held == {j \in ToSet(f.entries) : guard[j] # "lost"}
    IN /\ f.phase = "stopping"
       /\ GuardsSettled(f)
       /\ Settle(ToSet(f.entries) \ held, [j \in Jobs |-> Error])
       /\ \/ /\ held = {}
             /\ Update(f, [f EXCEPT !.phase = "settled"])
          \/ \E ready \in SetToSeqs(held) :
                /\ held # {} /\ InOrderOf(f.entries, ready)
                /\ Update(f, [entries |-> ready, phase |-> "sent", refill |-> MayRefill])
       /\ UNCHANGED <<guard, pool, entries, scheduled, refillEnabled, closed>>

\* The response: the first job of the batch brings the replacements, and all of them
\* an error of the completion or of the claim, if there was one.
BatchAnswered(f) ==
    /\ f.phase = "sent"
    /\ \E S \in SUBSET {j \in Jobs : task[j] = "due"}, failed \in BOOLEAN :
         /\ f.refill /\ S = {} => failed \/ \A j \in Jobs : task[j] # "due"
         /\ Cardinality(S) <= IF f.refill THEN Len(f.entries) ELSE 0
         /\ \E new \in SetToSeqs(S) :
              result' = [j \in Jobs |->
                  IF j \notin ToSet(f.entries) THEN result[j]
                  ELSE [items |-> IF j = Head(f.entries) THEN new ELSE <<>>, error |-> failed]]
         /\ task' = [j \in Jobs |-> IF j \in S THEN "claimed"
                                    ELSE IF j \in ToSet(f.entries) THEN "resolved" ELSE task[j]]
         /\ refillEnabled' = (refillEnabled /\ ~failed)
    /\ Update(f, [f EXCEPT !.phase = "settled"])
    /\ UNCHANGED <<guard, pool, entries, scheduled, closed>>

\* The finally block of the operation.
BatchDone(f) == /\ f.phase = "settled"
                /\ PumpThenSchedule(entries, inFlight \ {f})
                /\ UNCHANGED <<task, result, pool, refillEnabled, closed>>

---------------------------------------------------------------------------
(* The handling of a job: a task of the pool.                              *)

\* handle() runs a microtask after start(); it throws when the lease is already lost.
Handle(j) == /\ task[j] = "started"
             /\ \/ /\ guard[j] # "failed"
                   /\ task' = [task EXCEPT ![j] = "handling"]
                   /\ UNCHANGED <<guard, result>>
                \/ /\ guard[j] = "failed"
                   /\ guard' = [guard EXCEPT ![j] = Stop(@)]
                   /\ Settle({j}, [k \in Jobs |-> Error])
             /\ UNCHANGED <<pool, batcher>>

\* The handler returns, and the job is handed to the batcher.
Complete(j) == /\ task[j] = "handling"
               /\ task' = [task EXCEPT ![j] = "completing"]
               /\ PumpThenSchedule(Append(entries, j), inFlight)
               /\ UNCHANGED <<result, pool, refillEnabled, closed>>

\* The handler throws, or returns an outcome that is not batched: the guard is stopped
\* and the outcome, or the exception policy, applied with a request of its own.
Apply(j) == /\ task[j] = "handling"
            /\ task' = [task EXCEPT ![j] = "stopping"]
            /\ guard' = [guard EXCEPT ![j] = Stop(@)]
            /\ UNCHANGED <<result, pool, batcher>>

Send(j) == /\ task[j] = "stopping"
           /\ \/ /\ guard[j] = "stopped"
                 /\ task' = [task EXCEPT ![j] = "sent"]
                 /\ UNCHANGED result
              \/ /\ guard[j] = "lost"
                 /\ Settle({j}, [k \in Jobs |-> Error])
           /\ UNCHANGED <<guard, pool, batcher>>

Applied(j) == /\ task[j] = "sent"
              /\ \E r \in {NoResult, Error} : Settle({j}, [k \in Jobs |-> r])
              /\ UNCHANGED <<guard, pool, batcher>>

\* The pool takes the result: replacements are queued, with guards; an error stops it.
\* The first job of a batch, which brings the replacements, is resolved first.
TakeResult(j) ==
    /\ task[j] = "resolved"
    /\ result[j].items = <<>> => \A k \in Jobs : result[k].items = <<>>
    /\ LET items == result[j].items
       IN /\ pending' = pending \o items
          /\ task' = [k \in Jobs |-> IF k = j THEN "ended"
                                     ELSE IF k \in ToSet(items) THEN "pending" ELSE task[k]]
          /\ guard' = [k \in Jobs |-> IF k \in ToSet(items) THEN "active" ELSE guard[k]]
          /\ failure' = (failure \/ result[j].error)
          /\ refillEnabled' = (refillEnabled /\ ~failure')
          /\ notified' = (notified \/ (result[j].error /\ pc \in Waits))
    /\ result' = [result EXCEPT ![j] = NoResult]
    /\ UNCHANGED <<active, loop, aborted, entries, inFlight, scheduled, closed>>

\* The finally block of the task.
TaskEnds(j) == /\ task[j] = "ended"
               /\ task' = [task EXCEPT ![j] = "done"]
               /\ active' = active \ {j}
               /\ notified' = (notified \/ pc \in Waits)
               /\ UNCHANGED <<guard, result, pending, failure, loop, aborted, batcher>>

\* The finally block of runContinuously.  Every completion has been answered by then.
Close == /\ pc = "returned"
         /\ closed' = TRUE
         /\ scheduled' = FALSE
         /\ Pump(entries, inFlight, TRUE)
         /\ pc' = "closing"
         /\ UNCHANGED <<task, result, pending, active, failure, claim, coalesceBeforeClaim,
                        notified, aborted, refillEnabled>>

Closed == /\ pc = "closing"
          /\ entries = <<>> /\ inFlight = {}
          /\ pc' = "closed"
          /\ UNCHANGED <<jobVars, pending, active, failure, claim, coalesceBeforeClaim,
                         notified, aborted, batcher>>

\* A job becomes due on the server.
Due(j) == /\ task[j] = "absent"
          /\ task' = [task EXCEPT ![j] = "due"]
          /\ UNCHANGED <<guard, result, pool, batcher>>

---------------------------------------------------------------------------
Init == /\ task = [j \in Jobs |-> "absent"]
        /\ guard = [j \in Jobs |-> "none"]
        /\ result = [j \in Jobs |-> NoResult]
        /\ pending = <<>> /\ active = {} /\ failure = FALSE
        /\ coalesceBeforeClaim = FALSE
        /\ pc = "top" /\ notified = FALSE /\ claim = None
        /\ aborted = FALSE
        /\ entries = <<>> /\ inFlight = {} /\ scheduled = FALSE
        /\ refillEnabled = TRUE /\ closed = FALSE

PoolStep == \/ Start \/ Notified \/ IdleTimeout \/ WindowEnds
            \/ ClaimAnswered \/ ClaimFails \/ Close \/ Closed
BatchStep == PartialFlush \/ \E f \in inFlight : SendBatch(f) \/ BatchAnswered(f) \/ BatchDone(f)
TaskStep(j) == \/ Handle(j) \/ Complete(j) \/ Apply(j) \/ Send(j) \/ Applied(j)
               \/ TakeResult(j) \/ TaskEnds(j)

Next == \/ PoolStep \/ BatchStep \/ Abort
        \/ \E j \in Jobs : TaskStep(j) \/ Renew(j) \/ RenewalEnds(j) \/ Due(j)

Spec == Init /\ [][Next]_vars

\* What follows from timers that fire, requests that are answered, handlers that end and
\* continuations that run; the loop of the pool cannot keep the rest from running.  Nothing
\* makes a job due or the signal abort, and only a renewal somebody waits for must end.
Continue == \/ BatchStep
            \/ \E j \in Jobs : TaskStep(j) \/ (guard[j] = "stopping" /\ RenewalEnds(j))

FairSpec == Spec /\ WF_vars(PoolStep) /\ WF_vars(Continue)

---------------------------------------------------------------------------
Unfinished == {"started", "handling", "completing", "stopping", "sent", "resolved", "ended"}
Leased == Unfinished \cup {"pending", "claimed"}

\* README.md:437: "A slot stays occupied through its complete, retry, or fail
\* acknowledgement; the worker never exceeds its local concurrency limit."  The jobs
\* between the start of their handler and the answer to their last request are at most
\* Concurrency, although claims may return more and completions bring replacements.
WithinConcurrency ==
    Cardinality({j \in Jobs : task[j] \in Unfinished \ {"resolved", "ended"}}) <= Concurrency

Sent(j) == \/ task[j] = "sent"
           \/ \E f \in inFlight : f.phase = "sent" /\ j \in ToSet(f.entries)

\* A job is renewed, or known to be lost, as long as it waits for a slot or is handled; no
\* renewal of it is in flight, and its lease has not been lost, while the request that
\* settles it is.  "Claims already received must still be finalized after shutdown or
\* another handler failure" (worker-internal.ts:257-260): when the pool returns, no job is
\* left in its hands or in the batcher's and no guard renews any more.
LeasesHandedOver ==
    /\ \A j \in Jobs : /\ task[j] \in {"pending", "started", "handling"} =>
                              guard[j] \in {"active", "renewing", "failed"}
                       /\ Sent(j) => guard[j] = "stopped"
    /\ pc \in {"returned", "closing", "closed"} =>
          /\ \A j \in Jobs : task[j] \notin Leased /\ guard[j] \in {"none", "stopped", "lost"}
          /\ entries = <<>>
          /\ \A f \in inFlight : f.phase = "settled"

\* Once the signal has aborted or a handler has failed, no claim is sent any more, by
\* the pool or with a completion.
NoClaimAfterStop ==
    [][Stopped => /\ pc' = "claim" => pc = "claim" /\ claim' = claim
                  /\ \A f \in inFlight' \ inFlight : f.phase = "sent" => ~f.refill]_vars

\* As long as the worker runs every due job is claimed in the end; a claimed job is
\* handled to the end whatever happens; a worker that is stopped returns.
NothingStalls == IF Stopped THEN pc = "closed" /\ \A j \in Jobs : task[j] \notin Leased
                            ELSE \A j \in Jobs : task[j] \notin Leased \cup {"due"}

\* README.md:437: "Per-job run() workers cap every claim to currently available
\* concurrency", so that a claimed job never waits for a slot, nor for the claim.
ClaimsAreCapped ==
    [][pc' = "claim" /\ pc # "claim" =>
           claim'.limit + Cardinality(active') + Len(pending') <= Concurrency]_vars
=============================================================================
