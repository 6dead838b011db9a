----------------------------- MODULE WaveWorker -----------------------------
(***************************************************************************)
(* A queue worker that claims in waves: QueueWorker.runOnce and            *)
(* runBatchOnce, runQueueWorkerInWaves, QueuePendingCompletions and        *)
(* flushQueueCompletions.                                                  *)
(*                                                                         *)
(* A wave claims jobs, runs their handlers, stops the guards that renew    *)
(* their leases and completes those that succeeded, in batches.  With a    *)
(* depth the completions are sent without waiting and outlive the wave;    *)
(* later waves, and flush(), which the user may call at any moment,        *)
(* collect what was answered.                                              *)
(*                                                                         *)
(* The code between two awaits is one step.                                *)
(***************************************************************************)
EXTENDS Naturals, Sequences, FiniteSets, FiniteSetsExt, SequencesExt

CONSTANTS Jobs, BatchSize, DrainBatches,
          OverReturn,  \* jobs a claim may return beyond its limit
          Configs      \* [kind : {"jobs", "batch"}, concurrency : Nat, depth : Nat, raise : BOOLEAN]

VARIABLES config,
          job, guard,   \* of each job
          cursor,       \* the jobs of the wave no handler has taken
          completions,  \* those whose handler succeeded, then those still to be completed
          pending,      \* the completions sent: a set of [jobs : a set, state]
          pc, batch,
          woken,        \* drainOne has been notified
          threw,        \* what the wave will throw: "no", "yes" or "flush"
          flusher,      \* what flush() waits for
          completed,    \* jobs that callers were told are completed
          rejected, aborted

handling == <<job, guard, cursor>>
vars == <<config, handling, completions, pending, pc, batch, woken, threw, flusher, completed,
          rejected, aborted>>

Idle == {}
Running == {"handling", "stopping", "sent"}

Init == /\ config \in Configs
        /\ job = [j \in Jobs |-> "absent"]
        /\ guard = [j \in Jobs |-> "none"]
        /\ cursor = <<>> /\ completions = <<>> /\ pending = {}
        /\ pc = "top" /\ batch = 1
        /\ woken = FALSE /\ threw = "no"
        /\ flusher = Idle
        /\ completed = 0
        /\ rejected = FALSE /\ aborted = FALSE

---------------------------------------------------------------------------
(* The guards, as in ContinuousWorker.                                     *)

Stop(g) == CASE g = "active" -> "stopped"
             [] g = "renewing" -> "stopping"
             [] g = "failed" -> "lost"
             [] OTHER -> g

StopAll(S) == [j \in Jobs |-> IF j \in S THEN Stop(guard[j]) ELSE guard[j]]

Renew(j) == /\ guard[j] = "active"
            /\ guard' = [guard EXCEPT ![j] = "renewing"]
            /\ UNCHANGED <<config, job, cursor, completions, pending, pc, batch, woken, threw,
                           flusher, completed, rejected, aborted>>

RenewalEnds(j) ==
    /\ \/ /\ guard[j] = "renewing"
          /\ \E g \in {"active", "failed"} : guard' = [guard EXCEPT ![j] = g]
       \/ /\ guard[j] = "stopping"
          /\ \E g \in {"stopped", "lost"} : guard' = [guard EXCEPT ![j] = g]
    /\ UNCHANGED <<config, job, cursor, completions, pending, pc, batch, woken, threw,
                   flusher, completed, rejected, aborted>>

---------------------------------------------------------------------------
(* QueuePendingCompletions.                                                *)

InFlight(e) == e.state = "sent"
Done(e) == ~InFlight(e)

JobsIn(entries) == UNION {e.jobs : e \in entries}
Answered(entries) == {e \in entries : e.state = "answered"}

\* Slip: what is settled is dropped uncounted when one of it has failed.
CountUnlessFailed(entries) ==
    IF \E e \in entries : e.state = "failed" THEN 0 ELSE Cardinality(JobsIn(Answered(entries)))

\* What collectSettled() counts, whether it throws, and what it keeps.
Count(entries) == Cardinality(JobsIn(Answered(entries)))
Failure(entries) == \E e \in entries : e.state = "failed"
Kept(entries) == {e \in entries : InFlight(e)}

\* collectSettled() in a call that throws its error on.
Collect(q) == /\ completed' = completed + Count(q)
              /\ pending' = Kept(q)

\* A completion is answered, in whole or with an error for one of its jobs, or fails;
\* drainOne is notified, whichever it is.
Settle(e) == /\ InFlight(e)
             /\ \E s \in {"answered", "failed"} :
                  /\ pending' = (pending \ {e}) \cup {[e EXCEPT !.state = s]}
                  /\ job' = [j \in Jobs |-> IF j \in e.jobs THEN s ELSE job[j]]
             /\ woken' = (woken \/ pc = "drainOne")
             /\ UNCHANGED <<config, guard, cursor, completions, pc, batch, threw, flusher,
                            completed, rejected, aborted>>

\* flush() of the user: it waits for the completions there are, and collects all that are
\* settled by then.
FlushCalled == /\ flusher = Idle /\ pending # {}
               /\ flusher' = {e.jobs : e \in pending}
               /\ UNCHANGED <<config, handling, completions, pending, pc, batch, woken, threw,
                              completed, rejected, aborted>>

FlushReturns == /\ flusher # Idle
                /\ \A e \in pending : e.jobs \in flusher => Done(e)
                /\ Collect(pending)
                /\ rejected' = (rejected \/ Failure(pending))
                /\ flusher' = Idle
                /\ UNCHANGED <<config, handling, completions, pc, batch, woken, threw, aborted>>

---------------------------------------------------------------------------
(* The loop.                                                               *)

\* run() flushes and rejects; the user of runBatchOnce goes on.
Rejected == /\ rejected' = TRUE
            /\ pc' = IF config.kind = "jobs" THEN "finally" ELSE "top"

\* The wave ends here with what it has thrown, or with its result.
EndWave(failed, claimed) ==
    /\ threw' = "no"
    /\ IF failed THEN Rejected /\ batch' = 1
       ELSE /\ UNCHANGED rejected
            /\ IF claimed /\ config.kind = "jobs" /\ batch < DrainBatches
               THEN pc' = "claim" /\ batch' = batch + 1
               ELSE /\ pc' = IF claimed \/ batch > 1 THEN "top" ELSE "sleep"
                    /\ batch' = 1

\* drain(false), then the claim is sent.
BeginWave == /\ pc = "top" /\ ~aborted
             /\ Collect(pending)
             /\ IF Failure(pending) THEN Rejected ELSE pc' = "claim" /\ UNCHANGED rejected
             /\ UNCHANGED <<config, handling, completions, batch, woken, threw, flusher, aborted>>

\* A poll that would find nothing new is left out.
SleepEnds == /\ pc = "sleep"
             /\ \/ aborted
                \/ \E j \in Jobs : job[j] = "due"
                \/ \E e \in pending : Done(e)
             /\ pc' = "top"
             /\ UNCHANGED <<config, handling, completions, pending, batch, woken, threw, flusher,
                            completed, rejected, aborted>>

Aborted == /\ pc = "top" /\ aborted
           /\ pc' = "finally"
           /\ UNCHANGED <<config, handling, completions, pending, batch, woken, threw, flusher,
                          completed, rejected, aborted>>

\* The finally block: flush().
Finally == /\ pc = "finally"
           /\ \A e \in pending : Done(e)
           /\ Collect(pending)
           /\ rejected' = (rejected \/ Failure(pending))
           /\ pc' = "returned"
           /\ UNCHANGED <<config, handling, completions, batch, woken, threw, flusher, aborted>>

\* Bound: a claim fails before anything else has.
ClaimFails == /\ pc = "claim" /\ ~rejected
              /\ EndWave(TRUE, FALSE)
              /\ UNCHANGED <<config, handling, completions, pending, woken, flusher, completed,
                             aborted>>

Limit == IF config.kind = "jobs" THEN Min({BatchSize, config.concurrency}) ELSE BatchSize

\* The jobs are guarded, and a handler is called for each runner, or one for all.
Claimed == LET due == {j \in Jobs : job[j] = "due"} IN
    /\ pc = "claim"
    /\ \/ /\ due = {}
          /\ EndWave(FALSE, FALSE)
          /\ UNCHANGED handling
       \/ \E claim \in SUBSET due :
             LET first == IF config.kind = "jobs" THEN config.concurrency ELSE Cardinality(due)
                 taken == SubSeq(SetToSeq(claim), 1, Min({first, Cardinality(claim)}))
             IN /\ Cardinality(claim) \in 1..(Limit + OverReturn)
                /\ job' = [j \in Jobs |-> IF j \in ToSet(taken) THEN "handling"
                                          ELSE IF j \in claim THEN "claimed" ELSE job[j]]
                /\ guard' = [j \in Jobs |-> IF j \in claim THEN "active" ELSE guard[j]]
                /\ cursor' = SubSeq(SetToSeq(claim), Len(taken) + 1, Cardinality(claim))
                /\ pc' = "handle"
                /\ UNCHANGED <<batch, threw, rejected>>
    /\ UNCHANGED <<config, completions, pending, woken, flusher, completed, aborted>>

---------------------------------------------------------------------------
(* runNext: one job after the other; a runner that throws takes no more.   *)

Ended(j, s) == [job EXCEPT ![j] = s]

\* The runner that held a job goes on with the next, whose guard must not have failed.
RunNext(jobs) ==
    IF cursor = <<>>
    THEN job' = jobs /\ UNCHANGED <<cursor, threw>>
    ELSE LET k == Head(cursor)
             lost == guard[k] = "failed"
         IN /\ job' = [jobs EXCEPT ![k] = IF lost THEN "released" ELSE "handling"]
            /\ cursor' = Tail(cursor)
            /\ threw' = IF lost THEN "yes" ELSE threw

RunnerThrows(j) == /\ job' = Ended(j, "released")
                   /\ threw' = "yes"
                   /\ UNCHANGED cursor

\* The handler returns nothing: the job awaits the completion of the wave.
Succeeds(j) == /\ pc = "handle" /\ config.kind = "jobs" /\ job[j] = "handling"
               /\ completions' = Append(completions, j)
               /\ RunNext(Ended(j, "succeeded"))
               /\ UNCHANGED <<config, guard, pending, pc, batch, woken, flusher, completed,
                              rejected, aborted>>

\* It returns an outcome or throws: its guard is stopped before the job is settled.
Stops(j) == /\ pc = "handle" /\ config.kind = "jobs" /\ job[j] = "handling"
            /\ job' \in {Ended(j, "stopping"), Ended(j, "raising")}
            /\ job'[j] = "raising" => config.raise
            /\ guard' = StopAll({j})
            /\ UNCHANGED <<config, cursor, completions, pending, pc, batch, woken, threw, flusher,
                           completed, rejected, aborted>>

Stopped(j) == /\ job[j] \in {"stopping", "raising"} /\ guard[j] \in {"stopped", "lost"}
              /\ IF job[j] = "raising" \/ guard[j] = "lost" THEN RunnerThrows(j)
                 ELSE job' = Ended(j, "sent") /\ UNCHANGED <<cursor, threw>>
              /\ UNCHANGED <<config, guard, completions, pending, pc, batch, woken, flusher,
                             completed, rejected, aborted>>

\* The request that settles one job is answered or fails.
Applied(j) == /\ pc = "handle" /\ job[j] = "sent"
              /\ RunNext(Ended(j, "settled")) \/ RunnerThrows(j)
              /\ UNCHANGED <<config, guard, completions, pending, pc, batch, woken, flusher,
                             completed, rejected, aborted>>

\* runBatchOnce: one handler for all jobs; it succeeds, or gives one outcome, or throws.
BatchHandled == LET held == {j \in Jobs : job[j] = "handling"} IN
    /\ pc = "handle" /\ config.kind = "batch"
    /\ \E s \in {"succeeded", "decided"} :
          job' = [j \in Jobs |-> IF j \in held THEN s ELSE job[j]]
    /\ threw' \in IF config.raise THEN {"no", "yes"} ELSE {"no"}
    /\ completions' = SetToSeq(held)
    /\ guard' = StopAll(held)
    /\ pc' = "stop"
    /\ UNCHANGED <<config, cursor, pending, batch, woken, flusher, completed, rejected, aborted>>

\* stopQueueBatchGuards of the jobs that await completion, once every runner has ended.
Handled == /\ pc = "handle" /\ config.kind = "jobs"
           /\ \A j \in Jobs : job[j] \notin Running \cup {"raising"}
           /\ guard' = StopAll(ToSet(completions))
           /\ pc' = "stop"
           /\ UNCHANGED <<config, job, cursor, completions, pending, batch, woken, threw, flusher,
                          completed, rejected, aborted>>

InOrderOf(queue, seq) ==
    \A i, k \in DOMAIN seq : i < k =>
        \E a, b \in DOMAIN queue : a < b /\ queue[a] = seq[i] /\ queue[b] = seq[k]

\* A job whose lease is lost is left to the server, and so are all when the handler of a
\* batch has thrown; the others are completed.
AllStopped == LET lost == {j \in ToSet(completions) :
                              guard[j] = "lost" \/ (config.kind = "batch" /\ threw = "yes")} IN
    /\ pc = "stop"
    /\ \A j \in ToSet(completions) : guard[j] \in {"stopped", "lost"}
    /\ \E ready \in SetToSeqs(ToSet(completions) \ lost) :
          InOrderOf(completions, ready) /\ completions' = ready
    /\ job' = [j \in Jobs |-> IF j \in lost THEN "dropped" ELSE job[j]]
    /\ threw' = IF lost # {} THEN "yes" ELSE threw
    /\ pc' = "flush"
    /\ UNCHANGED <<config, guard, cursor, pending, batch, woken, flusher, completed, rejected,
                   aborted>>

---------------------------------------------------------------------------
(* flushQueueCompletions and applyQueueBatchOutcome.                       *)

Batches(queue) == (Len(queue) + BatchSize - 1) \div BatchSize
Upto(queue, n) == Min({n * BatchSize, Len(queue)})
Batch(queue, i) == ToSet(SubSeq(queue, (i - 1) * BatchSize + 1, Upto(queue, i)))
Rest(queue, n) == SubSeq(queue, Upto(queue, n) + 1, Len(queue))

Deferred == config.depth > 0 /\ \A j \in ToSet(completions) : job[j] = "succeeded"

\* Batches are sent up to the depth; when that is reached what has settled is collected to
\* make room, and when nothing has, drainOne waits.
SendCompletions ==
    LET collects == pc = "drainOne" \/ Batches(completions) > config.depth - Cardinality(pending)
        kept == IF collects THEN Kept(pending) ELSE pending
        n    == Min({Batches(completions), config.depth - Cardinality(kept)})
        sent == ToSet(SubSeq(completions, 1, Upto(completions, n)))
    IN /\ Deferred /\ completions # <<>>
       /\ pc = "flush" \/ (pc = "drainOne" /\ woken)
       /\ woken' = FALSE
       /\ pending' = kept \cup {[jobs |-> Batch(completions, i), state |-> "sent"] : i \in 1..n}
       /\ job' = [j \in Jobs |-> IF j \in sent THEN "completing" ELSE job[j]]
       /\ completions' = Rest(completions, n)
       /\ IF collects
          THEN /\ completed' = completed + Count(pending)
               /\ threw' = IF Failure(pending) THEN "flush" ELSE threw
          ELSE UNCHANGED <<completed, threw>>
       /\ pc' = IF completions' = <<>> THEN "flush" ELSE "drainOne"
       /\ UNCHANGED <<config, guard, cursor, batch, flusher, rejected, aborted>>

\* Without a depth, or for another outcome: batch by batch, each awaited, whatever has
\* failed before.
SendBatch ==
    /\ pc = "flush" /\ ~Deferred /\ completions # <<>>
    /\ job' = [j \in Jobs |-> IF j \notin Batch(completions, 1) THEN job[j]
                              ELSE IF job[j] = "succeeded" THEN "completing" ELSE "sent"]
    /\ pc' = "await"
    /\ UNCHANGED <<config, guard, cursor, completions, pending, batch, woken, threw, flusher,
                   completed, rejected, aborted>>

BatchAnswered ==
    /\ pc = "await"
    /\ \E s \in {"failed", IF job[Head(completions)] = "completing" THEN "answered" ELSE "settled"} :
          /\ job' = [j \in Jobs |-> IF j \in Batch(completions, 1) THEN s ELSE job[j]]
          /\ completed' = completed + (IF s = "answered" THEN Upto(completions, 1) ELSE 0)
          /\ threw' = IF s = "failed" THEN "flush" ELSE threw
    /\ completions' = Rest(completions, 1)
    /\ pc' = "flush"
    /\ UNCHANGED <<config, guard, cursor, pending, batch, woken, flusher, rejected, aborted>>

\* When a completion has failed, flushQueueCompletions waits for all of them.
FlushFailed == /\ pc = "flush" /\ completions = <<>>
               /\ threw = "flush" /\ config.depth > 0
               /\ \A e \in pending : Done(e)
               /\ Collect(pending)
               /\ threw' = "yes"
               /\ UNCHANGED <<config, handling, completions, pc, batch, woken, flusher, rejected,
                              aborted>>

\* The finally block stops the guards of the jobs that were neither settled nor completed.
Left == {j \in Jobs : job[j] \in {"claimed", "released"}}

Release == /\ pc = "flush" /\ completions = <<>>
           /\ ~(threw = "flush" /\ config.depth > 0)
           /\ guard' = StopAll(Left)
           /\ pc' = "release"
           /\ UNCHANGED <<config, job, cursor, completions, pending, batch, woken, threw, flusher,
                          completed, rejected, aborted>>

\* Promise.all throws as soon as one of them has lost its lease.
Released == LET lost == \E j \in Left : guard[j] = "lost" IN
    /\ pc = "release"
    /\ lost \/ \A j \in Left : guard[j] = "stopped"
    /\ job' = [j \in Jobs |-> IF j \in Left THEN "dropped" ELSE job[j]]
    /\ cursor' = <<>>
    /\ EndWave(lost \/ threw # "no", TRUE)
    /\ UNCHANGED <<config, guard, completions, pending, woken, flusher, completed, aborted>>

---------------------------------------------------------------------------
Due(j) == /\ job[j] = "absent"
          /\ job' = [job EXCEPT ![j] = "due"]
          /\ UNCHANGED <<config, guard, cursor, completions, pending, pc, batch, woken, threw,
                         flusher, completed, rejected, aborted>>

Abort == /\ ~aborted
         /\ aborted' = TRUE
         /\ UNCHANGED <<config, handling, completions, pending, pc, batch, woken, threw, flusher,
                        completed, rejected>>

\* Requests and renewals are answered, handlers end, timers fire, continuations run.
Continue == \/ BeginWave \/ SleepEnds \/ Aborted \/ Finally \/ ClaimFails \/ Claimed
            \/ BatchHandled \/ Handled \/ AllStopped \/ SendCompletions \/ SendBatch
            \/ BatchAnswered \/ FlushFailed \/ Release \/ Released \/ FlushReturns
            \/ \E e \in pending : Settle(e)
            \/ \E j \in Jobs : \/ Succeeds(j) \/ Stops(j) \/ Stopped(j) \/ Applied(j)
                               \/ (guard[j] = "stopping" /\ RenewalEnds(j))

Next == \/ Continue \/ Abort \/ FlushCalled
        \/ \E j \in Jobs : Due(j) \/ Renew(j) \/ RenewalEnds(j)

Spec == Init /\ [][Next]_vars
FairSpec == Spec /\ WF_vars(Continue)

---------------------------------------------------------------------------
\* However waves, the collection of what was answered and calls of flush() interleave, the
\* completions under way never exceed the depth, each that was answered is counted to one
\* caller, and one that failed makes some call reject.
CompletionsAccounted ==
    /\ config.depth > 0 => Cardinality(pending) <= config.depth
    /\ LET told(s) == {j \in Jobs : job[j] = s /\ j \notin JobsIn(pending)}
       IN /\ completed = Cardinality(told("answered"))
          /\ told("failed") # {} => rejected \/ threw # "no"

\* The lease of a job is renewed until the request that settles it, which is only sent
\* while the lease is held and no renewal is in flight.  When run() has returned, nothing
\* is under way.
WaveHandsOver ==
    /\ \A j \in Jobs :
          /\ job[j] \in {"claimed", "handling"} /\ pc # "release"
                => guard[j] \in {"active", "renewing", "failed"}
          /\ job[j] \in {"sent", "completing"} => guard[j] = "stopped"
    /\ pc = "returned" =>
          /\ pending = {}
          /\ \A j \in Jobs : /\ job[j] \in {"absent", "due", "answered", "failed", "settled", "dropped"}
                             /\ guard[j] \notin {"active", "renewing"}

\* Every job that comes due is handled, and everything sent is answered and collected;
\* when the worker is stopped, run() returns.
Settled == /\ IF aborted \/ pc = "returned" THEN pc = "returned"
              ELSE pc = "sleep" /\ \A j \in Jobs : job[j] # "due"
           /\ pending = {} /\ flusher = Idle
=============================================================================
