------------------------------ MODULE AutoBatch ------------------------------
(***************************************************************************)
(* Automatic batching: auto-batch.ts and auto-batch-ordering.ts.           *)
(*                                                                         *)
(* Batchable commands are collected and sent as one pipeline.  Batches run *)
(* concurrently unless they touch a common key.  What cannot be batched    *)
(* (an explicit pipeline, a control command, a command that blocks in the  *)
(* server) is a fence: it raises an ordering barrier, flushes, and waits   *)
(* for every batch.  The executor below is external: it runs the items of  *)
(* a batch in any order the options of the batch allow.                    *)
(*                                                                         *)
(* An await on a barrier is resumed from the microtask queue, in the order *)
(* of the awaits; what else is in that queue may run in between.           *)
(***************************************************************************)
EXTENDS Naturals, Sequences, FiniteSets, Functions, OrderingPlan

CONSTANTS MaxCalls,     \* bound on the calls made
          Keys,
          Commands,     \* what may be called: [kind, reads, writes]
          MaxCommands

Calls == 1..MaxCalls   \* in the order they are made
NoOne == 0              \* no call, no batch

VARIABLES cmd,       \* the command of each call
          pc,
          barrier,   \* the fence whose barrier a call awaits
          microtasks, \* calls whose await has ended, to be resumed in this order
          orderingBarrier,  \* the fence that owns this.orderingBarrier
          pending,
          scheduled,
          batches,   \* items and dependencies of a batch, named by its first call
          inFlightBatches,
          globalBatchTail,
          batchKeyStates,
          closed,
          executorClosed,
          pushed     \* history: the calls in the order they entered pending

keyed == <<batches, inFlightBatches, globalBatchTail, batchKeyStates>>
vars == <<cmd, pc, barrier, microtasks, orderingBarrier, pending, scheduled, keyed,
          closed, executorClosed, pushed>>

NoCommand == [kind |-> "none", reads |-> {}, writes |-> {}]
NoBatch == [items |-> <<>>, dependencies |-> {}]
NoAccess == [lastWrite |-> NoOne, reads |-> {}]

Init == /\ cmd = [c \in Calls |-> NoCommand]
        /\ pc = [c \in Calls |-> "idle"]
        /\ barrier = [c \in Calls |-> NoOne]
        /\ microtasks = <<>>
        /\ orderingBarrier = NoOne
        /\ pending = <<>>
        /\ scheduled = FALSE
        /\ batches = [b \in Calls |-> NoBatch]
        /\ inFlightBatches = {}
        /\ globalBatchTail = NoOne
        /\ batchKeyStates = [k \in Keys |-> NoAccess]
        /\ closed = FALSE
        /\ executorClosed = FALSE
        /\ pushed = <<>>

---------------------------------------------------------------------------
(* The plan of a batch, its items being calls of known commands.           *)

CommandsOf(known, items) == [i \in DOMAIN items |-> known[items[i]]]

\* A batch with a command whose keys are unknown has no plan: it runs in order, alone.
Planned(known, items) == HasPlan(CommandsOf(known, items))

Written(known, items) == UNION {known[c].writes : c \in Range(items)}
ReadOnly(known, items) == (UNION {known[c].reads : c \in Range(items)}) \ Written(known, items)

\* What item j of a batch must wait for.
Before(known, items, j) ==
    IF Planned(known, items) THEN FallbackDependencies(CommandsOf(known, items), j) ELSE 1..(j - 1)

---------------------------------------------------------------------------
(* flushNow                                                                *)

\* The batches a new batch waits for.
BatchDependencies(known, items) ==
    IF ~Planned(known, items) THEN inFlightBatches
    ELSE ({globalBatchTail}
          \cup {batchKeyStates[k].lastWrite : k \in Written(known, items) \cup ReadOnly(known, items)}
          \cup UNION {batchKeyStates[k].reads : k \in Written(known, items)}) \ {NoOne}

\* flushNow with the queue q, the calls standing at p.
FlushNow(known, q, p) ==
    /\ pending' = <<>>
    /\ scheduled' = FALSE
    /\ pc' = [c \in Calls |-> IF c \in Range(q) THEN "batched" ELSE p[c]]
    /\ IF q = <<>> THEN UNCHANGED keyed
       ELSE LET b == Head(q) IN
            /\ batches' = [batches EXCEPT ![b] = [items |-> q,
                                                  dependencies |-> BatchDependencies(known, q)]]
            /\ inFlightBatches' = inFlightBatches \cup {b}
            /\ globalBatchTail' = IF Planned(known, q) THEN globalBatchTail ELSE b
            /\ batchKeyStates' =
                 [k \in Keys |->
                    IF ~Planned(known, q) THEN batchKeyStates[k]
                    ELSE IF k \in Written(known, q) THEN [lastWrite |-> b, reads |-> {}]
                    ELSE IF k \in ReadOnly(known, q) THEN [batchKeyStates[k] EXCEPT !.reads = @ \cup {b}]
                    ELSE batchKeyStates[k]]

\* The timer of scheduleFlush, or its microtask, which comes after those it finds.
ScheduledFlush == /\ scheduled
                  /\ microtasks = <<>>
                  /\ FlushNow(cmd, pending, pc)
                  /\ UNCHANGED <<cmd, barrier, microtasks, orderingBarrier, closed,
                                 executorClosed, pushed>>

Push(known, c) ==
    /\ pushed' = Append(pushed, c)
    /\ IF Len(pending) + 1 >= MaxCommands
       THEN FlushNow(known, Append(pending, c), pc)
       ELSE /\ pending' = Append(pending, c)
            /\ pc' = [pc EXCEPT ![c] = "pending"]
            /\ scheduled' = TRUE
            /\ UNCHANGED keyed

---------------------------------------------------------------------------
(* Calls.                                                                  *)

Invoke(c) ==
    /\ pc[c] = "idle" /\ \A d \in 1..(c - 1) : pc[d] # "idle"
    /\ ~closed
    /\ \E command \in Commands :
          /\ cmd' = [cmd EXCEPT ![c] = command]
          /\ \/ /\ command.kind = "helper"
                /\ pc' = [pc EXCEPT ![c] = "running"]
                /\ UNCHANGED <<barrier, microtasks, orderingBarrier>>
             \/ /\ command.kind \in {"fence", "block"}
                /\ pc' = [pc EXCEPT ![c] = "barred"]
                /\ orderingBarrier' = c
                /\ barrier' = [barrier EXCEPT ![c] = orderingBarrier]
                /\ microtasks' = IF orderingBarrier = NoOne THEN Append(microtasks, c)
                                                           ELSE microtasks
             \/ /\ command.kind = "batch" /\ orderingBarrier # NoOne
                /\ pc' = [pc EXCEPT ![c] = "barred"]
                /\ barrier' = [barrier EXCEPT ![c] = orderingBarrier]
                /\ UNCHANGED <<microtasks, orderingBarrier>>
    /\ UNCHANGED <<pending, scheduled, keyed, closed, executorClosed, pushed>>

\* A batchable command with no barrier in its way.
InvokeBatched(c) ==
    /\ pc[c] = "idle" /\ \A d \in 1..(c - 1) : pc[d] # "idle"
    /\ ~closed
    /\ orderingBarrier = NoOne
    /\ \E command \in Commands :
          /\ command.kind = "batch"
          /\ cmd' = [cmd EXCEPT ![c] = command]
          /\ Push([cmd EXCEPT ![c] = command], c)
    /\ UNCHANGED <<barrier, microtasks, orderingBarrier, closed, executorClosed>>

\* The calls of a set in the order they were made.
InOrder(calls) == {seq \in [1..Cardinality(calls) -> calls] :
                     /\ \A c \in calls : \E i \in DOMAIN seq : seq[i] = c
                     /\ \A i, j \in DOMAIN seq : i < j => seq[i] < seq[j]}

\* Slip: orderingBarrier keeps a barrier that has been released.
ReleaseKeepingBarrier(f) ==
    LET awaiting == {c \in Calls : pc[c] = "barred" /\ barrier[c] = f} IN
    /\ \E resumed \in InOrder(awaiting) : microtasks' = microtasks \o resumed
    /\ barrier' = [c \in Calls |-> IF c \in awaiting THEN NoOne ELSE barrier[c]]
    /\ UNCHANGED orderingBarrier

\* The finally block of fence f: those that await its barrier will be resumed.
Release(f) ==
    LET awaiting == {c \in Calls : pc[c] = "barred" /\ barrier[c] = f} IN
    /\ \E resumed \in InOrder(awaiting) : microtasks' = microtasks \o resumed
    /\ barrier' = [c \in Calls |-> IF c \in awaiting THEN NoOne ELSE barrier[c]]
    /\ orderingBarrier' = IF orderingBarrier = f THEN NoOne ELSE orderingBarrier

Resume == LET c == Head(microtasks) IN
          /\ microtasks # <<>>
          /\ microtasks' = Tail(microtasks)
          /\ \/ /\ cmd[c].kind = "batch" /\ closed
                /\ pc' = [pc EXCEPT ![c] = "done"]
                /\ UNCHANGED <<pending, scheduled, keyed, pushed>>
             \/ /\ cmd[c].kind = "batch" /\ ~closed
                /\ Push(cmd, c)
             \/ /\ cmd[c].kind # "batch"
                /\ FlushNow(cmd, pending, [pc EXCEPT ![c] = "flushing"])
                /\ UNCHANGED pushed
          /\ UNCHANGED <<cmd, barrier, orderingBarrier, closed, executorClosed>>

\* flushNow has returned: no batch is in flight.  A blocking command holds the
\* barrier only until it is dispatched.
StartFence(f) ==
    /\ pc[f] = "flushing"
    /\ inFlightBatches = {}
    /\ pc' = [pc EXCEPT ![f] = IF cmd[f].kind = "block" /\ closed THEN "done" ELSE "running"]
    /\ IF cmd[f].kind = "block" THEN Release(f)
       ELSE UNCHANGED <<barrier, microtasks, orderingBarrier>>
    /\ UNCHANGED <<cmd, pending, scheduled, keyed, closed, executorClosed, pushed>>

\* A fence, a helper or a blocking command is answered.
Answer(c) ==
    /\ pc[c] = "running" /\ cmd[c].kind # "batch"
    /\ pc' = [pc EXCEPT ![c] = "done"]
    /\ IF cmd[c].kind = "fence" THEN Release(c)
       ELSE UNCHANGED <<barrier, microtasks, orderingBarrier>>
    /\ UNCHANGED <<cmd, pending, scheduled, keyed, closed, executorClosed, pushed>>

---------------------------------------------------------------------------
(* The executor runs batches.                                              *)

Dispatched(b) == b \in inFlightBatches /\ batches[b].dependencies \cap inFlightBatches = {}

Run(b) == LET items == batches[b].items IN
          /\ Dispatched(b)
          /\ \E j \in DOMAIN items :
                /\ pc[items[j]] = "batched"
                /\ \A i \in Before(cmd, items, j) : pc[items[i]] = "ran"
                /\ pc' = [pc EXCEPT ![items[j]] = "running"]
          /\ UNCHANGED <<cmd, barrier, microtasks, orderingBarrier, pending, scheduled, keyed,
                         closed, executorClosed, pushed>>

Ran(b) == /\ b \in inFlightBatches
          /\ \E c \in Range(batches[b].items) :
                /\ pc[c] = "running"
                /\ pc' = [pc EXCEPT ![c] = "ran"]
          /\ UNCHANGED <<cmd, barrier, microtasks, orderingBarrier, pending, scheduled, keyed,
                         closed, executorClosed, pushed>>

\* Batch b has come back: its calls settle and it leaves the state of its keys.
Settle(b) == LET items == batches[b].items IN
    /\ pc' = [c \in Calls |-> IF c \in Range(items) THEN "done" ELSE pc[c]]
    /\ batches' = [batches EXCEPT ![b] = NoBatch]
    /\ inFlightBatches' = inFlightBatches \ {b}
    /\ globalBatchTail' = IF globalBatchTail = b THEN NoOne ELSE globalBatchTail
    /\ batchKeyStates' = [k \in Keys |->
                            [lastWrite |-> IF batchKeyStates[k].lastWrite = b THEN NoOne
                                           ELSE batchKeyStates[k].lastWrite,
                             reads |-> batchKeyStates[k].reads \ {b}]]
    /\ UNCHANGED <<cmd, barrier, microtasks, orderingBarrier, pending, scheduled,
                   closed, executorClosed, pushed>>

Return(b) == /\ Dispatched(b)
             /\ \A c \in Range(batches[b].items) : pc[c] = "ran"
             /\ Settle(b)

\* executePipeline rejects: no item of the batch is running any more.
Fail(b) == /\ Dispatched(b)
           /\ \A c \in Range(batches[b].items) : pc[c] # "running"
           /\ Settle(b)

---------------------------------------------------------------------------
Close == /\ ~closed
         /\ closed' = TRUE
         /\ scheduled' = FALSE
         /\ pending' = <<>>
         /\ pc' = [c \in Calls |-> IF c \in Range(pending) THEN "done" ELSE pc[c]]
         /\ UNCHANGED <<cmd, barrier, microtasks, orderingBarrier, keyed, executorClosed, pushed>>

\* Slip: queued fences are not waited for.
CloseExecutorEarly ==
    /\ closed /\ ~executorClosed
    /\ inFlightBatches = {}
    /\ \A c \in Calls : cmd[c].kind = "helper" => pc[c] = "done"
    /\ executorClosed' = TRUE
    /\ UNCHANGED <<cmd, pc, barrier, microtasks, orderingBarrier, pending, scheduled, keyed,
                   closed, pushed>>

\* The last barrier is released, batches and helpers have settled.  Closing the
\* executor ends the commands that still block in the server.
CloseExecutor ==
    /\ closed /\ ~executorClosed
    /\ orderingBarrier = NoOne
    /\ inFlightBatches = {}
    /\ \A c \in Calls : cmd[c].kind = "helper" => pc[c] = "done"
    /\ executorClosed' = TRUE
    /\ pc' = [c \in Calls |-> IF cmd[c].kind = "block" /\ pc[c] = "running" THEN "done" ELSE pc[c]]
    /\ UNCHANGED <<cmd, barrier, microtasks, orderingBarrier, pending, scheduled, keyed,
                   closed, pushed>>

Next == \/ \E c \in Calls : Invoke(c) \/ InvokeBatched(c) \/ StartFence(c) \/ Answer(c)
        \/ \E b \in Calls : Run(b) \/ Ran(b) \/ Return(b) \/ Fail(b)
        \/ ScheduledFlush \/ Resume \/ Close \/ CloseExecutor

Spec == Init /\ [][Next]_vars

\* Continuations and timers run, and the executor answers all but blocking commands.
Continue == \/ ScheduledFlush \/ Resume \/ CloseExecutor
            \/ \E c \in Calls : \/ StartFence(c) \/ (cmd[c].kind # "block" /\ Answer(c))
                              \/ Run(c) \/ Ran(c) \/ Return(c)

FairSpec == Spec /\ WF_vars(Continue)

---------------------------------------------------------------------------
\* "same-key write dependencies retain invocation order" (README.md:709), from where
\* commands are queued: whatever is batched with what, a command runs after every
\* command queued before it on a key that one of them writes.  A fence runs after
\* everything called before it; what is called after it runs after it is answered, or
\* dispatched when it blocks.
KeyOrder ==
    /\ \A i, j \in DOMAIN pushed :
          i < j /\ Conflict(cmd[pushed[i]], cmd[pushed[j]]) /\ pc[pushed[j]] = "running"
             => pc[pushed[i]] \in {"ran", "done"}
    /\ \A c, d \in Calls :
          c < d /\ pc[d] = "running" /\ {cmd[c].kind, cmd[d].kind} \cap {"fence", "block"} # {}
                /\ "helper" \notin {cmd[c].kind, cmd[d].kind}
             => pc[c] = "done" \/ (cmd[c].kind = "block" /\ pc[c] = "running")

\* close() lets everything accepted finish first: nothing is left with, or comes to,
\* an executor that is closed.
ExecutorClosedLast ==
    executorClosed => \A c \in Calls : pc[c] \in {"idle", "barred", "done"}

\* Every call settles, even behind a command that blocks for ever, and close() ends.
EveryCallSettled ==
    /\ \A c \in Calls : cmd[c].kind \in {"batch", "fence", "helper"} => pc[c] = "done"
    /\ closed => executorClosed /\ \A c \in Calls : pc[c] \in {"idle", "done"}

\* README.md:709: "same-key write dependencies retain invocation order".
InvocationOrder ==
    \A c, d \in Calls : c < d /\ Conflict(cmd[c], cmd[d]) /\ pc[d] = "running"
                              /\ cmd[c].kind = "batch" /\ cmd[d].kind = "batch"
                           => pc[c] \in {"ran", "done"}
=============================================================================
