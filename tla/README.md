# A verification of the FerricStore TypeScript client

TLA+ models, model-checking runs and machine-checked proofs about
`@ferricstore/ferricstore` (package in `src/`, implementation in `src/src/*.ts`; paths
below are relative to `src/`, and file names without a directory are in `src/src/`).

The package is the client of a server that is not in the repository.  It is a
single-threaded JavaScript library, so its hard behaviours are not data races: they are
interleavings of promise continuations, timers, socket events and server answers, state
that is read before an `await` and used after it, requests whose fate is unknown, leases
and locks that change hands while somebody still works under the old one, and commands
whose meaning is found again, more than once, in a flat list of arguments.

1. [The system](#1-the-system)
2. [Modules and their correspondence to the code](#2-modules-and-their-correspondence-to-the-code)
3. [Runs](#3-runs)
4. [Proofs](#4-proofs)
5. [Disagreements between code and documentation](#5-disagreements-between-code-and-documentation)
6. [Not modelled](#6-not-modelled)
7. [Plan](#7-plan)

## 1. The system

A call of the client goes down through these layers; each is a component with a state of
its own.

```
 Workflow, QueueWorker     claim jobs, run handlers, renew leases  (workflow*.ts, queue*.ts, worker*.ts)
 agent adapters            memory under locks                      (agent-persistence/, langgraph/, openai-agents.ts)
        |
 FerricStoreClient         arguments of a command, division of
                           large calls, back-off                   (client*.ts, store*.ts)
        |  executeCommand, executePipeline, close
 AutoBatchExecutor         one pipeline from many calls            (auto-batch.ts, auto-batch-ordering.ts)
        |
 ReconnectingExecutor      one connection, replaced if dead        (reconnecting-executor.ts)
   or TopologyExecutor     one connection per endpoint             (topology*.ts, routing-topology.ts)
   or HttpTransport        requests on HTTP/2 sessions             (http-*.ts, http2-slot-pool.ts)
        |
 NativeAdapter             bootstrap, payloads, pipelines, frames,
                           credits, timeouts                       (native-*.ts, protocol*.ts)
        |  socket
 server
```

| Component | State it keeps | Operations | What makes it correct |
|---|---|---|---|
| Native flow control | credits in use per lane and in total, limits, a queue per lane, rotation of lanes | tryAcquire, wait (with a timer), release, applyWindowUpdate, pump, close | credits are conserved; nobody waits for a free credit; nobody starves |
| Native write queue | frames waiting for "drain", with tombstones, head index, byte count, index by request | write, cancel, flush, clear | frames leave in order; the four records agree |
| Native connection | pending requests, who has been told of a timeout, chunks, draining/closed, retire(), heartbeat | request, response and event frames, timeouts, GOAWAY, retire, fail, heartbeat | an "unsent" request was not sent; every request settles; nothing leaks; retire() returns |
| Native negotiation | the socket that is dialled, its timer and listeners, the limits that hold before the server has answered | fromUrl, STARTUP, AUTH, first heartbeat | a bootstrap that fails leaves nothing behind; one that succeeds has what it requires |
| Native receiver | chunks of bytes, frames decoded and not yet handed over, the assembler of chunked responses | data, decode, deliver, pause, drain | frames whole and in order, however bytes are cut; limits kept; nothing stuck |
| Native codec | none | plan, encode and decode of values, compact responses | a value is read as it was written, or refused; no length from the server is trusted |
| Native pipelines | chunks of a pipeline, results | one frame, several frames, or single requests | the results are those of the commands, in order; nothing twice |
| Reconnecting executor | promise of the current executor, promise of the reconnect in progress, closed | each command, reconnect, close | no command is replayed that may have had an effect; no connection leaks; only dead connections are replaced |
| Topology executor | topology, route table, adapters by endpoint (some being made, some retiring), refreshes | commands with at most one safe reroute, pipelines split by route, scattered commands, refresh, close | the right owner; at most one execution; adapters kept, retired and closed |
| HTTP transport | sessions, slots of an HTTP/2 session, waiters | request, acquire/release, retire, drain, close | slots conserved; a request is repeated only if its stream was refused |
| Auto-batching | pending calls, batches in flight with the keys they touch, ordering barrier | commands, fences, blocking commands, flush, close | same-key order; fences order everything; close() waits for what it accepted |
| Queue worker, continuous or in waves | jobs claimed, running and waiting, completions collected and in flight, a renewal guard per job | claim, handle, complete with refill, renew, flush, stop | concurrency limit; leases renewed exactly while needed; nothing lost at shutdown |
| Workflow worker | the state that is asked next, the pool or the wave | claim, handle, idle, stop | as above; every state is asked again |
| Durable steps | the lease a context holds, phase of its mutation, guard paused or not | step, advance, end of the handler | a step has one result; no write with a lease the worker itself has replaced |
| Flow commands | none | arguments, payload, routing key and ordering of each command | what was asked for is sent, to the right shard, in order |
| Divided calls | the next group, results by item, a failure | chunks, buckets, scattered reads, hydration, back-off of a producer | every result is that of its item; a failure names what is known to be done |
| Agent persistence | ordered locks with a heartbeat, a snapshot, receipts | mutate under locks, publish in indexes, commit by compare-and-set | every call has its effect at one moment, once |
| Stores, queries, responses, policies | none | one command or one validator per method | round trips, limits, validation |

**Interactions.**  A connection asks the flow control for a credit before it registers a
request and gives it back when the response (not the timeout) arrives; its frame goes to
the socket or the write queue, and whether the write queue still has it decides what the
caller is told when the connection fails.  The reconnecting executor and the topology
learn from those errors whether they may repeat the call.  Auto-batching plans pipelines which the topology
executor splits by route under the same plan.  A worker's pool gives jobs to handlers;
handlers hand their completion to a batcher, whose requests also claim the next jobs for
the pool; a guard renews each lease and must be stopped, or paused, before the request
that ends or replaces it.  A Flow call becomes a list of arguments, and the native
protocol, the routing and the automatic batch each read the call from that list again.

**Hard behaviours.**  The server may move the window below the credits in use; a timeout
races the response it waits for, and the server goes on working for a caller who has
left; GOAWAY arrives with requests in flight, queued and waiting, and with another frame
in the same read; a reconnect races other reconnects and close(); the topology changes
while an adapter is awaited; a slot is granted to a request that is aborted; a barrier is
released in one microtask and noticed in another; units of a split pipeline wait for each
other; a completion brings a new job while the pool sleeps; a commit is carried out
although its answer was lost; a lock expires under its owner; a worker is presumed dead
and goes on; an option has a value that is a word of the grammar.  `PROJECT.json` lists
each of these at its line under `hazards`, with the properties that cover it.

Two hazards are left out there because nothing in the repository says what should happen.
The heartbeat shares the limit on control requests (`native-adapter.ts:283`): while they
fill it, its PING is rejected and fails a healthy connection.  And when a GOAWAY or a bad
frame behind the answer to AUTH closes the adapter before the bootstrap goes on, the
heartbeat is started on a closed adapter (`native-adapter-bootstrap.ts:80`), and its
(unreferenced) interval goes on ticking.  NativeConnection and NativeBootstrap contain
both behaviours; no property speaks of them.

## 2. Modules and their correspondence to the code

The code between two awaits runs without interruption, so it is one action; an await, a
timer and an event from the socket are where another action may come in between.
Constructions that only delay a continuation are left out when nothing can happen in
the delay.  Values of requests are abstracted to what their handling depends on.
`PROJECT.json`, `map`, names the lines of every definition.  A definition whose comment
begins with "Slip" is not part of a specification: it is a plausible mistake, kept to
show that a property would notice it.

### The native connection

**NativeFlowControl, CreditWindow.**  `NativeFlowControl` has the fields of the class
under their own names (`activeTotal`, `activeByLane`, `queues`, `readyLanes`,
`queuedTotal`, the four limits, `closed`).  `phase` and `laneOf` are the callers: who waits
and who holds a credit.  Each method is an action; `pump()` loops, so it is taken one
iteration per step while `pumping` keeps all else from moving.  `CreditWindow` is what the
class promises: the oldest waiter of a lane gets the credit if lane and window have room,
and a newcomer gets one only if nobody who waits could use it.  It has no counters, queues
of lanes or rotation.

**NativeWriteQueue, FifoQueue.**  The array of slots with its tombstones,
`queuedWriteHead`, the index and the byte count.  `Flush(h, blocked)` consumes the slots up
to `h`; the socket chooses `h`.  `CompactTombstones` and the end of `Flush` shorten the
array as the code does, with the threshold as a constant.  `LiveFrames` is what the loop of
the compaction leaves: the frames of the slots that still have one, in their order.
`FifoQueue` is the queue of live frames.

**NativeConnection.**  `request()` to settlement: `st` says where a request is, `outcome`
what its promise was settled with, `server` what the server has of it.  The last is the
history variable that makes "unsent" checkable.  Credits are one window (the class
implements one, see above), the write queue its live frames.  `Deliver...` actions are the
frames the server sends, `Resume` the continuation of a granted waiter, `Timeout`,
`CreditTimeout` and `GraceExpires` the timers.  The heartbeat is a request of its own kind.
A continuation is due before any timer or further socket event, except for frames decoded
by the same handler; this is what the guards of the timers say.

**NativeBootstrap.**  `fromUrl` from the first dial to the first heartbeat.  `phase` is
the await it stands at, `socket`, `dialTimer`, `dialListener`, `onAbort` what would be left
behind, `answer` what one chunk of data brought: an answer, perhaps with a GOAWAY or a bad
frame behind it.  `hello` is what the server offers; `requestFrameBytes` and
`negotiatedFrameBytes` are the limits before and after it.

**NativeReceiver.**  From the bytes of the socket to the answers of requests.  A byte is
the number of its frame and its place in it, so that a header can be cut anywhere and read
wrongly if the buffer is mistaken.  `buffer` has the chunks, the index of the first live
one and the bytes consumed of it; `turn` what is left of the decode loop; `assembler` the
chunked responses with the bytes and frames they hold.

**ProtocolCodec.**  `Plan` (whether a value may be sent, and its length), `Write`, `Read`
and the readers of compact responses, byte by byte, on scaled-down widths: a byte holds any
length or count, `MaxSafe` is 3 and `MaxI64` is 5, so that every boundary is near.  Depth
and items have limits of 2 and 7; seven items in one container are what the compact claims
need that carry state or attributes.

**NativePipeline.**  A pipeline becomes one frame, several, or a request per command;
`chunks`, `stage`, `state`, `slots` and `results` are those of
`native-pipeline-execution.ts` and of the fallback in `pipeline-execution.ts`.  `sends` is
the history of what was written.

### The executors

**ReconnectingExecutor.**  A call's `pc` names the await it stands at; its `locals` are
the executor and the promise it captured before the await, which is what makes stale
captures visible.  Connections are abstracted from NativeConnection: they are being made,
open, draining, failed or closed, and a call on one is queued or sent.  `sent` counts how
often a frame of a call entered a socket.

**TopologyExecutor.**  One slot whose owner moves along `Views`.  A call plans in the
topology of the moment, awaits the adapter of the owner, tests whether the route is
current, and sends; a refused or moved request may be planned once more.  Beside the calls
run loads of the topology (for events, for reroutes, coalesced), and the registry that
makes, shares, retires and closes adapters.  A step is what happens between two awaits, or
the handling of one frame.  Continuations that are due run, in any order, before the next
event of a socket.  The frames of one chunk are the exception: the client handles them in one
loop (`native-response-handler.ts:72`), so that a frame of the connection `turn.of` may be
handled before the continuations that the frames before it made due (`Frame`).  The answer
to SHARDS therefore arrives in a step of its own (`ShardsArrive`) and the load goes on in
another (`Install`), after or before the continuations of the calls; and a call may begin at
any time, as the callback of an event can start one.  `turn.view` is history: the topology
in use when an event was handled last.

**HttpTransport.**  Batches of http-adapter.ts, the sessions of the transport and the
slots of a session, as one record `World` on which each step is a composition of functions
(`Acquire`, `Drain`, `Release`, `RetireSession`), as in the code.  Refused streams, GOAWAY,
SETTINGS, redirects, 401 and aborts may meet.

**OrderingPlan, AutoBatch, TopologyPipeline.**  `OrderingPlan` holds the plan of
`auto-batch-ordering.ts`: which commands of a sequence a command must follow.  `AutoBatch`
carries it out for calls: `pending`, the batches in flight, `batchKeyStates`,
`orderingBarrier`, and the microtask queue, because the order in which barriers are
released and noticed is what its ordering rests on.  `TopologyPipeline` carries it out for
a pipeline split into units by route, with the task of each unit and the limiter.

### The workers

**ContinuousWorker.**  `run()` with the continuous strategy: `pc` is the await of the
pool's loop, `task` the progress of each job through queue, handler and completion, `guard`
its renewal, `entries` and `inFlight` the completion batcher.  Completions may bring
replacement jobs, claims may return more than they asked for, and everything may fail.

**WaveWorker.**  `runOnce`, `runBatchOnce`, `run()` in waves and `flush()`.  `job` is the
progress of each job, `waveGuard` its renewal, `completions` and `inPipeline` the pending
completions, which outlive their wave and are collected by later waves and by `flush()`,
whichever comes first; `step` and `flusher` are the awaits of the two.

**WorkflowWorker.**  The two loops of `workflow.ts`.  `cursor` is the state that is asked,
`asks` the claims left of it in this round; in waves a round ends with a sleep if no state
had jobs.  The pool of the continuous strategy is that of ContinuousWorker with handlers
that bring no replacement, so what is left of it here is which state a claim asks, and
that jobs beyond the free slots are queued and renewed.

**DurableSteps, StepJournal.**  One flow and the workers that claim it.  `flow`, `journal`
and `late` are the server: a lease is its fencing token, a write is accepted if its token
is the current one, and a commit changes state, result and lease at once.  `late` holds
requests whose sender has given up or crashed, which the server may still carry out.  A
lease may be taken for expired at any moment, so `Claim` asks only that the flow has not
ended.  `ctx`, `guard` and `call` are the context, its renewal guard and the durable calls
of the handler, each call at the await its `pc` names, with the lease it captured.  A
handler may make its calls together, go on after a failed one, or return while one is under
way; `disciplined` says that it does none of these.  `StepJournal` is the promise: the
result of a step is recorded once, and nobody is ever given another.

### Flow calls

One call goes through these modules as it goes through the code.

**FlowCalls** says what a call and a token are.  A call is a command, its options and its
items, an option being what it is called on the wire with its entries; a token is a string,
bytes, a number or an object with its text.

**FlowCommands, FlowAdministration** build the arguments, for 60 commands.  `Options`
gives for each command, in the order of the code, the word and the option it stands for,
and how it is appended; the commands with items have operators of their own
(`CreateMany`, `MutateMany`, `SpawnChildren`), and so have claims.  `refused` says that the
client throws: items of another partition than the call's, a schedule that says two things.

**FlowProtocol, FlowPayloads** read the arguments again, as `buildProtocolCommand` does:
a grammar per command (`Grammar`, `ParseFlowOptions`, `FindItemToken`, `ParseItemsExt`),
which gives a typed payload, a compact one where there is `Room` for everything, or the
arguments as they are when the grammar does not know them.

**FlowRouting** reads them twice more: `FlowRoutingData` finds the key that decides the
shard, `FlowOrderingAccesses` the flows and values that decide the order in a batch.

**FlowRequests** is a caller who makes up a call, an option or a part of an item at a
time, with values that may be words of the grammar (`Words`), and states what has to be
found in the arguments again.

**DividedCalls.**  Calls that are sent as several requests.  A `kind` says what is done
with groups: `chunks` (executeIndependentManyChunks) takes one group batch by batch,
`buckets` (enqueueMany) several at a time, `scatter` (scatterArray) goes on after a
failure, `hydrate` (hydrateClaimedRecords) has a group per record.  `effects` is the
history of what the server carried out.

### AgentPersistence, AgentMemory

Mutations under locks: `lock` on the server with an owner each (who may have lost it),
`cell` the keys a compare-and-set is about, `index` the discovery entries a call publishes
before it commits.  Calls are those of an OpenAI Agents session (history with receipts of
the calls it contains), of a LangGraph saver (a thread of epochs, checkpoints and pending
writes) and of a LangGraph store (items).  The records of an older format show through
until they are replaced (`legacy`).  `late` holds compare-and-sets whose sender has given
up.  `AgentMemory` is the promise: each call changes the memory at one moment, and once.

Abstractions: a receipt is the call it is about, without its digest versions; only
compare-and-sets can be late, not the LOCK or ZADD of a sender who has left; a read of a
tuple in several commands is one step.

### MC modules

`MCExecutors`, `MCSmallParts`, `MCWorkers` and `MCClient` each run several components that
share nothing: a behaviour picks one at the start and the others rest, so that the states
add up instead of multiplying.  Fairness is stated of the one that was picked, as in the
`FairSpec` of its module.  `MCAutoBatch` gives constants their values for the counterexample
of AutoBatch.

## 3. Runs

| Run | Module | States | What it shows |
|---|---|---|---|
| `flow_control` | NativeFlowControl | 44,288 | credits are conserved, no waiter is lost or forgotten, the rotation implements CreditWindow and starves nobody |
| `connection` | NativeConnection | 482,538 | "unsent" is true, the server's credits are kept, nothing leaks and nobody is left behind, only pings are sent after GOAWAY, every request settles and retire() returns |
| `executors` | MCExecutors | 759,053 | over topology, reconnect and HTTP: nothing is executed twice or otherwise than reported, connections, adapters and slots are kept and given back, everything settles |
| `small_parts` | MCSmallParts | 902,786 | write queue, split pipeline, auto-batching, native pipeline, bootstrap, receiver: order, outcomes, limits, and that everything ends |
| `workers` | MCWorkers | 558,092 | concurrency limit, renewal exactly while needed, completions accounted, no claim after a stop, nothing stalls, for the three workers |
| `client` | MCClient | 1,739,159 | durable steps, agent adapters, divided calls and Flow calls, and the codec: one result per step, one effect per call, true answers, and calls that arrive whole, in order and at home |
| `reconnect_drain`, `auto_batch_order`, `topology_cycle`, `unsent_pipeline`, `worker_claims`, `steps_at_once` | | | counterexamples, see section 5 |

**What the properties say**, where the name does not.

- `executors`: `ExecutedOnce` (a call over the topology is carried out once at the most,
  one with a compare-and-set is sent once at the most), `AdaptersAreKept` (one live adapter for each
  endpoint in use, the others retired or closed), `SentToOwner` (a request goes to the owner
  in the topology in use, or in the one that a load of the same turn has just replaced),
  `OneLiveConnection`, `NeverReplayed`, `SlotsConserved`, `ExecutedAsReported` (HTTP),
  `ExecutorsSettle`.  `SentToOwner` says no more because the code ensures no more: when the
  answer to SHARDS and an event come in one chunk and a callback of the event starts a call,
  the call looks at its route (`topology.ts:431`), the load installs the new topology
  (`:214`), and the request goes to the old owner (`:268`).  The server then refuses it,
  which is what the reroute is for.  No install of an earlier turn is missed.
- `small_parts`: `KeysKeepOrder` joins the order of AutoBatch and of TopologyPipeline,
  `PartsSettle` the liveness of five components; the others are of one component each, which
  their comment in MCSmallParts names.
- `workers`: `EveryLeaseHandedOver` joins three statements of one kind: a lease is renewed
  as long as, and no longer than, its job is under way, and a worker that has returned has
  nothing under way.  `CompletionsAccounted` (waves): depth kept, every completion counted to
  one caller, every failure reported.  `WorkersSettle`: jobs are claimed, handled and
  completed, workers that are stopped return, every state is asked again.
- `client`: `RenewsCurrentLease`, `NoStaleOutcome` and `ImplementsStepJournal` are of durable
  steps, `ImplementsAgentMemory` of the adapters; `AnswersAreTrue` joins what an adapter's call
  and a divided call report.  `DeliveredWhole`, `OrderedByWhatItTouches` and `RoutedHome` are
  of Flow calls: every option and item is in the request, in either form, and nothing else;
  the call is ordered by what it is about; it is routed by its partition, or else its flow, and
  never by a guess.  (A call without a partition that has PARTITION among its values may go to
  the control path, which is slower and right.)

**Bounds.**  They are chosen so that the cases that matter meet each other.

- `flow_control`: four requests on two lanes, two queue places, a connection limit of two,
  a lane limit of one, and updates to zero or one.  Two lanes are the least with a rotation,
  and four requests fill window and queue and leave one to be refused.
- `connection`: two data requests (one without response timeout), one control request and
  the heartbeat, with room for one of everything: a waiter, a control request, a queued
  frame, a buffered chunk.  Every limit is reached and exceeded.
- `executors`, reconnect: three calls, one of each kind with its own rule, three
  connections and two retries; the third connection shows a reconnect after a reconnect.
  Topology: one or two calls, one move of the slot, one event, two plans of a call, and one
  endpoint that is not trusted.
  Five choices (`MCModes`).  Warm connections: a command beside a compare-and-set without a
  fault, a command alone with two faults, a compare-and-set alone and two control commands,
  each with one fault.  Cold: a pipeline beside a control command, with one fault.  A fault
  beside two commands with a route would be the largest of all; what holds of them for any
  number of faults is proved (section 4).  HTTP: three batches, posted in one order since
  they differ only by their number, limits of one and of three streams, one redirect, one
  detour (a 401, a redirect or a refused stream) and one session that goes away.
- `small_parts`, write queue: five frames, one of double length, a budget of five and a
  threshold of two, so that compaction, a head past the threshold and a full budget all
  occur.  Split pipeline: up to four commands of five sorts, two units at a time.
  Auto-batching: four calls in a buffer of two, on one key, of every kind; three calls are
  what the interplay of a barrier and two followers needs.  Pipelines: up to four commands of six
  kinds, three ways to be ordered, servers with and without pipelines.  Bootstrap: every
  combination of password, limits, offers and events.  Receiver: four interleavings of up to
  four frames with bodies of nothing to more than is allowed, cut anywhere.
- `workers`: three jobs, two slots, batches of two, one completion in flight, claims that
  return one job too many; five configurations of the wave worker; two states, two drain
  batches.
- `client`, durable steps: two workers, at most two durable calls of a handler of the first
  and one of the second, one step name, two results, two states, three leases.  With three
  leases a commit, a takeover and a second commit (of the same step) are possible.
  Adapters: seventeen pairs of calls that meet on one memory, two attempts, two runs of a
  transaction, one lock that expires and one fault.  Flow calls: two options or parts
  beside the required ones, three for schedules and claims, one with three items; one more
  option would say a word of the grammar between two others, which three do.  Numbers
  are 0 to 99, 99 standing for the greatest safe integer.  Two keys share a slot
  (`Colliding`).  Divided calls: four items in two homes, requests of one or two items, two
  runners, one repetition.  Codec: values two levels deep and one too deep, with every kind of
  leaf; every string of up to four to eight of the bytes that matter as the body of each kind of
  response.

`MaxFence`, `MaxCalls`, `MaxLength`, `MaxMade`, `MaxMoves`, `MaxEvents`, `MaxFaults`,
`MaxDetours`, `MaxSessionFaults`, `MaxExpiries`, `MaxRuns`, `MaxItems` and `MaxGiven` bound
the models, not the code.  Values that a caller cannot mean are left out of the inputs: a
partition that is called "AUTO", "MIXED" or "NONE", and a lease token "-", are the markers
of the grammar themselves.

**Deadlock** is checked for the flow control.  Elsewhere the system may really stop (all
calls have settled, the connection is closed, the flow has ended), so it is off; the
liveness properties say what must happen before that.

**Fairness.**  Continuations run and timers fire, because Node.js runs them.  Of other
parties the least is assumed that the property needs.  Where one action of a component
always stays enabled until it is taken, one weak fairness of all its progress is enough, and
the `Continue` of a module names it.

- `flow_control`: a credit that is held comes back (strong fairness, since other calls'
  pumps come between): the connection releases it with the response, or retires at the
  end of the grace period.  The waiters' own timers are not assumed to fire.
- `connection`: nothing is assumed of server, socket or caller; requests settle by their
  timers alone.
- `executors`: connecting ends, well or badly, and a connection settles every call, which
  is `EverythingSettles` of NativeConnection.  Loads of the topology end.  Streams are answered or
  fail (their timeout sees to it).
- `small_parts`: the executor answers all commands but those that block in the server; routes
  answer or fail; the timers of a bootstrap fire; bytes arrive, or the connection ends.
- `workers`: requests are answered or fail, and handlers end.  Jobs need not become due.
- `client` has no liveness property: its questions are what is written, not when.

Each property is accompanied by a mutant in `PROJECT.json`, an alternative body for one
mapped definition with which the run reports the property violated.

## 4. Proofs

Eight modules hold proofs, each beside the module it is about.  Their theorems hold for every
value of the constants that satisfies the named assumption; a run checks the same property on
a small instance.  Each module has the form: an inductive invariant `Inv` out of named
conjuncts, lemmas about the operators of the model, a lemma per action, and the theorems at
the end.

| Module | Theorem | Statement |
|---|---|---|
| NativeFlowControlProofs | `TypeCorrect` | no counter goes below zero |
| | `CreditsAreConserved` | `Spec => []CreditsConserved` |
| | `WaitersAreKept` | `Spec => []NoWaiterLost` |
| | `WakeupsAreKept` | `Spec => []NoLostWakeup` |
| | `Refinement` | `Spec => ImplementsCreditWindow` |
| SmallPartsProofs | `TypeCorrect` | `Spec => []Inv` of the write queue |
| | `AccountsAlwaysAgree` | `Spec => []AccountsAgree` |
| | `QueueIsFifo` | `Spec => ImplementsFifo` |
| | `KeysAreKeptInOrder` | `PartSpec => []KeysKeepOrder`, of split pipelines and automatic batches |
| | `ExecutorIsClosedLast` | `PartSpec => []ExecutorClosedLast` |
| | `BootstrapsAreClean` | `PartSpec => []CleanBootstrap` |
| | `PipelinesEndTruly` | `PartSpec => []PipelineOutcomes` |
| NativeConnectionProofs | `TypeCorrect` | `Spec => []TypeOK` |
| | `UnsentMeansUnsent` | `Spec => []UnsentIsUnsent` |
| | `TheServerWindowIsKept` | `Spec => []ServerCreditsKept` |
| | `NothingIsLeftBehind` | `Spec => []NothingLeaks` |
| | `OnlyPingsAreSentWhileDraining` | `Spec => OnlyPingsAfterGoAway` |
| ReconnectingExecutorProofs | `TypeCorrect`, `NothingIsReplayed`, `ConnectionsAreKept` | `TypeOK`, `NeverReplayed`, `OneLiveConnection` of one executor |
| | `JoinersAreReleased` | nobody waits for a reconnect that is over |
| HttpTransportProofs | `TypeCorrect`, `EverySlotIsHeldByOne`, `ResultsAreTrue` | `TypeOK`, `SlotsConserved`, `ExecutedAsReported` of one transport |
| ExecutorsProofs | `TypeCorrect` | types of the topology executor |
| | `NothingExecutesTwice` | `Spec => []ExecutedOnce` |
| | `NoAdapterIsForgotten` | `Spec => []AdaptersAreKept` |
| | `RequestsFollowTheTopology` | `Spec => SentToOwner` |
| | `NothingIsReplayed`, `ConnectionsAreKept` | `PartSpec => []NeverReplayed`, `[]OneLiveConnection` |
| | `EverySlotIsHeldByOne`, `ResultsAreTrue` | `PartSpec => []SlotsConserved`, `[]ExecutedAsReported` |
| WorkersProofs | `TypeCorrect` | types of the continuous worker |
| | `ConcurrencyIsLimited` | `Spec => []WithinConcurrency` |
| | `EveryLeaseIsHandedOver` | `Spec => []LeasesHandedOver` of the continuous worker |
| | `StoppedWorkersClaimNothing` | `Spec => NoClaimAfterStop` |
| | `LeasesAreHandedOver` | `PartSpec => []EveryLeaseHandedOver`, for the three workers |
| | `CompletionsAreAccounted` | `PartSpec => []CompletionsAccounted` |
| DurableStepsProofs | `TypeCorrect` | `Spec => []TypeOK` |
| | `OnlyTheCurrentLeaseIsRenewed` | `Spec => []RenewsCurrentLease` |
| | `OutcomesAreCurrent` | `Spec => NoStaleOutcome` |
| | `StepsImplementTheJournal` | `Spec => ImplementsStepJournal` |

The run `executors` checks what MCExecutors says of three executors of which one runs; its
specification instances the reconnecting executor and the transport.  ExecutorsProofs extends
MCExecutors and lifts the theorems of the two modules to it (`PartSpec`).  WorkersProofs
and SmallPartsProofs do the same for MCWorkers and MCSmallParts.

**Assumptions.**  They are what the constructors of the code and the meaning of the constants
give, and nothing about sizes:

- `FlowControlAssumption`: limits are natural numbers, requests finitely many, and the
  initial limit of a lane is not above `Unlimited`.
- `WriteQueueAssumption`: a frame has a positive length (the code encodes a header), the
  tombstone is no frame, the threshold is positive.
- `PartsAssumption`: bounds and limits are natural numbers, and commands, options and answers
  are the records they are said to be; a pipeline has a command (the code returns at once
  otherwise, `native-pipeline-execution.ts:39` and `:69`) and a positive concurrency
  (`pipeline-execution.ts:292`).
- `ConnectionAssumption`: the sets of requests are disjoint, limits are natural numbers.
- `AtLeastOne`, and for the composed run `MadeOK`: there is a first connection, the one the
  constructor of the reconnecting executor is given.
- `TopologyAssumption`: the seed is trusted, and views name trusted endpoints, as the policy
  that admits a topology sees to.
- `Sensible` (`Http!Sensible` in the composed run): finitely many batches; limits are
  natural numbers.
- `WorkerAssumption`: finitely many jobs; sizes are positive (`worker-internal.ts:140`).
- `WorkersAssumption`: sizes of the wave worker and the workflow worker are positive, and a
  configuration is a kind, a positive concurrency, a depth and a flag.
- `StepsAssumption`: every step has a target state, and "nobody" is no worker, name or value.

**NativeFlowControl.**
`Inv == TypeOK /\ CreditsConserved /\ QueuesMatchWaiters /\ NoLostWakeup /\ ClosedIsEmpty`.
None of its parts is inductive alone.  That `activeTotal` stays a natural number when
`Release` subtracts one needs that it counts holders (`CreditsConserved`), of which the
releasing request is one; the same holds of `queuedTotal` and the waiters.  That nobody
waits for a free credit when the pump ends needs that every lane with waiters is in the
rotation (`WaitingLanesAreReady`), because the pump only looks there.  That the rotation
stays so when a waiter gives up or is granted needs that queues hold each waiter once
and lanes occur once (`QueuesHoldWaiters`, `ReadyLanesHaveWaiters`).  The refinement uses the
invariant twice: by `CreditsConserved` the counters agree with the cardinalities of the
abstract window (`RoomIsCredit`), and by `NoLostWakeup` nothing is grantable between
operations (`QuietBetweenOperations`), which is the abstract guard of a newcomer.

**NativeWriteQueue.**  `AccountsAgree` speaks of the live frames only; the invariant also
says that each occurs once in the array (or else cancelling one would take another with it
from the index) and that what is behind the head is erased (`Erased`: or else `cancel` could
find, and compaction revive, a frame that was written).  `InStep` states this of any array,
head, tombstone count and index, so that one lemma for each thing the code does to an array
(`AppendInStep`, `CancelInStep`, `CompactInStep`, `AfterInStep`, `DropInStep`, `EraseInStep`)
is used wherever it does it: `cancel` ends in one of three ways and `flush` in three others.
The live frames are the array at its live slots in their order; `SlotsListed` and `ListedOnce`
say that a finite set of numbers can be listed in order in one way only, so that it is enough
to give a list of the new slots: the old one with one slot left out, its tail, or its tail
moved down.  `BytesAdd` is the sum of the lengths of two sets of frames that are apart.

**OrderingPlan.**  A plan names for each command only the last writer of each of its keys and
the readers since (`FallbackDependencies`).  That every pair in conflict is ordered by a chain
of such dependencies is proved by taking the last writer between the two (`PlanChains`, by the well-foundedness of
`<`), for any sequence of commands.

**TopologyPipeline.**  `UnitsOK` says that a unit runs when those it depends on have settled,
`DependenciesOK` that a command which has begun comes after all it depends on.  The step
between them is `UnitsCover`: a dependency is in the same unit, where the plan orders it, or in a
unit that this one waits for.  With the chains of the plan the order of keys follows.

**AutoBatch.**  The order in which calls are pushed is the thread: `QueueOK` says that what is
pending was pushed after everything batched, `BatchesOK` that batches do not mix and wait for
earlier ones only.  `Bound` says of two lists of calls that they must not be swapped, and `ChainOK`
that a batch waits for a bound one before it or for a bound one between them; this is what
makes it enough to remember, for each key, its last writer and its readers since (`KeysOK`), and
the last batch without a plan (`TailOK`).  `RunsOK` gives the same within a batch.  A fence is
`Raised` from its call to its release: everything called behind one is held up (`AwaitOK`), by
the last one before it, because resuming from the microtask queue keeps the order of the
calls (`MicroOK`) and one fence's flush comes after all that the calls before it
have pushed (`FlushedOK`).  `ClosedOK` then needs only that close() waits for
the last barrier, the batches and the helpers.

**NativeBootstrap.**  The bootstrap is at one await at a time.  `ListenersOK` says at which of them its timer and
listeners live, `AwaitsOK` what socket and request may be there, `ServerOK` what the answers
so far have told; each failure is a step from such a place to "rejected".

**NativePipeline.**  Results are positions, and chunks lists of positions.  `Tiled` ties them: the chunks that
are left are consecutive runs from behind the results to the end, so that a result taken from
the first chunk lands at its own command; halving keeps this (`HalvesTile`), and so does taking
a chunk away (`TailTiled`); that the first cut has it is arithmetic about rounding up
(`ChunkCount`).  `CollectsOK` says that only a call's one chunk throws by itself, from which it
follows that an error found in it is the first of the whole pipeline.  `PlacesOK` says that behind the first chunk nothing
has begun and nothing unsent was written, `WaitersOK` that the queue for slots holds exactly those that wait, each once (so the
slot a settled command gives away goes to a command of the same chunk), and `OrderOK` that a
command which has started comes after all it depends on.  `EndedOK` is what is left of these at the end.

**NativeConnection.**  `Stage` says what is known of a request by where it stands: what the
caller was told, whether the server may have it, whether chunks are kept.  `UnsentIsUnsent`
follows from it because only an unwritten frame is in `writes` (`WritesOK`).  `WindowOK` ties
credits and control slots to the requests that hold them, and says that somebody waits only
if the window is full, from which it follows that the loop which resumes waiters never
leaves one behind.  `FramesOK` ties the frame budget to the chunks that are kept.  All ways a
request leaves (response, error, timeout, failure, drain) pass through `TakePending`, of
which one lemma (`TakeInv`) says what it needs and keeps.  What the recursive function that
filters the write queue computes is proved by induction over the natural numbers, see below.

**ReconnectingExecutor.**  That a repeated call was never sent (`ToldTruly`) is inductive with
what the error of a call says.  `OneLiveConnection` needs much more: which connection is the
current one while a reconnect is under way (`Current`), that a call which failed holds a
connection that will not work again (`HoldsWell`), so that a late failure cannot make
`reconnect` close a working one, that close() closes the current one (`ClosesCurrent`), and that nothing else
has happened as long as the constructor's connection is not there (`FirstAlone`), without which the other conjuncts are not
inductive.

**TopologyExecutor.**  `Sound` speaks of the registry: a connection that is being made is in
`creations` under its own endpoint, one that is made in `adapters` or `retiring`, and after
close() all that live are among those it waits for.  `ExecutesOnce` says where a call stands
that may still be sent, and that the error it goes on with is a true one; `RouteIsCurrent`,
that no event is handled between the second look at the route and the request, so that the
topology of that look is still in use or was replaced in this turn; `OneInstallATurn`, that
as long as a chunk is being handled, or an answer to SHARDS is there and not yet used, the
topology is the one of the last event handled.  Without the second, a turn might replace the
topology twice.  Each
operation of the registry is a function from registries to registries, with a lemma that it
keeps them sound, which the actions cite.

**HttpTransport.**  A step is a composition of functions on `World`, between which the batch
in hand is in no consistent place.  `SoundBut(w, b)` is the invariant without batch `b`; every
function takes a world that is sound but for the batch to another one, and the last puts the
batch back.  That nobody waits for a free slot (`Served`) is restored by the drain of the waiters, which
ends each step that frees one.  `Opened` bounds the sessions by the faults, without which
a batch might find none to go to; `AllAborted` says that close() has reached everybody.

**ContinuousWorker.**  Each job is in exactly one place, which is the invariant: in the queue of
the pool (`QueueOK`), among the replacements one handler has brought (`BroughtOK`), in a slot
(`SlotsOK`), waiting for a batch or in one batch (`BatchedOK`).  Without the disjointness of
these a job might be started twice and the cardinality of `active` say nothing.  `GuardsOK`
gives for each place what the renewal guard may do; `LeasesHandedOver` follows from it.
`NoClaimAfterStop` needs `LoopOK`: after a failure no batch may refill.  The pump of the
batcher cuts its queue into batches at multiples of `BatchSize`; that the cuts are disjoint
and leave nothing but an incomplete last batch is arithmetic (`CutParts`).

**WaveWorker.**  `WaveInv` says where each job is: claimed and behind the cursor (`CursorOK`),
waiting for its completion (`CompletionsOK`), in exactly one completion under way or awaited
(`PipelineOK`), and at which steps of the loop it may be there (`StepsOK`).  Completions
outlive their wave, so `PipelineOK` is stated without reference to the step, and an entry
agrees with the progress of its jobs: a completion collected twice, by a later wave and by
`flush()`, would count jobs that are no longer in it.  `ToldOK` is what makes
`CompletionsAccounted` inductive: the jobs that were answered and are in no entry are exactly
those counted, and if one failed is in no entry, somebody was told or the loop is about to
throw.  That `flushQueueCompletions` cuts its list at multiples of the batch size into
disjoint batches, and leaves the rest in their order, is arithmetic about `Batch` and `Rest`.
`WaveGuardsOK` gives the state of the guard for each place of its job.

**WorkflowWorker.**  `FlowInv` is `HeldOK` (jobs queued and handled are different and guarded,
and nothing else is) and `FlowStepsOK` (in waves nobody is guarded between two rounds; a
worker that has ended holds nothing).

**DurableSteps.**  The invariant follows a lease through four places that may disagree: the
flow at the server, the context, the guard and a request still on its way.  `Knows` says that
as long as the lease of a call is the current one, its step is not recorded; `MayCome` that a
late commit with the current lease comes from a worker that does not go on, and that its step
is not recorded either.  These two are what makes the refinement of the journal hold: a
commit the server accepts is of a step without result.  `RenewsCurrentLease` is of disciplined
handlers, who are between two calls (`Between`) or in one (`Single`); the phases of context and
guard are given for each.

**Induction.**  A theorem of the library that has a predicate as parameter cannot be used
with these provers.  Where a recursive function is defined on natural numbers
(`Drop`, which takes frames out of the connection's write queue), or the first of several
numbers is needed (the oldest frame that `flush` leaves), the proofs go by the
well-foundedness of `<` (`NatLessThanWellFounded`, `WFMin`), whose statement is about sets.  Induction over data, as the codec would need, is
out of reach.

`SelectSeq` and the folds are opaque to the provers.  `LiveFrames` of NativeWriteQueue and
`SendBatch` of ContinuousWorker therefore say by quantifiers and CHOOSE which sequence it is
that the loop of the code leaves, and a sum over frames is a cardinality (`BytesOf`).

**Only model-checked** are

- all liveness properties (`EveryWaiterServed`, `EverythingSettles`, `ExecutorsSettle`,
  `PartsSettle`, `WorkersSettle`), since fairness and ENABLED are outside what the proof
  system handles;
- `DecodesExactly` of the codec, whose operators are recursive;
- of `small_parts`, `ReceivesFaithfully`, whose bodies are joined and counted by recursion and folds of the library;
- of `client`, the agent adapters, the divided calls and the Flow calls.

## 5. Disagreements between code and documentation

Each has a run whose only property is the documented claim, and which finds it violated.

- `reconnect_drain`, `DrainIsGraceful`: after GOAWAY the server lets finite requests finish
  and `native-adapter.ts:397` says that they "retain graceful drain semantics", but the first
  call that is rejected makes the reconnecting executor close the draining connection
  (`reconnecting-executor.ts:213`) under the others.  The topology registry retires such a
  connection instead.
- `auto_batch_order`, `InvocationOrder`: `README.md:709` promises that same-key writes keep
  their invocation order.  A barrier is released in one microtask and the calls behind it
  continue in later ones; a call from a microtask in between finds no barrier and overtakes
  them (`auto-batch.ts:82`).  `KeyOrder`, which holds, states the order from the moment a
  command is queued.
- `topology_cycle`, `ItemsResolvedIndependently`: grouping commands by route can make units
  depend on each other although the commands do not; `topology-pipeline.ts:175` then
  recurses until the stack is exhausted, and the whole pipeline is rejected, also
  for commands that succeeded.  `README.md:709` says that promises are resolved
  independently.
- `unsent_pipeline`, `UnsentPipelineUnsent`: a pipeline that needs several frames is rejected
  with the error of the one that failed (`native-pipeline-execution.ts:128`).  If that frame
  was not written, the error says "unsent", which `README.md:231` lets a caller take as
  the decision about the pipeline, although earlier frames were carried out.
- `worker_claims`, `ClaimsAreCapped`: `README.md:437` says that claims are capped to the
  available concurrency.  A replacement job that arrives during the refill delay is not
  counted (`worker-internal.ts:212`, `219`): the pool then sends a blocking claim for all its slots with a
  leased job in its queue.  `WithinConcurrency`, which holds, says that
  handlers never exceed the limit.
- `steps_at_once`, `OneMutationAtATime`: `workflow-context.ts:295` tests the phase before an
  await and sets it after; two durable calls made together both commit, although
  the message of the test says that the second is refused.  `ImplementsStepJournal`, which
  holds for such handlers too, says that the server's fencing keeps the journal right; what
  suffers is the worker, whose renewal may be handed back the replaced lease.

Met while modelling, in the models as the code has them, and without a run of their own:

- `CHANGELOG.md:444` says that "oversized pipelines are split into ordered byte-fitting
  chunks".  That is so in compact form; a pipeline of other commands is measured later, by
  `native-command-preparation.ts:28`, whose error is not the one that
  `native-pipeline-execution.ts:127` answers by halving.  (`Encoding` and `Refuse` of
  NativePipeline.)
- A claim of a state that is called "states" is sent as a list of states.
- For FLOW.CREATE_MANY the marker "NONE" is a partition to `protocol-flow.ts:132` and none to
  `topology-routing.ts:122`.
- In FLOW.SPAWN_CHILDREN a first child whose id is "MIXED" is read as the marker.

## 6. Not modelled

`PROJECT.json`, `components`, lists every part with its files, status and reason.  In short:

- Key-value commands, policies, flow queries and the stores are one command per method with a
  decoder each, without state; the models take what they touch as attributes of a command.
  So are the responses of Flow commands, which validators check field by field, and the
  bridge between LangGraph and a Flow handler, which asks LangGraph what to do.
- Snapshots of arguments: copies against later changes by the caller, who in a model
  cannot make any.
- TLS, endpoint trust beyond its result, configuration, and HTTP envelopes: checked once, or
  per message, without state.
- FLOW.RUN_STEPS_MANY, whose items are one argument; the options a schedule passes through
  unchecked; completeJobsAndClaimJobs beyond what a worker sees of it; the sums of a scattered
  DEL or EXISTS.
- Commands that a server executes after the client has given up on them.  AutoBatch and
  TopologyPipeline take a batch or a unit that was rejected to have nothing still running
  (`auto-batch.ts:376` and `topology-pipeline.ts:109` do so too); after a timeout the server
  may still execute it, and `KeysKeepOrder` says nothing of its order with what follows.
- In the native connection: lane assignment, request id wraparound, and byte limits other
  than as numbers of frames.
- In the workers: partitions claimed separately, and the length of the idle back-off.
- In the durable steps: values read from a context and their cache, and mutations that
  accompany a commit.

## 7. Plan

Every component with state of its own has a module, and the native client, the executors
under the automatic batch, the three workers and the durable steps have their safety
properties proved.  Worth proving next, in this order:

1. `AnswersAreTrue` of DividedCalls: what a failure names as done is done.
2. `ImplementsAgentMemory`, whose abstract commit is the answer to a compare-and-set.

ProtocolCodec, whose operators are recursive, stays with the runs, and so do the pure
functions of the Flow calls, whose inputs the run enumerates.
