---------------------------- MODULE MCSmallParts ----------------------------
(***************************************************************************)
(* One run for components that share nothing: a behaviour picks one of     *)
(* them at the start, the others rest.                                     *)
(***************************************************************************)
EXTENDS NativeWriteQueue, TLC

CONSTANTS Chosen,       \* the components to pick from
          big,          \* one frame is twice as long as the others
          MaxLength, Concurrency, SplitCommands,            \* of a split pipeline
          MaxCalls, MaxCommands, BatchKeys, BatchCommands,       \* of automatic batches
          Pipelines,                                        \* of a native pipeline
          Unauthenticated, Required, BootOptions, Hellos,   \* of a bootstrap
          Requests, Streams, Header, MaxFramesPerDecode, CompactAt,
          maxFrameBytes, maxChunkBytes, maxChunkFrames, maxResponseBytes   \* of a receiver

ASSUME PartsAssumption ==
    /\ MaxLength \in Nat /\ MaxCalls \in Nat
    /\ BatchCommands \subseteq [kind : {"batch", "fence", "block", "helper"},
                                reads : SUBSET BatchKeys, writes : SUBSET BatchKeys]
    /\ Pipelines \subseteq [commands : Seq([kind : STRING, bytes : Nat]) \ {<<>>}, ordered : BOOLEAN,
                            dependencies : SUBSET (Nat \X Nat), concurrency : Nat \ {0},
                            throws : BOOLEAN, maxCommands : Nat, maxBytes : Nat, fused : BOOLEAN]
    /\ Unauthenticated \in Nat
    /\ BootOptions \subseteq [password : BOOLEAN, frameBytes : Nat]
    /\ \A h \in Hellos : h.limits \in Seq(Nat)

VARIABLES part,
          commands, planned, unitByCommand, dependencies, item, tasks, result,
          cmd, pc, barrier, microtasks, orderingBarrier, pending, scheduled, batches,
          inFlightBatches, globalBatchTail, batchKeyStates, closed, executorClosed, pushed,
          called, chunks, stage, state, slots, results, rejected, outcome, sends,
          option, socket, dialTimer, dialListener, onAbort, aborted, request, answer, adapterClosed,
          draining, heartbeat, requestFrameBytes, negotiatedFrameBytes, phase, hello, granted,
          stream, arrived, buffer, turn, drainScheduled, paused, stopped, goingAway, awaited,
          assembler, discarded, received, answers

split == <<commands, planned, unitByCommand, dependencies, item, tasks, result>>
batch == <<cmd, pc, barrier, microtasks, orderingBarrier, pending, scheduled, batches,
           inFlightBatches, globalBatchTail, batchKeyStates, closed, executorClosed, pushed>>
pipeline == <<called, chunks, stage, state, slots, results, rejected, outcome, sends>>
bootstrap == <<option, socket, dialTimer, dialListener, onAbort, aborted, request, answer,
               adapterClosed, draining, heartbeat, requestFrameBytes, negotiatedFrameBytes, phase,
               hello, granted>>
receiver == <<stream, arrived, buffer, turn, drainScheduled, paused, stopped, goingAway, awaited,
              assembler, discarded, received, answers>>

---------------------------------------------------------------------------
MCBytes == [f \in Frames |-> IF f = big THEN 2 ELSE 1]

\* Two keys on two routes, a command on both keys that can be decomposed, one that cannot.
On(reads, writes, route) == [reads |-> reads, writes |-> writes, route |-> route]

MCSplitCommands == {On({"x"}, {}, "route1"), On({}, {"x"}, "route1"), On({}, {"y"}, "route2"),
               On({"x", "y"}, {}, "standalone"), On({}, {"x", "y"}, "control")}

Split == INSTANCE TopologyPipeline WITH Commands <- SplitCommands

\* Calls on one key: a write, a read, a command of unknown keys, a fence, a blocking
\* command and a helper.
Command(kind, reads, writes) == [kind |-> kind, reads |-> reads, writes |-> writes]

MCBatchCommands == {Command("batch", {}, {"x"}), Command("batch", {"x"}, {})}
                \cup {Command(kind, {}, {}) : kind \in {"batch", "fence", "block", "helper"}}

Batch == INSTANCE AutoBatch WITH Keys <- BatchKeys, Commands <- BatchCommands

\* Pipelines of up to four commands: of one compact form, generic ones, an oversized one, a
\* control command, one that needs the session, one that cannot be encoded; and what the
\* server allows: no pipelines, two commands or more, three bytes.
Item(kind, bytes) == [kind |-> kind, bytes |-> bytes]

MCItems == {Item("compact", 1), Item("compact", 2), Item("typed", 2), Item("control", 1),
            Item("session", 1), Item("invalid", 1)}

MCItemLists == UNION {[1..n -> MCItems] : n \in 1..3}
                   \cup [1..4 -> {Item("compact", 1), Item("compact", 4)}]

\* In order, as workers take them, or after those they depend on.
Way(ordered, after, concurrency) ==
    [ordered |-> ordered, dependencies |-> after, concurrency |-> concurrency]

MCWays == {Way(TRUE, {}, 2), Way(FALSE, {}, 2), Way(FALSE, {<<1, 3>>}, 1)}

MCCalls ==
    {[commands |-> l, ordered |-> w.ordered, dependencies |-> w.dependencies,
      concurrency |-> w.concurrency, throws |-> t, maxCommands |-> m, maxBytes |-> 3, fused |-> f] :
        l \in MCItemLists, w \in MCWays, t \in BOOLEAN, m \in {0, 2, 4}, f \in BOOLEAN}

MCPipelines == {p \in MCCalls : p.fused => ~p.ordered /\ p.dependencies = {}}

Pipe == INSTANCE NativePipeline WITH call <- called

\* Servers that offer what is required, or less, or more, that ask for a password, or not, or
\* do not say, and that advertise limits at two levels of their answer.
MCHellos == [offers : {{"query"}, {"query", "explain"}, {"query", "explain", "more"}},
             authRequired : {"absent", "yes", "no"},
             limits : {<<>>, <<0, 3>>, <<1, 3>>}]

MCRequired == {"query", "explain"}
MCOptions == [password : BOOLEAN, frameBytes : {1, 4}]

Boot == INSTANCE NativeBootstrap WITH Options <- BootOptions, step <- phase

\* Responses of up to three frames that interleave, events, a GOAWAY, a frame that is not of
\* its request; bodies of nothing to more than is allowed.
Frame(id, op, more) == [id |-> id, op |-> op, more |-> more]
Reply(r, more) == Frame(r, "reply", more)

MCShapes == {<<Reply(1, TRUE), Reply(2, TRUE), Reply(1, FALSE), Reply(2, FALSE)>>,
             <<Reply(1, TRUE), Frame(0, "goaway", FALSE), Reply(1, FALSE), Reply(2, FALSE)>>,
             <<Frame(0, "event", TRUE), Reply(1, FALSE), Frame(0, "event", FALSE)>>,
             <<Reply(1, FALSE), Frame(1, "event", FALSE), Frame(2, "event", FALSE)>>}

MCBodies == {<<1, 0, 1, 1>>, <<2, 2, 0, 1>>, <<1, 2, 3, 0>>}

MCStreams == {[i \in DOMAIN shape |-> [id |-> shape[i].id, op |-> shape[i].op, more |-> shape[i].more,
                                       body |-> body[i]]] : shape \in MCShapes, body \in MCBodies}

Receiver == INSTANCE NativeReceiver WITH
                draining <- goingAway, pending <- awaited, answer <- answers

---------------------------------------------------------------------------
SplitRest ==
    /\ commands = 0 /\ planned = 0 /\ unitByCommand = 0 /\ dependencies = 0 /\ item = 0
    /\ tasks = 0 /\ result = 0

BatchRest ==
    /\ cmd = 0 /\ pc = 0 /\ barrier = 0 /\ microtasks = 0 /\ orderingBarrier = 0 /\ pending = 0
    /\ scheduled = 0 /\ batches = 0 /\ inFlightBatches = 0 /\ globalBatchTail = 0
    /\ batchKeyStates = 0 /\ closed = 0 /\ executorClosed = 0 /\ pushed = 0

PipelineRest ==
    /\ called = 0 /\ chunks = 0 /\ stage = 0 /\ state = 0 /\ slots = 0 /\ results = 0
    /\ rejected = 0 /\ outcome = 0 /\ sends = 0

BootstrapRest ==
    /\ option = 0 /\ socket = 0 /\ dialTimer = 0 /\ dialListener = 0 /\ onAbort = 0 /\ aborted = 0
    /\ request = 0 /\ answer = 0 /\ adapterClosed = 0 /\ draining = 0 /\ heartbeat = 0
    /\ requestFrameBytes = 0 /\ negotiatedFrameBytes = 0 /\ phase = 0 /\ hello = 0 /\ granted = 0

ReceiverRest ==
    /\ stream = 0 /\ arrived = 0 /\ buffer = 0 /\ turn = 0 /\ drainScheduled = 0 /\ paused = 0
    /\ stopped = 0 /\ goingAway = 0 /\ awaited = 0 /\ assembler = 0 /\ discarded = 0 /\ received = 0
    /\ answers = 0

PartInit == /\ part \in Chosen
            /\ Init
            /\ IF part = "split" THEN Split!Init ELSE SplitRest
            /\ IF part = "batch" THEN Batch!Init ELSE BatchRest
            /\ IF part = "pipeline" THEN Pipe!Init ELSE PipelineRest
            /\ IF part = "bootstrap" THEN Boot!Init ELSE BootstrapRest
            /\ IF part = "receiver" THEN Receiver!Init ELSE ReceiverRest

QueueNext == part = "queue" /\ Next /\ UNCHANGED <<part, split, batch, pipeline, bootstrap, receiver>>
SplitNext == part = "split" /\ Split!Next /\ UNCHANGED <<part, vars, batch, pipeline, bootstrap, receiver>>
BatchContinue == part = "batch" /\ Batch!Continue /\ UNCHANGED <<part, vars, split, pipeline, bootstrap, receiver>>
BatchNext == part = "batch" /\ Batch!Next /\ UNCHANGED <<part, vars, split, pipeline, bootstrap, receiver>>
PipelineNext == part = "pipeline" /\ Pipe!Next /\ UNCHANGED <<part, vars, split, batch, bootstrap, receiver>>
BootProgress == /\ part = "bootstrap" /\ (Boot!Bootstrap \/ Boot!Connection)
                /\ UNCHANGED <<part, vars, split, batch, pipeline, receiver>>
BootNext == part = "bootstrap" /\ Boot!Next /\ UNCHANGED <<part, vars, split, batch, pipeline, receiver>>
ReceiverProgress == part = "receiver" /\ Receiver!Progress /\ UNCHANGED <<part, vars, split, batch, pipeline, bootstrap>>
ReceiverNext == part = "receiver" /\ Receiver!Next /\ UNCHANGED <<part, vars, split, batch, pipeline, bootstrap>>

all == <<part, vars, split, batch, pipeline, bootstrap, receiver>>

\* Requests are answered or fail, handlers end, timers fire, and continuations run.
PartSpec == /\ PartInit
            /\ [][QueueNext \/ SplitNext \/ BatchNext \/ PipelineNext \/ BootNext \/ ReceiverNext]_all
            /\ WF_all(SplitNext \/ BatchContinue \/ PipelineNext \/ BootProgress \/ ReceiverProgress)

---------------------------------------------------------------------------
\* Commands on a common key keep their order.  TopologyPipeline: those of a planned pipeline
\* run one after the other, whatever units they fall into.  AutoBatch: whatever is batched with
\* what, a command runs after every command queued before it on a key that one of them writes;
\* a fence runs after everything called before it, and before everything called after it.
KeysKeepOrder == /\ part = "split" => Split!SplitKeepsKeyOrder
                 /\ part = "batch" => Batch!KeyOrder

\* AutoBatch: close() lets everything accepted finish first, and nothing comes to an
\* executor that is closed.
ExecutorClosedLast == part = "batch" => Batch!ExecutorClosedLast

\* NativePipeline: however a pipeline is cut and wherever it fails, no command is written
\* twice or before those it depends on, nothing is left under way, and the results are those
\* of the commands, in their order; an item's error is the first, and leaves nothing out.
PipelineOutcomes == part = "pipeline" => Pipe!PipelineOutcomes

\* NativePipeline, README.md:231: "ConnectionClosedError.requestDisposition exposes this
\* decision as "unsent" or "possibly_sent"".
UnsentPipelineUnsent == part = "pipeline" => Pipe!UnsentPipelineUnsent

\* NativeBootstrap: a bootstrap that rejects leaves nothing behind, one that resolves has a
\* server that offers what is required and accepted the credentials, and no request larger
\* than an unauthenticated connection may send is allowed before the server lifts the limit.
CleanBootstrap == part = "bootstrap" => Boot!CleanBootstrap

\* NativeReceiver: however the bytes are cut and the responses interleaved, frames are handed
\* over whole and in order, an answer is all of its response, the assembler's budget is what
\* it holds, and nothing that has arrived waits for more.
ReceivesFaithfully == part = "receiver" => Receiver!ReceivesFaithfully

\* TopologyPipeline: units whose dependencies form no cycle all get their turn, and the
\* pipeline returns an outcome for each command, whatever units fail.  AutoBatch: every call
\* settles, even behind a command that blocks for ever, and close() ends.  NativePipeline:
\* every pipeline ends.  NativeBootstrap: every bootstrap does.  NativeReceiver: all that is sent is
\* handed over, or the connection ends.
PartsSettle == <>[](CASE part = "split" -> Split!Settled
                      [] part = "batch" -> Batch!EveryCallSettled
                      [] part = "pipeline" -> outcome # Pipe!Pending
                      [] part = "bootstrap" -> phase \in Boot!Ended
                      [] part = "receiver" -> Receiver!Drained
                      [] OTHER -> TRUE)

\* TopologyPipeline, README.md:709, of automatic batches: "resolves each original promise
\* independently".  The pipeline as a whole is never rejected.
ItemsResolvedIndependently == part = "split" => Split!ItemsResolvedIndependently
=============================================================================
