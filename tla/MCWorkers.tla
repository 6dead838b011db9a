------------------------------ MODULE MCWorkers ------------------------------
(***************************************************************************)
(* The workers, in one run: the queue worker that refills its slots        *)
(* continuously, the one that claims in waves, and the loops of a workflow *)
(* worker.  A behaviour picks one of them at the start, the others rest.   *)
(***************************************************************************)
EXTENDS ContinuousWorker

CONSTANTS DrainBatches,
          WaveBatchSize, Configs,            \* of a wave worker
          StateNames, StateOf, ClaimLimit    \* of a workflow worker

ASSUME WorkersAssumption ==
    /\ {DrainBatches, WaveBatchSize, ClaimLimit} \subseteq Nat \ {0}
    /\ Configs \subseteq [kind : {"jobs", "batch"}, concurrency : Nat \ {0}, depth : Nat,
                         raise : BOOLEAN]

VARIABLES part,
          config, job, waveGuard, cursor, completions, inPipeline, step, batch, woken, threw,
          flusher, completed, rejected, stopSignal,
          strategy, due, asking, asks, gotSome, stage, queue, handling, guarded, failed, cancelled

workflow == <<strategy, due, asking, asks, gotSome, stage, queue, handling, guarded, failed, cancelled>>
wave == <<config, job, waveGuard, cursor, completions, inPipeline, step, batch, woken, threw,
          flusher, completed, rejected, stopSignal>>

---------------------------------------------------------------------------
\* Workers of jobs and of batches, with and without asynchronous completions.
Worker(kind, concurrency, depth, raise) ==
    [kind |-> kind, concurrency |-> concurrency, depth |-> depth, raise |-> raise]

MCConfigs == {Worker("jobs", 2, 1, TRUE), Worker("jobs", 1, 2, FALSE), Worker("jobs", 2, 0, FALSE),
              Worker("batch", 1, 1, TRUE), Worker("batch", 1, 0, FALSE)}

Waves == INSTANCE WaveWorker WITH
            BatchSize <- WaveBatchSize, guard <- waveGuard, pending <- inPipeline,
            pc <- step, aborted <- stopSignal

\* Two states; one of them has one job.
MCStates == <<"s1", "s2">>
MCStateOf == LET single == CHOOSE j \in Jobs : TRUE
             IN [j \in Jobs |-> IF j = single THEN "s2" ELSE "s1"]

Workflow == INSTANCE WorkflowWorker WITH
               cursor <- asking, aborted <- cancelled

PartInit == /\ part \in {"continuous", "waves", "workflow"} /\ Init /\ Waves!Init /\ Workflow!Init
            /\ part # "waves" => config = CHOOSE c \in Configs : TRUE
            /\ part # "workflow" => strategy = "waves"

ContinuousNext == part = "continuous" /\ Next /\ UNCHANGED <<part, wave, workflow>>
WavesNext == part = "waves" /\ Waves!Next /\ UNCHANGED <<part, vars, workflow>>
WorkflowNext == part = "workflow" /\ Workflow!Next /\ UNCHANGED <<part, vars, wave>>

all == <<part, vars, wave, workflow>>

\* What FairSpec of each part is fair to.
PartSpec == /\ PartInit
            /\ [][ContinuousNext \/ WavesNext \/ WorkflowNext]_all
            /\ WF_all(part = "continuous" /\ PoolStep /\ UNCHANGED <<part, wave, workflow>>)
            /\ WF_all(\/ part = "continuous" /\ Continue /\ UNCHANGED <<part, wave, workflow>>
                      \/ part = "waves" /\ Waves!Continue /\ UNCHANGED <<part, vars, workflow>>
                      \/ part = "workflow" /\ Workflow!Continue /\ UNCHANGED <<part, vars, wave>>)

---------------------------------------------------------------------------
\* WaveWorker: the completions under way never exceed the depth; each that was answered is
\* counted to one caller of run() or flush(), and one that failed makes some call reject.
CompletionsAccounted == Waves!CompletionsAccounted

\* A lease is renewed until the request that settles its job, which is only sent while the
\* lease is held and no renewal is in flight; a worker that has returned has nothing under
\* way.  A workflow worker renews the jobs it has, queued or in a handler, and no others.
EveryLeaseHandedOver == LeasesHandedOver /\ Waves!WaveHandsOver /\ Workflow!JobsKept

\* A due job is claimed as long as the worker runs, what was claimed is handled and what was
\* sent is collected, and a worker that is stopped returns.  A workflow worker asks every
\* state again and again, however many jobs another has.
WorkersSettle == /\ <>[](CASE part = "waves" -> Waves!Settled
                            [] part = "continuous" -> NothingStalls
                            [] OTHER -> TRUE)
                 /\ \A s \in Workflow!States : []<>(part = "workflow" => stage = "ended" \/ asking = s)
==============================================================================
