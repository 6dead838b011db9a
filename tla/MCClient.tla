------------------------------ MODULE MCClient ------------------------------
(***************************************************************************)
(* One run for components above the connections, and for the codec of what *)
(* they send.  They share nothing: a behaviour picks one of them at the    *)
(* start, the others rest.                                                 *)
(***************************************************************************)
EXTENDS DurableSteps, Integers, Sequences, TLC

CONSTANTS Chosen,       \* the components to pick from
          w1, w2, s0,   \* two workers, a state
          Writers, First, Deleted, MaxAttempts, MaxRuns, MaxExpiries, MaxFaults,
          Colliding, MaxItems, MaxGiven,
          MaxRetries, Missing

VARIABLES part,
          calls, pc, local, lock, cell, legacy, index, lost, applied, expiries, faults,
          asked, given,
          called, nextGroup, anyFailed, runners, results, effects, ended, closing,
          input

agents == <<calls, pc, local, lock, cell, legacy, index, lost, applied, expiries, faults>>
requests == <<asked, given>>
divided == <<called, nextGroup, anyFailed, runners, results, effects, ended, closing>>

---------------------------------------------------------------------------
\* Every step leads to the same state; the handlers of one worker make two calls, those of
\* the other, which takes over, one.
MCTarget == [n \in Names |-> s0]

MCMaxCalls == w1 :> 2 @@ w2 :> 1

Symmetry == Permutations(Values)

\* Calls that meet: of one session, of one thread, of the items of one store.
Kind(kind) == [kind |-> kind, of |-> None]
KindOf(kind, of) == [kind |-> kind, of |-> of]

MCPairs == {<<KindOf("append", "t1"), KindOf("append", "t1")>>,
            <<KindOf("append", "t1"), KindOf("replace", "t1")>>,
            <<KindOf("append", "t1"), Kind("clear")>>,
            <<KindOf("replace", "t1"), KindOf("replace", "t2")>>,
            <<KindOf("replace", "t1"), Kind("add")>>,
            <<Kind("pop"), Kind("rewrite")>>,
            <<Kind("compact"), Kind("rewrite")>>,
            <<Kind("put"), Kind("put")>>,
            <<Kind("put"), Kind("deleteThread")>>,
            <<Kind("deleteThread"), Kind("deleteThread")>>,
            <<KindOf("putWrites", 0), KindOf("putWrites", 0)>>,
            <<KindOf("putWrites", 0), Kind("deleteThread")>>,
            <<KindOf("putWrites", -1), Kind("deleteThread")>>,
            <<Kind("batch"), Kind("batch")>>,
            <<Kind("batch"), KindOf("deleteItem", 1)>>,
            <<KindOf("putItem", 1), KindOf("deleteItem", 1)>>,
            <<KindOf("deleteItem", 1), KindOf("deleteItem", 1)>>}

MCCalls == LET first == CHOOSE w \in Writers : TRUE
           IN {[w \in Writers |-> IF w = first THEN p[1] ELSE p[2]] : p \in MCPairs}

MCLegacies == [session |-> {<<First>>, <<First, First>>},
               saver |-> {{}, {<<"checkpoint">>, <<"write", 0>>}},
               store |-> {{}, {1}}]

Agents == INSTANCE AgentPersistence WITH
              call <- calls, late <- lost, Calls <- MCCalls, Legacies <- MCLegacies

\* Every Flow command of the client, with a partition that is named after a bucket.
Requests == INSTANCE FlowRequests WITH
                call <- asked, AutoPartitions <- "__flow_auto__:7" :> "a"

\* Calls that are sent as several requests: in chunks, by bucket, by route, record by record.
Call(kind, homes, size, concurrency, produces) ==
    [kind |-> kind, homes |-> homes, size |-> size, concurrency |-> concurrency,
     produces |-> produces]

MCHomes == UNION {[1..n -> {"a", "b"}] : n \in 1..4}

MCDividedCalls ==
    {Call("chunks", [i \in 1..n |-> "a"], size, 1, produces) :
        n \in 3..4, size \in 1..2, produces \in BOOLEAN}
    \cup {Call("buckets", homes, size, concurrency, TRUE) :
             homes \in MCHomes, size \in 1..2, concurrency \in 1..2}
    \cup {Call("scatter", homes, 9, concurrency, FALSE) : homes \in MCHomes, concurrency \in 1..2}
    \cup {Call("hydrate", [i \in 1..3 |-> "a"], 1, 2, FALSE)}

Divided == INSTANCE DividedCalls WITH
               Calls <- MCDividedCalls, cursor <- nextGroup, failed <- anyFailed

Codec == INSTANCE ProtocolCodec WITH
             MaxDepth <- 2, MaxItems <- 7, Null <- 9, MaxSafe <- 3, MaxI64 <- 5

\* Values of every kind, in containers up to one too deep and with one item too many; and
\* short strings of the bytes that matter, as each kind of response.
MCNumbers == {Codec!Value("bigint", n) : n \in -7..13}
                 \cup {Codec!Value("number", 3), Codec!Value("number", -4)}

MCLeaves == MCNumbers \cup {Codec!Value("text", <<>>), Codec!Value("binary", <<1, 2>>)}
                \cup {Codec!Value(t, 0) : t \in {"undefined", "true", "fraction", "hole"}}

MCMap(keys, items) == Codec!Value("map", [i \in DOMAIN items |-> <<keys[i], items[i]>>])

MCContainers(items) ==
    LET lists == UNION {[1..n -> items] : n \in 0..2}
    IN {Codec!Value("array", l) : l \in lists} \cup {MCMap(<<<<>>, <<1>>>>, l) : l \in lists}

MCLevel1 == MCContainers({Codec!Value("true", 0), Codec!Value("text", <<7>>)})
                \cup {Codec!Value("array", <<v>>) : v \in MCLeaves}
MCLevel2 == MCContainers(MCLevel1)
MCLevel3 == {Codec!Value("array", <<v>>) : v \in MCContainers(MCContainers({Codec!Value("true", 0)}))}


\* As many items as are allowed and one more, in one container and in several.
MCList(n) == Codec!Value("array", [i \in 1..n |-> Codec!Value("true", 0)])
MCWide == {MCList(n) : n \in 7..8}
              \cup {Codec!Value("array", <<MCList(m), MCList(n)>>) : m, n \in 2..3}

MCValues == [value : MCLeaves \cup MCLevel1 \cup MCLevel2 \cup MCLevel3 \cup MCWide,
             maxBytes : {4, 6, 20}]

Strings(bytes, n) == UNION {[1..k -> bytes] : k \in 0..n}

MCBodyOf(customs, statuses, tags, modes, counts, bytes) ==
    [custom : customs, compressed : {FALSE}, supported : customs, status : statuses, tag : tags,
     mode : modes, expected : counts, data : bytes]

MCResponses ==
    MCBodyOf({TRUE}, {0}, Codec!Tags \ {"claims"}, {"unknown"}, {1, 9}, Strings({0, 1, 2, 6, 9}, 5))
      \cup MCBodyOf({TRUE}, {0}, {"claims"}, {"unknown", "base", "state", "attrs", "stateAttrs"}, {9},
                    {<<1>> \o b : b \in Strings({0, 1, 9}, 7)})
      \cup MCBodyOf({FALSE}, {0, 1}, {"okList"}, {"unknown"}, {9}, Strings({0, 1, 2, 3, 4, 5, 6, 9}, 4))

---------------------------------------------------------------------------
StepsRest == disciplined /\ flow.runState = s0

AgentsRest ==
    /\ calls = 0 /\ pc = 0 /\ local = 0 /\ lock = 0 /\ cell = 0 /\ legacy = 0
    /\ index = 0 /\ lost = 0 /\ applied = 0 /\ expiries = 0 /\ faults = 0

RequestsRest == asked = 0 /\ given = 0

DividedRest ==
    /\ called = 0 /\ nextGroup = 0 /\ anyFailed = 0 /\ runners = 0
    /\ results = 0 /\ effects = 0 /\ ended = 0 /\ closing = 0

PartInit == /\ part \in Chosen
            /\ Init
            /\ IF part = "steps" THEN TRUE ELSE StepsRest
            /\ IF part = "agents" THEN Agents!Init ELSE AgentsRest
            /\ IF part = "requests" THEN Requests!Init ELSE RequestsRest
            /\ IF part = "divided" THEN Divided!Init ELSE DividedRest
            /\ IF part = "codec" THEN Codec!Init(MCValues, MCResponses) ELSE input = 0

StepsNext == part = "steps" /\ Next /\ UNCHANGED <<part, input, agents, requests, divided>>
AgentsNext == part = "agents" /\ Agents!Next /\ UNCHANGED <<part, input, vars, requests, divided>>
RequestsNext == part = "requests" /\ Requests!Next /\ UNCHANGED <<part, input, vars, agents, divided>>
DividedNext == part = "divided" /\ Divided!Next /\ UNCHANGED <<part, input, vars, agents, requests>>

all == <<part, input, vars, agents, requests, divided>>

PartSpec == PartInit /\ [][StepsNext \/ AgentsNext \/ RequestsNext \/ DividedNext]_all

---------------------------------------------------------------------------
\* AgentPersistence: a call that resolves has had all its effects, one that rejects has not
\* had the one it was at, unless an answer was lost; what can be read can be listed.
\* DividedCalls: no item is carried out twice, every result is that of its item, and a call
\* that fails half way reports all but one request of each runner.
AnswersAreTrue == /\ part = "agents" => Agents!AnswersAreTrue
                  /\ part = "divided" => Divided!ReportsAreTrue

\* FlowRequests: every option and every item of a call is in its request, whichever form it
\* takes and whatever the parts say, and nothing else is.
DeliveredWhole == part = "requests" => Requests!DeliveredWhole

\* FlowRequests: in a batch, a call is ordered by the flows and values it is about, and not by
\* what else in its arguments looks like a list of items.
OrderedByWhatItTouches == part = "requests" => Requests!OrderedByWhatItTouches

\* FlowRequests: a call goes to the shard its partition, or else its flow, is on, and is never
\* routed by a guess.
RoutedHome == part = "requests" => Requests!RoutedHome

\* ProtocolCodec: a value is accepted exactly if it is within the limits, and read as it was
\* written; no response is taken for complete before its end, or holds more than the limit.
DecodesExactly == part = "codec" => Codec!DecodesExactly

\* AgentPersistence: however locks expire, commands fail and processes crash, every call has
\* its effect at one moment, on the memory as it is then, and once.
ImplementsAgentMemory == [][part = "agents" => Agents!MemoryStep]_all
=============================================================================
