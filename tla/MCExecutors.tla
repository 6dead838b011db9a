----------------------------- MODULE MCExecutors -----------------------------
(***************************************************************************)
(* The executors over several connections, in one run: the topology, the   *)
(* automatic reconnect and the HTTP transport.  A behaviour picks one of   *)
(* them at the start, the others rest.                                     *)
(***************************************************************************)
EXTENDS TopologyExecutor

CONSTANTS c1, c2,
          p1, a1, q1, MaxRetries, MaxMade,
          Batches, MaxConnections, RemoteLimits, MaxRedirects, MaxDetours, MaxSessionFaults

VARIABLES part,
          pc, locals, result, sent, conn, executorPromise, reconnect, executorClosed, executorClosing,
          batch, pool, session, allSessions, transportClosed, detours, sessionFaults

MCCalls == {c1, c2}
Mode(first, second, warm, view, bound) ==
    [kind |-> [c \in MCCalls |-> IF c = c1 THEN first ELSE second], warm |-> warm, view |-> view,
     faults |-> bound]

\* While connections are warmed and the slot moves to the seed: a command beside a
\* compare-and-set; a command alone, with two faults; a compare-and-set alone and two
\* control commands, each with one fault.  When the slot moves to an endpoint that is not
\* trusted: a pipeline beside a control command, with one fault.
MCModes == {Mode("command", "cas", TRUE, 1, 0), Mode("command", "none", TRUE, 1, 2),
            Mode("cas", "none", TRUE, 1, 1), Mode("control", "control", TRUE, 1, 1),
            Mode("pipeline", "control", FALSE, 2, 1)}
MCViews == <<"learned", "seed", "stranger">>

\* The proof modules extend their components: what they prove comes along with them.
Reconnect == INSTANCE ReconnectingExecutorProofs WITH
                Calls <- {p1, a1, q1}, Cas <- {a1}, Pipelines <- {q1}, MaxConnections <- MaxMade,
                closed <- executorClosed, closing <- executorClosing

Http == INSTANCE HttpTransportProofs

reconnecting == <<pc, locals, result, sent, conn, executorPromise, reconnect, executorClosed,
                  executorClosing>>
http == <<batch, pool, session, allSessions, transportClosed, detours, sessionFaults>>
all == <<part, vars, reconnecting, http>>

PartInit == /\ part \in {"topology", "reconnect", "http"}
            /\ Init /\ Reconnect!Init /\ Http!Init
            /\ part # "topology" => mode = CHOOSE m \in Modes : TRUE

\* The batches of HTTP differ in nothing but their number, so one order of posting them is
\* enough.
PostedInOrder ==
    \A b, c \in Batches : b < c /\ batch[c].pc # "idle" => batch[b].pc # "idle"

TopologyNext == part = "topology" /\ Next /\ UNCHANGED <<part, reconnecting, http>>
ReconnectNext == part = "reconnect" /\ Reconnect!Next /\ UNCHANGED <<part, vars, http>>
HttpNext == part = "http" /\ Http!Next /\ PostedInOrder' /\ UNCHANGED <<part, vars, reconnecting>>

\* The steps that FairSpec of each part is fair to.
PartContinue ==
    \/ part = "topology" /\ Continue /\ UNCHANGED <<part, reconnecting, http>>
    \/ part = "reconnect" /\ Reconnect!Continue /\ UNCHANGED <<part, vars, http>>
    \/ part = "http" /\ Http!Continue /\ UNCHANGED <<part, vars, reconnecting>>

PartSpec == /\ PartInit
            /\ [][TopologyNext \/ ReconnectNext \/ HttpNext]_all
            /\ WF_all(PartContinue)

\* ReconnectingExecutor: no command enters a socket twice, and one reported as "unsent" has
\* entered none.
NeverReplayed == Reconnect!NeverReplayed

\* ReconnectingExecutor: concurrent failures and late creations neither leak a connection
\* nor replace one that works.
OneLiveConnection == Reconnect!OneLiveConnection

\* HttpTransport: every slot in use is held by one request, which gives it back however it
\* ends, and nobody waits while a slot of a session in use is free.
SlotsConserved == Http!SlotsConserved

\* HttpTransport: a batch is executed at most once, and one that is reported as unsent or
\* safe to repeat has not been executed.
ExecutedAsReported == Http!ExecutedAsReported

\* Of each part: in the end every request has settled, close() has returned, every event
\* has been followed by a load of the topology, and no retired session is left.
ExecutorsSettle == <>[]CASE part = "topology" -> Settled
                         [] part = "reconnect" -> Reconnect!Settled
                         [] part = "http" -> Http!Settled
=============================================================================
