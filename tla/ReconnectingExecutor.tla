------------------------ MODULE ReconnectingExecutor ------------------------
(***************************************************************************)
(* Automatic reconnect: reconnecting-executor.ts over the connections made *)
(* by createExecutor.                                                      *)
(*                                                                         *)
(* Each await of the source separates two steps; between them every other  *)
(* call, the connections and close() may move.  A connection is abstracted *)
(* from NativeConnection: a call on it is queued (waits for credit or for  *)
(* the socket) or sent; when it drains, queued calls fail as "unsent";     *)
(* when it fails or is closed, sent calls fail as "possibly_sent".         *)
(***************************************************************************)
EXTENDS Naturals, FiniteSets

CONSTANTS Calls,
          Cas,         \* the calls of compare-and-set commands: never replayed
          Pipelines,   \* the others of executePipeline and executeFusedPipeline
          MaxRetries,
          MaxConnections  \* bound on connections made; beyond it createExecutor fails

Connections == 1..MaxConnections
None == 0

VARIABLES pc,        \* where each call stands
          locals,    \* its variables: the executor it holds, the executorPromise it
                     \* observed, its retries
          result,    \* the error it caught, or what it ended with
          sent,      \* how often a frame of the call went into a socket
          conn,      \* the state of each connection
          executorPromise,  \* the connection this.executorPromise stands for
          reconnect, \* the task behind this.reconnectPromise
          closed,
          closing    \* the progress of close()

call == <<pc, locals, result, sent>>
vars == <<call, conn, executorPromise, reconnect, closed, closing>>

NoLocals == [executor |-> None, observed |-> None, retries |-> 0]
NoReconnect == [stage |-> "none", next |-> None]
Live == {"creating", "open", "draining"}

Init == /\ pc = [c \in Calls |-> "idle"]
        /\ locals = [c \in Calls |-> NoLocals]
        /\ result = [c \in Calls |-> "none"]
        /\ sent = [c \in Calls |-> 0]
        /\ conn = [e \in Connections |-> IF e = 1 THEN "creating" ELSE "absent"]
        /\ executorPromise = 1
        /\ reconnect = NoReconnect
        /\ closed = FALSE
        /\ closing = [stage |-> "no", executor |-> None, awaitsReconnect |-> FALSE]

On(e) == {c \in Calls : locals[c].executor = e /\ pc[c] \in {"queued", "sent"}}

Ends(c, how) == /\ pc' = [pc EXCEPT ![c] = "done"]
                /\ result' = [result EXCEPT ![c] = how]
                /\ locals' = [locals EXCEPT ![c] = NoLocals]

---------------------------------------------------------------------------
(* The connections.                                                        *)

\* The calls of R on connections fail; each learns whether it may have been sent.
FailCalls(R) ==
    /\ pc' = [c \in Calls |-> IF c \in R THEN "failed" ELSE pc[c]]
    /\ result' = [c \in Calls |-> IF c \notin R THEN result[c]
                                  ELSE IF pc[c] = "queued" THEN "unsent" ELSE "possibly_sent"]
    /\ UNCHANGED <<locals, sent>>

\* GOAWAY: nothing new is taken; calls in flight may finish.
Drains(e) == LET queued == {c \in On(e) : pc[c] = "queued"} IN
             /\ conn[e] = "open"
             /\ FailCalls(queued)
             /\ conn' = [conn EXCEPT ![e] = IF On(e) = queued THEN "closed" ELSE "draining"]
             /\ UNCHANGED <<executorPromise, reconnect, closed, closing>>

Fails(e) == /\ conn[e] \in {"open", "draining"}
            /\ FailCalls(On(e))
            /\ conn' = [conn EXCEPT ![e] = "closed"]
            /\ UNCHANGED <<executorPromise, reconnect, closed, closing>>

Sends(c) == /\ pc[c] = "queued"
            /\ pc' = [pc EXCEPT ![c] = "sent"]
            /\ sent' = [sent EXCEPT ![c] = @ + 1]
            /\ UNCHANGED <<locals, result, conn, executorPromise, reconnect, closed, closing>>

\* An answer, an error of the server or a timeout: not a closed connection.
Answers(c) == LET e == locals[c].executor IN
              /\ pc[c] \in {"queued", "sent"}
              /\ \E how \in {"value", "error"} :
                    (how = "value" => pc[c] = "sent") /\ Ends(c, how)
              /\ conn' = [conn EXCEPT ![e] = IF @ = "draining" /\ On(e) = {c}
                                             THEN "closed" ELSE @]
              /\ UNCHANGED <<sent, executorPromise, reconnect, closed, closing>>

\* The executor the constructor creates.
FirstConnects == /\ conn[1] = "creating"
                 /\ conn' = [conn EXCEPT ![1] = "open"]
                 /\ UNCHANGED <<call, executorPromise, reconnect, closed, closing>>

FirstFails == /\ conn[1] = "creating"
              /\ conn' = [conn EXCEPT ![1] = "failed"]
              /\ UNCHANGED <<call, executorPromise, reconnect, closed, closing>>

---------------------------------------------------------------------------
(* A call.                                                                 *)

Replayable(c) == c \notin Cas \cup Pipelines

\* Slip: every closed connection counts as reconnectable.
AnyClosedConnection(c) == result[c] \in {"unsent", "possibly_sent"}

\* The error of the call justifies a reconnect.
Reconnectable(c) == IF c \in Cas THEN result[c] \in {"unsent", "possibly_sent"}
                                 ELSE result[c] = "unsent"

\* The call, its locals being l, attempts its operation on connection e.
Attempt(c, l, e) ==
    IF closed THEN Ends(c, "unsent")
    ELSE /\ locals' = [locals EXCEPT ![c] = [l EXCEPT !.executor = e, !.observed = None]]
         /\ pc' = [pc EXCEPT ![c] = IF conn[e] = "open" THEN "queued" ELSE "failed"]
         /\ result' = [result EXCEPT ![c] = IF conn[e] = "open" THEN "none" ELSE "unsent"]

Begin(c) == /\ pc[c] = "idle"
            /\ pc' = [pc EXCEPT ![c] = "awaits"]
            /\ locals' = [locals EXCEPT ![c].observed = executorPromise]
            /\ UNCHANGED <<result, sent, conn, executorPromise, reconnect, closed, closing>>

\* await this.executorPromise, then the first attempt.
GetExecutor(c) == LET e == locals[c].observed IN
                  /\ pc[c] = "awaits"
                  /\ conn[e] # "creating"
                  /\ IF conn[e] = "failed" THEN Ends(c, "error") ELSE Attempt(c, locals[c], e)
                  /\ UNCHANGED <<sent, conn, executorPromise, reconnect, closed, closing>>

\* The synchronous start of reconnect(): join the one under way, or look again after
\* an await.
EnterReconnect(c) ==
    /\ pc' = [pc EXCEPT ![c] = IF reconnect.stage # "none" THEN "joined" ELSE "looks"]
    /\ locals' = [locals EXCEPT
                    ![c].observed = IF reconnect.stage # "none" THEN None ELSE executorPromise,
                    ![c].retries = IF Replayable(c) THEN @ + 1 ELSE @]
    /\ UNCHANGED result

\* The catch block of withReconnect and of the pipelines.
Caught(c) ==
    /\ pc[c] = "failed"
    /\ IF closed \/ locals[c].retries >= MaxRetries \/ ~Reconnectable(c)
       THEN Ends(c, result[c])
       ELSE EnterReconnect(c)
    /\ UNCHANGED <<sent, conn, executorPromise, reconnect, closed, closing>>

\* reconnect() came to connection e: replay, or report the first error.
Returns(c, e) == IF Replayable(c) THEN Attempt(c, locals[c], e) ELSE Ends(c, result[c])

\* reconnect() threw: give up, or wait for another try.
Throws(c, how) ==
    IF ~Replayable(c) THEN Ends(c, result[c])
    ELSE IF closed \/ locals[c].retries >= MaxRetries THEN Ends(c, how)
    ELSE /\ pc' = [pc EXCEPT ![c] = "sleeps"]
         /\ locals' = [locals EXCEPT ![c].observed = None]
         /\ UNCHANGED result

\* Slip: who made a connection since is not asked again after the await.
StartsAnyway(c) == pc[c] = "looks" /\ ~closed /\ reconnect.stage = "none"

\* After the await in reconnect(): this call's connection is still the current one
\* and nobody reconnects, so it starts to.
Starts(c) == /\ pc[c] = "looks" /\ ~closed
             /\ reconnect.stage = "none"
             /\ executorPromise = locals[c].observed
             /\ locals[c].observed = locals[c].executor

StartReconnect(c) ==
    LET e == locals[c].executor IN
    /\ Starts(c)
    /\ reconnect' = [stage |-> "closing", next |-> None]
    /\ conn' = [conn EXCEPT ![e] = "closed"]
    /\ pc' = [k \in Calls |-> IF k = c THEN "joined"
                              ELSE IF k \in On(e) THEN "failed" ELSE pc[k]]
    /\ result' = [k \in Calls |-> IF k \notin On(e) THEN result[k]
                                  ELSE IF pc[k] = "queued" THEN "unsent" ELSE "possibly_sent"]
    /\ locals' = [locals EXCEPT ![c].observed = None]
    /\ UNCHANGED <<sent, executorPromise, closed, closing>>

\* Otherwise it joins, takes the connection somebody else has made, or gives up.
Looks(c) ==
    /\ pc[c] = "looks"
    /\ ~Starts(c)
    /\ IF closed THEN Throws(c, "unsent")
       ELSE IF reconnect.stage # "none"
       THEN /\ pc' = [pc EXCEPT ![c] = "joined"]
            /\ locals' = [locals EXCEPT ![c].observed = None]
            /\ UNCHANGED result
       ELSE Returns(c, executorPromise)
    /\ UNCHANGED <<sent, conn, executorPromise, reconnect, closed, closing>>

\* The pause before another reconnect ends, or close() cuts it short.
Wakes(c) == /\ pc[c] = "sleeps"
            /\ IF closed THEN Ends(c, "unsent") ELSE EnterReconnect(c)
            /\ UNCHANGED <<sent, conn, executorPromise, reconnect, closed, closing>>

---------------------------------------------------------------------------
(* The reconnect task and close().                                         *)

Creates == /\ reconnect.stage = "closing"
           /\ \/ \E e \in Connections :
                    /\ conn[e] = "absent"
                    /\ \A d \in Connections : conn[d] = "absent" => e <= d
                    /\ conn' = [conn EXCEPT ![e] = "creating"]
                    /\ reconnect' = [stage |-> "creating", next |-> e]
              \/ reconnect' = [stage |-> "threw", next |-> None] /\ UNCHANGED conn
           /\ UNCHANGED <<call, executorPromise, closed, closing>>

\* createExecutor resolved; after close() its connection is closed at once.
Created == /\ reconnect.stage = "creating"
           /\ conn' = [conn EXCEPT ![reconnect.next] = IF closed THEN "closed" ELSE "open"]
           /\ reconnect' = [reconnect EXCEPT !.stage = IF closed THEN "threw" ELSE "made"]
           /\ executorPromise' = IF closed THEN executorPromise ELSE reconnect.next
           /\ UNCHANGED <<call, closed, closing>>

CreationFails == /\ reconnect.stage = "creating"
                 /\ conn' = [conn EXCEPT ![reconnect.next] = "failed"]
                 /\ reconnect' = [stage |-> "threw", next |-> None]
                 /\ UNCHANGED <<call, executorPromise, closed, closing>>


\* finally: the promise is dropped, and those who await it go on, each in a step of
\* its own.
Finished == /\ reconnect.stage \in {"made", "threw"}
            /\ reconnect' = NoReconnect
            /\ pc' = [c \in Calls |-> IF pc[c] # "joined" THEN pc[c]
                                      ELSE IF reconnect.stage = "made" THEN "rejoins"
                                      ELSE "abandons"]
            /\ locals' = [c \in Calls |-> IF pc[c] = "joined"
                                          THEN [locals[c] EXCEPT !.observed = reconnect.next]
                                          ELSE locals[c]]
            /\ UNCHANGED <<result, sent, conn, executorPromise, closed, closing>>

Rejoins(c) == /\ \/ pc[c] = "rejoins" /\ Returns(c, locals[c].observed)
                 \/ pc[c] = "abandons" /\ Throws(c, "error")
              /\ UNCHANGED <<sent, conn, executorPromise, reconnect, closed, closing>>

Close == /\ ~closed
         /\ closed' = TRUE
         /\ closing' = [stage |-> "awaits", executor |-> executorPromise,
                        awaitsReconnect |-> reconnect.stage # "none"]
         /\ UNCHANGED <<call, conn, executorPromise, reconnect>>

\* close() has its executor and closes it; a failed creation leaves nothing to do.
ClosesExecutor == LET e == closing.executor IN
                  /\ closing.stage = "awaits"
                  /\ conn[e] # "creating"
                  /\ closing' = [closing EXCEPT !.stage = "closes"]
                  /\ conn' = [conn EXCEPT ![e] = IF @ = "failed" THEN @ ELSE "closed"]
                  /\ FailCalls(On(e))
                  /\ UNCHANGED <<executorPromise, reconnect, closed>>

CloseResolves == /\ closing.stage = "closes"
                 /\ closing.awaitsReconnect => reconnect.stage = "none"
                 /\ closing' = [closing EXCEPT !.stage = "resolved"]
                 /\ UNCHANGED <<call, conn, executorPromise, reconnect, closed>>

---------------------------------------------------------------------------
Step(c) == \/ GetExecutor(c) \/ Sends(c) \/ Answers(c) \/ Caught(c)
           \/ StartReconnect(c) \/ Looks(c) \/ Wakes(c) \/ Rejoins(c)

Reconnecting == Creates \/ Created \/ CreationFails \/ Finished

Next == \/ \E c \in Calls : Begin(c) \/ Step(c)
        \/ \E e \in Connections : Drains(e) \/ Fails(e)
        \/ FirstConnects \/ FirstFails \/ Reconnecting
        \/ Close \/ ClosesExecutor \/ CloseResolves

Spec == Init /\ [][Next]_vars

\* Continuations run, timers fire, connecting times out, and a connection answers
\* or rejects every call (EverythingSettles of NativeConnection).
Continue == \/ \E c \in Calls : Step(c)
            \/ FirstConnects \/ FirstFails \/ Reconnecting
            \/ ClosesExecutor \/ CloseResolves

FairSpec == Spec /\ WF_vars(Continue)

---------------------------------------------------------------------------
\* "it does not replay an uncertain mutation": whatever fails, drains, reconnects or
\* closes meanwhile, no command enters a socket twice, and one reported as "unsent"
\* has entered none.
NeverReplayed ==
    \A c \in Calls :
        /\ sent[c] <= 1
        /\ pc[c] = "done" /\ result[c] = "unsent" => sent[c] = 0

\* However calls that fail together reconnect, a connection that works is never replaced,
\* by a caller that looked at one another caller has since replaced; only the connection of
\* executorPromise and the one being made are alive, and none once close() has returned,
\* although connections fail, and arrive late.
OneLiveConnection ==
    /\ \A c \in Calls : Starts(c) => conn[executorPromise] # "open"
    /\ \A e \in Connections : conn[e] \in Live => e \in {executorPromise, reconnect.next}
    /\ closing.stage = "resolved" => \A e \in Connections : conn[e] \notin Live

\* Every call that began settles and close() returns, in whatever state they meet.
Settled == /\ \A c \in Calls : pc[c] \in {"idle", "done"}
           /\ closed => closing.stage = "resolved"

\* native-adapter.ts:397: "finite requests retain graceful drain semantics".  A
\* request in flight on a draining connection is not cut off by the client itself.
DrainIsGraceful == \A c \in Calls : Starts(c) => \A k \in On(locals[c].executor) : pc[k] # "sent"
============================================================================
