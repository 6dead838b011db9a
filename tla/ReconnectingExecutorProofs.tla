--------------------- MODULE ReconnectingExecutorProofs ---------------------
(***************************************************************************)
(* The automatic reconnect neither replays a command nor leaks or replaces *)
(* a working connection, for any calls, retries and number of connections. *)
(***************************************************************************)
EXTENDS ReconnectingExecutor, TLAPS

\* The constructor of the code creates one connection.
AtLeastOne == MaxConnections \in Nat \ {0}

\* Where a call stands between its catch block and its next attempt.
Recovering == {"failed", "joined", "looks", "sleeps", "rejoins", "abandons"}

Held == Connections \cup {None}

TypeOK ==
    /\ pc \in [Calls -> {"idle", "awaits", "queued", "sent", "done"} \cup Recovering]
    /\ locals \in [Calls -> [executor : Held, observed : Held, retries : Nat]]
    /\ result \in [Calls -> {"none", "value", "error", "unsent", "possibly_sent"}]
    /\ sent \in [Calls -> Nat]
    /\ conn \in [Connections -> {"absent", "creating", "open", "draining", "closed", "failed"}]
    /\ executorPromise \in Connections
    /\ reconnect \in [stage : {"none", "closing", "creating", "threw", "made"}, next : Held]
    /\ closed \in BOOLEAN
    /\ closing \in [stage : {"no", "awaits", "closes", "resolved"}, executor : Held,
                    awaitsReconnect : BOOLEAN]

\* What a call knows of its frames: an error that says "unsent" is right, and only a
\* call with that error is on its way to a replay.
ToldTruly(c) ==
    /\ sent[c] <= 1
    /\ pc[c] \in {"idle", "awaits", "queued"} => sent[c] = 0
    /\ pc[c] \in Recovering \cup {"done"} /\ result[c] = "unsent" => sent[c] = 0
    /\ pc[c] \in Recovering \ {"failed"} /\ Replayable(c) => result[c] = "unsent"
    /\ pc[c] = "sleeps" => Replayable(c)

\* A connection that has come to be, and one of those that will not work again.
Made(e) == e \in Connections /\ conn[e] \notin {"absent", "creating"}
Spent(e) == Made(e) /\ conn[e] # "open"

\* The connection a call holds after a failure is spent; the one it waits for exists; and
\* a call waits for a reconnect only while there is one.
HoldsWell(c) ==
    /\ pc[c] \in Recovering => Spent(locals[c].executor)
    /\ pc[c] = "awaits" => locals[c].observed \in Connections
                           /\ conn[locals[c].observed] # "absent"
    /\ pc[c] = "rejoins" => Made(locals[c].observed)
    /\ pc[c] = "joined" => reconnect.stage # "none"

\* Until the constructor's connection has come or failed, nothing else has happened.
FirstAlone ==
    conn[1] = "creating" => /\ executorPromise = 1
                            /\ reconnect.stage = "none"
                            /\ \A c \in Calls : \/ pc[c] = "idle"
                                                \/ pc[c] = "awaits" /\ locals[c].observed = 1
                            /\ closing.stage \in {"no", "awaits"}

\* The one connection that may be alive.
Current == IF reconnect.stage = "creating" THEN reconnect.next ELSE executorPromise

OneCurrent ==
    /\ conn[1] # "absent"
    /\ executorPromise = 1 \/ Made(executorPromise)
    /\ \A e \in Connections : conn[e] \in Live => e = Current
    /\ reconnect.stage \in {"closing", "creating"} => conn[executorPromise] \notin Live
    /\ reconnect.stage = "creating" => /\ reconnect.next \in Connections
                                       /\ conn[reconnect.next] = "creating"
    /\ reconnect.stage = "made" => Made(reconnect.next)

\* close() closes the connection that is current when it is called, and no other comes.
ClosesCurrent ==
    /\ closed <=> closing.stage # "no"
    /\ closed => /\ closing.executor = executorPromise
                 /\ reconnect.stage # "none" => closing.awaitsReconnect
    /\ closing.stage \in {"closes", "resolved"} => conn[executorPromise] \notin Live
    /\ closing.stage = "resolved" => reconnect.stage = "none"

Inv == /\ TypeOK
       /\ \A c \in Calls : ToldTruly(c) /\ HoldsWell(c)
       /\ FirstAlone
       /\ OneCurrent
       /\ ClosesCurrent

---------------------------------------------------------------------------
(* The steps of one call.                                                  *)

\* A step that leaves everything alone but the call c, and leaves it well.
Moves(c) == /\ TypeOK'
            /\ ToldTruly(c)' /\ HoldsWell(c)'
            /\ conn[1] = "creating" => pc'[c] = "awaits" /\ locals'[c].observed = 1
            /\ \A k \in Calls \ {c} : /\ pc'[k] = pc[k] /\ locals'[k] = locals[k]
                                      /\ result'[k] = result[k] /\ sent'[k] = sent[k]

Alone == UNCHANGED <<conn, executorPromise, reconnect, closed, closing>>

\* Such a step keeps the invariant.
LEMMA MovesKeepInv ==
    ASSUME Inv, NEW c \in Calls, Moves(c), Alone
    PROVE  Inv'
<1>1. \A k \in Calls : ToldTruly(k)' /\ HoldsWell(k)'
  <2> SUFFICES ASSUME NEW k \in Calls, k # c PROVE ToldTruly(k)' /\ HoldsWell(k)'
    BY DEF Moves
  <2>1. ToldTruly(k) /\ HoldsWell(k)
    BY DEF Inv
  <2> QED BY <2>1 DEF Moves, Alone, ToldTruly, HoldsWell, Spent, Made
<1>2. FirstAlone'
  BY DEF Inv, FirstAlone, Moves, Alone
<1>3. OneCurrent' /\ ClosesCurrent'
  BY DEF Inv, OneCurrent, ClosesCurrent, Current, Made, Alone
<1> QED BY <1>1, <1>2, <1>3 DEF Inv, Moves

\* Ends: the call reports `how', and "unsent" only when that is so.
LEMMA EndsMoves ==
    ASSUME Inv, NEW c \in Calls, NEW how \in {"none", "value", "error", "unsent", "possibly_sent"},
           conn[1] # "creating",
           how = "unsent" => sent[c] = 0,
           Ends(c, how), UNCHANGED sent, Alone
    PROVE  Moves(c)
<1>1. TypeOK /\ ToldTruly(c)
  BY DEF Inv
<1>2. TypeOK'
  BY <1>1 DEF TypeOK, Ends, Alone, NoLocals, Held, None, Recovering
<1>3. pc'[c] = "done" /\ result'[c] = how /\ sent'[c] = sent[c]
  BY <1>1 DEF TypeOK, Ends
<1>4. ToldTruly(c)' /\ HoldsWell(c)'
  BY <1>1, <1>3 DEF ToldTruly, HoldsWell, Recovering
<1> QED BY <1>1, <1>2, <1>3, <1>4 DEF TypeOK, Moves, Ends

\* Attempt: on a connection that exists, by a call that has sent nothing.
LEMMA AttemptMoves ==
    ASSUME Inv, NEW c \in Calls, NEW e, Made(e), conn[1] # "creating",
           sent[c] = 0, Attempt(c, locals[c], e), UNCHANGED sent, Alone
    PROVE  Moves(c)
<1>1. TypeOK /\ ToldTruly(c)
  BY DEF Inv
<1>2. CASE closed
  BY <1>2, EndsMoves DEF Attempt
<1>3. CASE ~closed
  <2>1. /\ pc' = [pc EXCEPT ![c] = IF conn[e] = "open" THEN "queued" ELSE "failed"]
        /\ result' = [result EXCEPT ![c] = IF conn[e] = "open" THEN "none" ELSE "unsent"]
        /\ locals' = [locals EXCEPT ![c] = [locals[c] EXCEPT !.executor = e, !.observed = None]]
    BY <1>3 DEF Attempt
  <2>2. locals[c] \in [executor : Held, observed : Held, retries : Nat]
    BY <1>1 DEF TypeOK
  <2>3. /\ [locals[c] EXCEPT !.executor = e, !.observed = None]
             \in [executor : Held, observed : Held, retries : Nat]
        /\ [locals[c] EXCEPT !.executor = e, !.observed = None].executor = e
    BY <2>2 DEF Made, Held
  <2>4. locals' \in [Calls -> [executor : Held, observed : Held, retries : Nat]]
        /\ locals'[c].executor = e
    BY <1>1, <2>1, <2>3 DEF TypeOK
  <2>5. TypeOK'
    BY <1>1, <2>1, <2>4 DEF TypeOK, Alone, Recovering
  <2>6. /\ pc'[c] = IF conn[e] = "open" THEN "queued" ELSE "failed"
        /\ sent'[c] = 0
    BY <1>1, <2>1 DEF TypeOK
  <2>7. ToldTruly(c)'
    BY <2>6 DEF ToldTruly, Recovering
  <2>8. HoldsWell(c)'
    BY <2>4, <2>6 DEF HoldsWell, Recovering, Spent, Made, Alone
  <2> QED BY <1>1, <2>1, <2>5, <2>7, <2>8 DEF TypeOK, Moves
<1> QED BY <1>2, <1>3

\* EnterReconnect: of a call whose attempt failed, by an error that justifies it.
LEMMA EnterReconnectMoves ==
    ASSUME Inv, NEW c \in Calls, pc[c] \in {"failed", "sleeps"},
           Replayable(c) => result[c] = "unsent",
           EnterReconnect(c), UNCHANGED sent, Alone
    PROVE  Moves(c)
<1>1. TypeOK /\ ToldTruly(c) /\ HoldsWell(c)
  BY DEF Inv
<1>2. pc' = [pc EXCEPT ![c] = IF reconnect.stage # "none" THEN "joined" ELSE "looks"]
      /\ result' = result
  BY DEF EnterReconnect
<1> DEFINE l == [locals[c] EXCEPT
                   !.observed = IF reconnect.stage # "none" THEN None ELSE executorPromise,
                   !.retries = IF Replayable(c) THEN @ + 1 ELSE @]
<1>3. locals[c] \in [executor : Held, observed : Held, retries : Nat]
  BY <1>1 DEF TypeOK
<1>4. l \in [executor : Held, observed : Held, retries : Nat] /\ l.executor = locals[c].executor
  <2>1. (IF reconnect.stage # "none" THEN None ELSE executorPromise) \in Held
    BY <1>1 DEF TypeOK, Held
  <2>2. (IF Replayable(c) THEN locals[c].retries + 1 ELSE locals[c].retries) \in Nat
    BY <1>3
  <2> QED BY <1>3, <2>1, <2>2
<1>5. locals' = [locals EXCEPT ![c] = l]
  BY <1>1, <1>3 DEF EnterReconnect, TypeOK
<1> HIDE DEF l
<1>6. locals' \in [Calls -> [executor : Held, observed : Held, retries : Nat]]
      /\ locals'[c].executor = locals[c].executor
  BY <1>1, <1>4, <1>5 DEF TypeOK
<1>7. TypeOK'
  BY <1>1, <1>2, <1>6 DEF TypeOK, Alone, Recovering
<1>8. pc'[c] = IF reconnect.stage # "none" THEN "joined" ELSE "looks"
  BY <1>1, <1>2 DEF TypeOK
<1>9. ToldTruly(c)'
  BY <1>1, <1>2, <1>8 DEF ToldTruly, Recovering
<1>10. HoldsWell(c)'
  BY <1>1, <1>6, <1>8 DEF HoldsWell, Recovering, Spent, Made, Alone
<1>11. conn[1] # "creating"
  BY DEF Inv, FirstAlone
<1> QED BY <1>1, <1>2, <1>5, <1>7, <1>9, <1>10, <1>11 DEF TypeOK, Moves

\* Returns: only a call that has sent nothing is replayed.
LEMMA ReturnsMoves ==
    ASSUME Inv, NEW c \in Calls, pc[c] \in Recovering \ {"failed"}, NEW e, Made(e),
           Returns(c, e), UNCHANGED sent, Alone
    PROVE  Moves(c)
<1>1. TypeOK /\ ToldTruly(c) /\ conn[1] # "creating"
  BY DEF Inv, FirstAlone, Recovering
<1>2. CASE Replayable(c)
  BY <1>1, <1>2, AttemptMoves DEF Returns, ToldTruly
<1>3. CASE ~Replayable(c)
  <2>1. Ends(c, result[c])
    BY <1>3 DEF Returns
  <2>2. result[c] \in {"none", "value", "error", "unsent", "possibly_sent"}
    BY <1>1 DEF TypeOK
  <2> QED BY <1>1, <2>1, <2>2, EndsMoves DEF ToldTruly
<1> QED BY <1>2, <1>3

\* Throws: a call that is not replayed reports its first error, another one how the
\* reconnect failed, and it has sent nothing.
LEMMA ThrowsMoves ==
    ASSUME Inv, NEW c \in Calls, pc[c] \in Recovering \ {"failed"}, NEW how \in {"error", "unsent"},
           Throws(c, how), UNCHANGED sent, Alone
    PROVE  Moves(c)
<1>1. TypeOK /\ ToldTruly(c) /\ HoldsWell(c) /\ conn[1] # "creating"
  BY DEF Inv, FirstAlone, Recovering
<1>2. CASE ~Replayable(c)
  <2>1. Ends(c, result[c])
    BY <1>2 DEF Throws
  <2>2. result[c] \in {"none", "value", "error", "unsent", "possibly_sent"}
    BY <1>1 DEF TypeOK
  <2> QED BY <1>1, <2>1, <2>2, EndsMoves DEF ToldTruly
<1>3. CASE Replayable(c) /\ (closed \/ locals[c].retries >= MaxRetries)
  <2>1. Ends(c, how)
    BY <1>3 DEF Throws
  <2> QED BY <1>1, <1>3, <2>1, EndsMoves DEF ToldTruly
<1>4. CASE Replayable(c) /\ ~(closed \/ locals[c].retries >= MaxRetries)
  <2>1. /\ pc' = [pc EXCEPT ![c] = "sleeps"]
        /\ locals' = [locals EXCEPT ![c].observed = None]
        /\ result' = result
    BY <1>4 DEF Throws
  <2>2. locals' \in [Calls -> [executor : Held, observed : Held, retries : Nat]]
        /\ locals'[c].executor = locals[c].executor
    BY <1>1, <2>1 DEF TypeOK, Held
  <2>3. TypeOK' /\ pc'[c] = "sleeps"
    BY <1>1, <2>1, <2>2 DEF TypeOK, Alone, Recovering
  <2>4. ToldTruly(c)' /\ HoldsWell(c)'
    BY <1>1, <1>4, <2>1, <2>2, <2>3 DEF ToldTruly, HoldsWell, Recovering, Replayable, Spent, Made, Alone
  <2> QED BY <1>1, <2>1, <2>3, <2>4 DEF TypeOK, Moves
<1> QED BY <1>2, <1>3, <1>4

LEMMA BeginInv ==
    ASSUME Inv, NEW c \in Calls, Begin(c)
    PROVE  Inv'
<1>1. TypeOK /\ ToldTruly(c) /\ Alone
  BY DEF Inv, Begin, Alone
<1>2. /\ locals' \in [Calls -> [executor : Held, observed : Held, retries : Nat]]
      /\ locals'[c].observed = executorPromise
  BY <1>1 DEF TypeOK, Begin, Held
<1>3. TypeOK' /\ pc'[c] = "awaits"
  BY <1>1, <1>2 DEF TypeOK, Begin
<1>4. ToldTruly(c)'
  BY <1>1, <1>3 DEF ToldTruly, Begin, Recovering
<1>5. HoldsWell(c)'
  BY <1>1, <1>2, <1>3 DEF Inv, OneCurrent, Made, HoldsWell, Recovering, TypeOK, Alone
<1>6. Moves(c)
  BY <1>1, <1>2, <1>3, <1>4, <1>5 DEF Inv, FirstAlone, TypeOK, Moves, Begin
<1> QED BY <1>1, <1>6, MovesKeepInv

LEMMA GetExecutorInv ==
    ASSUME Inv, NEW c \in Calls, GetExecutor(c)
    PROVE  Inv'
<1> DEFINE e == locals[c].observed
<1>1. TypeOK /\ ToldTruly(c) /\ HoldsWell(c) /\ FirstAlone /\ OneCurrent /\ Alone /\ UNCHANGED sent
  BY DEF Inv, GetExecutor, Alone
<1>2. pc[c] = "awaits" /\ sent[c] = 0 /\ e \in Connections /\ Made(e)
  BY <1>1 DEF GetExecutor, HoldsWell, ToldTruly, Made
<1>3. conn[1] # "creating"
  BY <1>1, <1>2 DEF FirstAlone, Made
<1>4. CASE conn[e] = "failed"
  BY <1>1, <1>2, <1>3, <1>4, EndsMoves, MovesKeepInv DEF GetExecutor
<1>5. CASE conn[e] # "failed"
  BY <1>1, <1>2, <1>3, <1>5, AttemptMoves, MovesKeepInv DEF GetExecutor
<1> QED BY <1>4, <1>5

LEMMA CaughtInv ==
    ASSUME Inv, NEW c \in Calls, Caught(c)
    PROVE  Inv'
<1>1. TypeOK /\ ToldTruly(c) /\ pc[c] = "failed" /\ Alone /\ UNCHANGED sent
  BY DEF Inv, Caught, Alone
<1>2. conn[1] # "creating"
  BY <1>1 DEF Inv, FirstAlone
<1>3. CASE closed \/ locals[c].retries >= MaxRetries \/ ~Reconnectable(c)
  <2>1. Ends(c, result[c])
    BY <1>3 DEF Caught
  <2>2. result[c] \in {"none", "value", "error", "unsent", "possibly_sent"}
    BY <1>1 DEF TypeOK
  <2> QED BY <1>1, <1>2, <2>1, <2>2, EndsMoves, MovesKeepInv DEF ToldTruly, Recovering
<1>4. CASE ~(closed \/ locals[c].retries >= MaxRetries \/ ~Reconnectable(c))
  BY <1>1, <1>4, EnterReconnectMoves, MovesKeepInv DEF Caught, Reconnectable, Replayable
<1> QED BY <1>3, <1>4

LEMMA WakesInv ==
    ASSUME Inv, NEW c \in Calls, Wakes(c)
    PROVE  Inv'
<1>1. TypeOK /\ ToldTruly(c) /\ pc[c] = "sleeps" /\ Alone /\ UNCHANGED sent
  BY DEF Inv, Wakes, Alone
<1>2. conn[1] # "creating"
  BY <1>1 DEF Inv, FirstAlone
<1>3. result[c] = "unsent" /\ sent[c] = 0
  BY <1>1 DEF ToldTruly, Recovering
<1>4. CASE closed
  BY <1>1, <1>2, <1>3, <1>4, EndsMoves, MovesKeepInv DEF Wakes
<1>5. CASE ~closed
  BY <1>1, <1>3, <1>5, EnterReconnectMoves, MovesKeepInv DEF Wakes
<1> QED BY <1>4, <1>5

LEMMA LooksInv ==
    ASSUME Inv, NEW c \in Calls, Looks(c)
    PROVE  Inv'
<1>1. TypeOK /\ ToldTruly(c) /\ HoldsWell(c) /\ pc[c] = "looks" /\ Alone /\ UNCHANGED sent
  BY DEF Inv, Looks, Alone
<1>2. conn[1] # "creating"
  BY <1>1 DEF Inv, FirstAlone
<1>3. CASE closed
  BY <1>1, <1>3, ThrowsMoves, MovesKeepInv DEF Looks, Recovering
<1>4. CASE ~closed /\ reconnect.stage # "none"
  <2>1. /\ pc' = [pc EXCEPT ![c] = "joined"]
        /\ locals' = [locals EXCEPT ![c].observed = None]
        /\ result' = result
    BY <1>4 DEF Looks
  <2>2. locals' \in [Calls -> [executor : Held, observed : Held, retries : Nat]]
        /\ locals'[c].executor = locals[c].executor
    BY <1>1, <2>1 DEF TypeOK, Held
  <2>3. TypeOK' /\ pc'[c] = "joined"
    BY <1>1, <2>1, <2>2 DEF TypeOK, Alone, Recovering
  <2>4. ToldTruly(c)' /\ HoldsWell(c)'
    BY <1>1, <1>4, <2>1, <2>2, <2>3 DEF ToldTruly, HoldsWell, Recovering, Spent, Made, Alone
  <2> QED BY <1>1, <1>2, <2>1, <2>3, <2>4, MovesKeepInv DEF TypeOK, Moves
<1>5. CASE ~closed /\ reconnect.stage = "none"
  <2>1. Returns(c, executorPromise)
    BY <1>5 DEF Looks
  <2>2. Made(executorPromise)
    BY <1>1, <1>2 DEF Inv, OneCurrent, Made, TypeOK
  <2> QED BY <1>1, <2>1, <2>2, ReturnsMoves, MovesKeepInv DEF Recovering
<1> QED BY <1>3, <1>4, <1>5

LEMMA RejoinsInv ==
    ASSUME Inv, NEW c \in Calls, Rejoins(c)
    PROVE  Inv'
<1>1. TypeOK /\ HoldsWell(c) /\ Alone /\ UNCHANGED sent
  BY DEF Inv, Rejoins, Alone
<1>2. CASE pc[c] = "rejoins" /\ Returns(c, locals[c].observed)
  BY <1>1, <1>2, ReturnsMoves, MovesKeepInv DEF HoldsWell, Recovering
<1>3. CASE pc[c] = "abandons" /\ Throws(c, "error")
  BY <1>1, <1>3, ThrowsMoves, MovesKeepInv DEF Recovering
<1> QED BY <1>2, <1>3 DEF Rejoins

LEMMA SendsInv ==
    ASSUME Inv, NEW c \in Calls, Sends(c)
    PROVE  Inv'
<1>1. TypeOK /\ ToldTruly(c) /\ pc[c] = "queued" /\ Alone
  BY DEF Inv, Sends, Alone
<1>2. TypeOK' /\ pc'[c] = "sent" /\ sent'[c] = sent[c] + 1
  BY <1>1 DEF TypeOK, Sends
<1>3. ToldTruly(c)' /\ HoldsWell(c)'
  BY <1>1, <1>2 DEF ToldTruly, HoldsWell, Recovering
<1>4. conn[1] # "creating"
  BY <1>1 DEF Inv, FirstAlone
<1> QED BY <1>1, <1>2, <1>3, <1>4, MovesKeepInv DEF TypeOK, Moves, Sends

---------------------------------------------------------------------------
(* The steps of the connections, of reconnect() and of close().            *)

\* A call fails: if it was queued as unsent, if it was on the wire as possibly sent.
CallFails(k) == /\ pc'[k] = "failed"
                /\ result'[k] = IF pc[k] = "queued" THEN "unsent" ELSE "possibly_sent"
                /\ locals'[k] = locals[k] /\ sent'[k] = sent[k]

CallRests(k) == /\ pc'[k] = pc[k] /\ locals'[k] = locals[k]
                /\ result'[k] = result[k] /\ sent'[k] = sent[k]

\* Connections only grow old: what is made stays made, what is spent stays spent.
Ages == \A e \in Connections : /\ conn[e] # "absent" => conn'[e] # "absent"
                               /\ Made(e) => Made(e)'
                               /\ Spent(e) => Spent(e)'

\* A call that fails knows what became of its frame.
LEMMA FailingCallIsWell ==
    ASSUME Inv, NEW k \in Calls, CallFails(k), pc[k] \in {"queued", "sent"},
           Spent(locals[k].executor)'
    PROVE  ToldTruly(k)' /\ HoldsWell(k)'
<1>1. ToldTruly(k)
  BY DEF Inv
<1>2. ToldTruly(k)'
  BY <1>1 DEF CallFails, ToldTruly, Recovering
<1>3. HoldsWell(k)'
  BY DEF CallFails, HoldsWell, Spent, Recovering
<1> QED BY <1>2, <1>3

\* A call that does not move keeps what it knows and holds.
LEMMA RestingCallIsWell ==
    ASSUME Inv, NEW k \in Calls, CallRests(k), Ages,
           reconnect.stage = "none" \/ pc[k] # "joined" \/ reconnect'.stage # "none"
    PROVE  ToldTruly(k)' /\ HoldsWell(k)'
<1>1. ToldTruly(k) /\ HoldsWell(k)
  BY DEF Inv
<1>2. ToldTruly(k)'
  BY <1>1 DEF CallRests, ToldTruly
<1>3. HoldsWell(k)'
  BY <1>1 DEF CallRests, HoldsWell, Ages, Spent, Made
<1> QED BY <1>2, <1>3

\* FailCalls: the calls of R fail, the others rest.
LEMMA FailCallsEffect ==
    ASSUME TypeOK, NEW R \in SUBSET Calls, FailCalls(R)
    PROVE  /\ \A k \in R : CallFails(k)
           /\ \A k \in Calls \ R : CallRests(k)
           /\ pc' \in [Calls -> {"idle", "awaits", "queued", "sent", "done"} \cup Recovering]
           /\ result' \in [Calls -> {"none", "value", "error", "unsent", "possibly_sent"}]
           /\ locals' = locals /\ sent' = sent
<1>1. /\ pc' = [c \in Calls |-> IF c \in R THEN "failed" ELSE pc[c]]
      /\ result' = [c \in Calls |-> IF c \notin R THEN result[c]
                                    ELSE IF pc[c] = "queued" THEN "unsent" ELSE "possibly_sent"]
      /\ locals' = locals /\ sent' = sent
  BY DEF FailCalls
<1>2. (\A k \in R : CallFails(k)) /\ (\A k \in Calls \ R : CallRests(k))
  BY <1>1 DEF CallFails, CallRests
<1>3. pc' \in [Calls -> {"idle", "awaits", "queued", "sent", "done"} \cup Recovering]
  BY <1>1 DEF TypeOK, Recovering
<1>4. result' \in [Calls -> {"none", "value", "error", "unsent", "possibly_sent"}]
  BY <1>1 DEF TypeOK
<1> QED BY <1>1, <1>2, <1>3, <1>4

\* A connection that has been made ends its life, or a part of it: what depends on the
\* connections alone stays true.
LEMMA ConnectionEnds ==
    ASSUME AtLeastOne, Inv, NEW e \in Connections, Made(e),
           NEW s \in {"draining", "closed"}, conn[e] \in Live \/ s = "closed",
           conn' = [conn EXCEPT ![e] = s],
           UNCHANGED <<executorPromise, reconnect, closed, closing>>
    PROVE  /\ conn' \in [Connections -> {"absent", "creating", "open", "draining", "closed", "failed"}]
           /\ Ages /\ Spent(e)'
           /\ OneCurrent' /\ ClosesCurrent'
           /\ (\A k \in Calls : conn[1] = "creating" => CallRests(k)) => FirstAlone'
<1>1. TypeOK /\ FirstAlone /\ OneCurrent /\ ClosesCurrent /\ 1 \in Connections
  BY DEF Inv, AtLeastOne, Connections
<1>2. conn' \in [Connections -> {"absent", "creating", "open", "draining", "closed", "failed"}]
      /\ conn'[e] = s /\ (\A d \in Connections \ {e} : conn'[d] = conn[d])
  BY <1>1 DEF TypeOK
<1>3. Ages /\ Spent(e)'
  BY <1>2 DEF Ages, Made, Spent
<1>4. OneCurrent'
  BY <1>1, <1>2 DEF OneCurrent, Current, Made, Live, TypeOK
<1>5. ClosesCurrent'
  BY <1>1, <1>2 DEF ClosesCurrent, Live, TypeOK
<1>6. ASSUME \A k \in Calls : conn[1] = "creating" => CallRests(k) PROVE FirstAlone'
  BY <1>1, <1>2, <1>6 DEF FirstAlone, CallRests
<1> QED BY <1>2, <1>3, <1>4, <1>5, <1>6

\* Drains and Fails: a connection e that works ends, and calls of it fail.
LEMMA ConnectionFailsInv ==
    ASSUME AtLeastOne, Inv, NEW e \in Connections, conn[e] \in {"open", "draining"},
           NEW R \in SUBSET On(e), FailCalls(R),
           NEW s \in {"draining", "closed"}, conn' = [conn EXCEPT ![e] = s],
           UNCHANGED <<executorPromise, reconnect, closed, closing>>
    PROVE  Inv'
<1>1. TypeOK /\ Made(e) /\ conn[e] \in Live
  BY DEF Inv, Made, Live
<1>2. R \in SUBSET Calls /\ (\A k \in R : pc[k] \in {"queued", "sent"} /\ locals[k].executor = e)
  BY DEF On
<1>3. /\ conn' \in [Connections -> {"absent", "creating", "open", "draining", "closed", "failed"}]
      /\ Ages /\ Spent(e)' /\ OneCurrent' /\ ClosesCurrent'
      /\ (\A k \in Calls : conn[1] = "creating" => CallRests(k)) => FirstAlone'
  BY <1>1, ConnectionEnds
<1>4. /\ \A k \in R : CallFails(k)
      /\ \A k \in Calls \ R : CallRests(k)
      /\ pc' \in [Calls -> {"idle", "awaits", "queued", "sent", "done"} \cup Recovering]
      /\ result' \in [Calls -> {"none", "value", "error", "unsent", "possibly_sent"}]
      /\ locals' = locals /\ sent' = sent
  BY <1>1, <1>2, FailCallsEffect
<1>5. TypeOK'
  BY <1>1, <1>3, <1>4 DEF TypeOK
<1>6. \A k \in R : ToldTruly(k)' /\ HoldsWell(k)'
  BY <1>2, <1>3, <1>4, FailingCallIsWell DEF CallFails
<1>7. \A k \in Calls \ R : ToldTruly(k)' /\ HoldsWell(k)'
  BY <1>3, <1>4, RestingCallIsWell
<1>8. FirstAlone'
  BY <1>2, <1>3, <1>4 DEF Inv, FirstAlone
<1> QED BY <1>3, <1>5, <1>6, <1>7, <1>8 DEF Inv

LEMMA DrainsInv ==
    ASSUME AtLeastOne, Inv, NEW e \in Connections, Drains(e)
    PROVE  Inv'
<1> DEFINE R == {c \in On(e) : pc[c] = "queued"}
           s == IF On(e) = R THEN "closed" ELSE "draining"
<1>1. /\ conn[e] = "open" /\ R \in SUBSET On(e) /\ FailCalls(R)
      /\ s \in {"draining", "closed"} /\ conn' = [conn EXCEPT ![e] = s]
      /\ UNCHANGED <<executorPromise, reconnect, closed, closing>>
  BY DEF Drains
<1> HIDE DEF R, s
<1> QED BY <1>1, ConnectionFailsInv

LEMMA FailsInv ==
    ASSUME AtLeastOne, Inv, NEW e \in Connections, Fails(e)
    PROVE  Inv'
BY ConnectionFailsInv DEF Fails

\* The answer of the last call on a draining connection closes it.
LEMMA AnswersInv ==
    ASSUME AtLeastOne, Inv, NEW c \in Calls, Answers(c)
    PROVE  Inv'
<1> DEFINE e == locals[c].executor
<1>1. TypeOK /\ ToldTruly(c) /\ pc[c] \in {"queued", "sent"} /\ conn[1] # "creating"
  BY DEF Inv, Answers, FirstAlone
<1>2. PICK how \in {"value", "error"} : Ends(c, how)
  BY DEF Answers
<1>3. UNCHANGED <<sent, executorPromise, reconnect, closed, closing>>
  BY DEF Answers
<1>4. CASE conn' = conn
  BY <1>1, <1>2, <1>3, <1>4, EndsMoves, MovesKeepInv DEF Alone
<1>5. CASE conn' # conn
  <2>1. e \in Connections /\ conn[e] = "draining" /\ conn' = [conn EXCEPT ![e] = "closed"]
    <3>1. conn' = [conn EXCEPT ![e] = IF @ = "draining" /\ On(e) = {c} THEN "closed" ELSE @]
      BY DEF Answers
    <3>2. ASSUME e \notin Connections PROVE FALSE
      BY <1>1, <1>5, <3>1, <3>2 DEF TypeOK
    <3>3. ASSUME conn[e] # "draining" PROVE FALSE
      BY <1>1, <1>5, <3>1, <3>3 DEF TypeOK
    <3>4. ASSUME On(e) # {c} PROVE FALSE
      BY <1>1, <1>5, <3>1, <3>4 DEF TypeOK
    <3> QED BY <3>1, <3>2, <3>3, <3>4
  <2>2. Made(e) /\ conn[e] \in Live
    BY <2>1 DEF Made, Live
  <2> HIDE DEF e
  <2>3. /\ conn' \in [Connections -> {"absent", "creating", "open", "draining", "closed", "failed"}]
        /\ Ages /\ OneCurrent' /\ ClosesCurrent'
        /\ (\A k \in Calls : conn[1] = "creating" => CallRests(k)) => FirstAlone'
    BY <1>3, <2>1, <2>2, ConnectionEnds
  <2>4. TypeOK'
    BY <1>1, <1>2, <1>3, <2>3 DEF TypeOK, Ends, NoLocals, Held, None, Recovering
  <2>5. \A k \in Calls \ {c} : ToldTruly(k)' /\ HoldsWell(k)'
    <3> SUFFICES ASSUME NEW k \in Calls, k # c PROVE ToldTruly(k)' /\ HoldsWell(k)'
      OBVIOUS
    <3>1. CallRests(k)
      BY <1>1, <1>2, <1>3 DEF TypeOK, Ends, CallRests
    <3> QED BY <1>3, <2>3, <3>1, RestingCallIsWell
  <2>6. pc'[c] = "done" /\ result'[c] = how /\ sent'[c] = sent[c]
    BY <1>1, <1>2, <1>3 DEF TypeOK, Ends
  <2>7. ToldTruly(c)' /\ HoldsWell(c)'
    BY <1>1, <2>6 DEF ToldTruly, HoldsWell, Recovering
  <2> QED BY <1>1, <2>3, <2>4, <2>5, <2>7 DEF Inv
<1> QED BY <1>4, <1>5

LEMMA FirstInv ==
    ASSUME AtLeastOne, Inv, FirstConnects \/ FirstFails
    PROVE  Inv'
<1>1. TypeOK /\ FirstAlone /\ OneCurrent /\ ClosesCurrent /\ 1 \in Connections
  BY DEF Inv, AtLeastOne, Connections
<1>2. PICK s \in {"open", "failed"} : conn' = [conn EXCEPT ![1] = s]
  BY DEF FirstConnects, FirstFails
<1>3. /\ conn[1] = "creating" /\ executorPromise = 1 /\ reconnect.stage = "none"
      /\ UNCHANGED <<pc, locals, result, sent, executorPromise, reconnect, closed, closing>>
      /\ closing.stage \in {"no", "awaits"}
  BY <1>1 DEF FirstConnects, FirstFails, FirstAlone, call
<1>4. conn' \in [Connections -> {"absent", "creating", "open", "draining", "closed", "failed"}]
      /\ conn'[1] = s /\ (\A d \in Connections \ {1} : conn'[d] = conn[d])
  BY <1>1, <1>2 DEF TypeOK
<1>5. TypeOK'
  BY <1>1, <1>3, <1>4 DEF TypeOK
<1>6. Ages
  BY <1>3, <1>4 DEF Ages, Made, Spent
<1>7. \A k \in Calls : ToldTruly(k)' /\ HoldsWell(k)'
  BY <1>3, <1>6, RestingCallIsWell DEF CallRests
<1>8. FirstAlone'
  BY <1>4 DEF FirstAlone
<1>9. OneCurrent'
  BY <1>1, <1>3, <1>4 DEF OneCurrent, Current, Made, Live
<1>10. ClosesCurrent'
  BY <1>1, <1>3 DEF ClosesCurrent
<1> QED BY <1>5, <1>7, <1>8, <1>9, <1>10 DEF Inv

LEMMA StartReconnectInv ==
    ASSUME AtLeastOne, Inv, NEW c \in Calls, StartReconnect(c)
    PROVE  Inv'
<1>e. PICK e \in Connections : e = locals[c].executor
  BY DEF Inv, StartReconnect, Starts, TypeOK
<1> DEFINE R == On(e)
<1>1. /\ TypeOK /\ FirstAlone /\ OneCurrent /\ ClosesCurrent /\ ToldTruly(c) /\ HoldsWell(c)
      /\ 1 \in Connections
  BY DEF Inv, AtLeastOne, Connections
<1>2. /\ pc[c] = "looks" /\ ~closed /\ reconnect.stage = "none" /\ executorPromise = e
      /\ UNCHANGED <<sent, executorPromise, closed, closing>>
  BY <1>e DEF StartReconnect, Starts
<1>3. /\ e \in Connections /\ Spent(e) /\ conn[1] # "creating"
      /\ R \in SUBSET Calls /\ c \notin R
      /\ \A k \in R : pc[k] \in {"queued", "sent"} /\ locals[k].executor = e
  BY <1>e, <1>1, <1>2 DEF HoldsWell, Recovering, Spent, Made, On, FirstAlone
<1>4. /\ conn' = [conn EXCEPT ![e] = "closed"]
      /\ pc' = [k \in Calls |-> IF k = c THEN "joined"
                                ELSE IF k \in R THEN "failed" ELSE pc[k]]
      /\ result' = [k \in Calls |-> IF k \notin R THEN result[k]
                                    ELSE IF pc[k] = "queued" THEN "unsent" ELSE "possibly_sent"]
      /\ locals' = [locals EXCEPT ![c].observed = None]
      /\ reconnect' = [stage |-> "closing", next |-> None]
  BY <1>e DEF StartReconnect
<1> HIDE DEF R
<1>5. conn' \in [Connections -> {"absent", "creating", "open", "draining", "closed", "failed"}]
      /\ conn'[e] = "closed" /\ (\A d \in Connections \ {e} : conn'[d] = conn[d])
  BY <1>1, <1>3, <1>4 DEF TypeOK
<1>6. /\ locals' \in [Calls -> [executor : Held, observed : Held, retries : Nat]]
      /\ locals'[c].executor = locals[c].executor
      /\ \A k \in Calls \ {c} : locals'[k] = locals[k]
  BY <1>1, <1>4 DEF TypeOK, Held
<1>7. pc' \in [Calls -> {"idle", "awaits", "queued", "sent", "done"} \cup Recovering]
  BY <1>1, <1>4 DEF TypeOK, Recovering
<1>8. result' \in [Calls -> {"none", "value", "error", "unsent", "possibly_sent"}]
  BY <1>1, <1>4 DEF TypeOK
<1>9. reconnect' \in [stage : {"none", "closing", "creating", "threw", "made"}, next : Held]
      /\ reconnect'.stage = "closing"
  BY <1>4 DEF Held
<1>10. TypeOK'
  BY <1>1, <1>2, <1>5, <1>6, <1>7, <1>8, <1>9 DEF TypeOK
<1>11. Ages /\ Spent(e)'
  BY <1>3, <1>5 DEF Ages, Made, Spent
<1>12. \A k \in R : ToldTruly(k)' /\ HoldsWell(k)'
  <2> SUFFICES ASSUME NEW k \in R PROVE ToldTruly(k)' /\ HoldsWell(k)'
    OBVIOUS
  <2>1. CallFails(k)
    BY <1>2, <1>3, <1>4, <1>6 DEF CallFails
  <2>2. Spent(locals[k].executor)'
    BY <1>3, <1>11, <2>1 DEF CallFails
  <2> QED BY <1>3, <2>1, <2>2, FailingCallIsWell
<1>13. \A k \in Calls \ (R \cup {c}) : ToldTruly(k)' /\ HoldsWell(k)'
  <2> SUFFICES ASSUME NEW k \in Calls \ (R \cup {c}) PROVE ToldTruly(k)' /\ HoldsWell(k)'
    OBVIOUS
  <2>1. CallRests(k)
    BY <1>2, <1>4, <1>6 DEF CallRests
  <2> QED BY <1>2, <1>11, <2>1, RestingCallIsWell
<1>14. ToldTruly(c)' /\ HoldsWell(c)'
  <2>1. pc'[c] = "joined" /\ result'[c] = result[c] /\ sent'[c] = sent[c]
    BY <1>2, <1>3, <1>4
  <2>2. ToldTruly(c)'
    BY <1>1, <1>2, <2>1 DEF ToldTruly, Recovering
  <2>3. HoldsWell(c)'
    BY <1>e, <1>6, <1>9, <1>11, <2>1 DEF HoldsWell
  <2> QED BY <2>2, <2>3
<1>15. FirstAlone'
  BY <1>1, <1>3, <1>5 DEF FirstAlone
<1>16. OneCurrent'
  BY <1>1, <1>2, <1>3, <1>5, <1>9 DEF OneCurrent, Current, Made, Live
<1>17. ClosesCurrent'
  BY <1>1, <1>2 DEF ClosesCurrent
<1> QED BY <1>10, <1>12, <1>13, <1>14, <1>15, <1>16, <1>17 DEF Inv

\* No call moves while the reconnect task and the connections do.
LEMMA CallsRest ==
    ASSUME Inv, UNCHANGED call, Ages, reconnect.stage = "none" \/ reconnect'.stage # "none"
    PROVE  \A k \in Calls : ToldTruly(k)' /\ HoldsWell(k)'
BY RestingCallIsWell DEF call, CallRests

\* createExecutor is called for the next connection, or throws at once.
LEMMA CreatesInv ==
    ASSUME AtLeastOne, Inv, Creates
    PROVE  Inv'
<1>1. /\ TypeOK /\ FirstAlone /\ OneCurrent /\ ClosesCurrent /\ 1 \in Connections
      /\ reconnect.stage = "closing" /\ conn[1] # "creating" /\ conn[1] # "absent"
      /\ UNCHANGED <<call, pc, locals, result, sent, executorPromise, closed, closing>>
  BY DEF Inv, AtLeastOne, Connections, Creates, FirstAlone, OneCurrent, call
<1>2. CASE \E e \in Connections : /\ conn[e] = "absent"
                                  /\ conn' = [conn EXCEPT ![e] = "creating"]
                                  /\ reconnect' = [stage |-> "creating", next |-> e]
  <2>1. PICK e \in Connections : /\ conn[e] = "absent"
                                 /\ conn' = [conn EXCEPT ![e] = "creating"]
                                 /\ reconnect' = [stage |-> "creating", next |-> e]
    BY <1>2
  <2>2. /\ conn' \in [Connections -> {"absent", "creating", "open", "draining", "closed", "failed"}]
        /\ conn'[e] = "creating" /\ (\A d \in Connections \ {e} : conn'[d] = conn[d])
        /\ e # 1 /\ e # executorPromise
    BY <1>1, <2>1 DEF TypeOK, OneCurrent, Made
  <2>3. /\ reconnect' \in [stage : {"none", "closing", "creating", "threw", "made"}, next : Held]
        /\ reconnect'.stage = "creating" /\ reconnect'.next = e
    BY <2>1 DEF Held
  <2>4. Ages
    BY <2>1, <2>2 DEF Ages, Made, Spent
  <2>5. OneCurrent'
    BY <1>1, <2>2, <2>3 DEF OneCurrent, Current, Made, Live, TypeOK
  <2>6. ClosesCurrent'
    BY <1>1, <2>2, <2>3 DEF ClosesCurrent, TypeOK
  <2>7. FirstAlone'
    BY <1>1, <2>2 DEF FirstAlone
  <2> QED BY <1>1, <2>2, <2>3, <2>4, <2>5, <2>6, <2>7, CallsRest DEF Inv, TypeOK
<1>3. CASE reconnect' = [stage |-> "threw", next |-> None] /\ UNCHANGED conn
  <2>1. /\ reconnect' \in [stage : {"none", "closing", "creating", "threw", "made"}, next : Held]
        /\ reconnect'.stage = "threw"
    BY <1>3 DEF Held
  <2>2. Ages
    BY <1>3 DEF Ages, Made, Spent
  <2>3. OneCurrent'
    BY <1>1, <1>3, <2>1 DEF OneCurrent, Current, Made, Live
  <2>4. ClosesCurrent' /\ FirstAlone'
    BY <1>1, <1>3, <2>1 DEF ClosesCurrent, FirstAlone
  <2> QED BY <1>1, <1>3, <2>1, <2>2, <2>3, <2>4, CallsRest DEF Inv, TypeOK
<1> QED BY <1>2, <1>3 DEF Creates

\* The connection being made comes or fails; after close() it does not come alive.
LEMMA CreationEndsInv ==
    ASSUME AtLeastOne, Inv, Created \/ CreationFails
    PROVE  Inv'
<1>1. /\ TypeOK /\ FirstAlone /\ OneCurrent /\ ClosesCurrent /\ 1 \in Connections
      /\ reconnect.stage = "creating" /\ conn[1] # "creating"
      /\ UNCHANGED <<call, pc, locals, result, sent, closed, closing>>
  BY DEF Inv, AtLeastOne, Connections, Created, CreationFails, FirstAlone, call
<1>2. PICK e \in Connections : e = reconnect.next /\ conn[e] = "creating"
  BY <1>1 DEF OneCurrent
<1>3. PICK s \in {"open", "closed", "failed"} :
        /\ conn' = [conn EXCEPT ![e] = s]
        /\ s = "open" => Created /\ ~closed
        /\ s = "closed" => Created /\ closed
        /\ s = "failed" => CreationFails
  BY <1>2 DEF Created, CreationFails
<1>4. /\ conn' \in [Connections -> {"absent", "creating", "open", "draining", "closed", "failed"}]
      /\ conn'[e] = s /\ (\A d \in Connections \ {e} : conn'[d] = conn[d])
      /\ e # 1 /\ e # executorPromise
  BY <1>1, <1>2, <1>3 DEF TypeOK, OneCurrent, Made
<1>5. /\ reconnect' \in [stage : {"none", "closing", "creating", "threw", "made"}, next : Held]
      /\ reconnect'.stage = (IF s = "open" THEN "made" ELSE "threw")
      /\ s = "open" => reconnect'.next = e
      /\ executorPromise' = (IF s = "open" THEN e ELSE executorPromise)
  BY <1>1, <1>2, <1>3 DEF TypeOK, Created, CreationFails, Held
<1>6. Ages
  BY <1>2, <1>4 DEF Ages, Made, Spent
<1>7. OneCurrent'
  BY <1>1, <1>2, <1>4, <1>5 DEF OneCurrent, Current, Made, Live
<1>8. ClosesCurrent'
  BY <1>1, <1>3, <1>4, <1>5 DEF ClosesCurrent, TypeOK
<1>9. FirstAlone'
  BY <1>1, <1>4 DEF FirstAlone
<1>10. TypeOK'
  BY <1>1, <1>4, <1>5 DEF TypeOK
<1>11. \A k \in Calls : ToldTruly(k)' /\ HoldsWell(k)'
  BY <1>1, <1>5, <1>6, CallsRest
<1> QED BY <1>7, <1>8, <1>9, <1>10, <1>11 DEF Inv

\* The reconnect is over: those who joined it go on, with the connection it made or without.
LEMMA FinishedInv ==
    ASSUME AtLeastOne, Inv, Finished
    PROVE  Inv'
<1>1. /\ TypeOK /\ FirstAlone /\ OneCurrent /\ ClosesCurrent
      /\ reconnect.stage \in {"made", "threw"} /\ conn[1] # "creating" /\ 1 \in Connections
      /\ UNCHANGED <<result, sent, conn, executorPromise, closed, closing>>
  BY DEF Inv, Finished, FirstAlone, AtLeastOne, Connections
<1>2. /\ pc' = [c \in Calls |-> IF pc[c] # "joined" THEN pc[c]
                                ELSE IF reconnect.stage = "made" THEN "rejoins" ELSE "abandons"]
      /\ locals' = [c \in Calls |-> IF pc[c] = "joined"
                                    THEN [locals[c] EXCEPT !.observed = reconnect.next]
                                    ELSE locals[c]]
      /\ reconnect' = [stage |-> "none", next |-> None]
  BY DEF Finished, NoReconnect
<1>3. \A c \in Calls :
        /\ locals'[c] \in [executor : Held, observed : Held, retries : Nat]
        /\ locals'[c].executor = locals[c].executor
        /\ pc[c] = "joined" => locals'[c].observed = reconnect.next
        /\ pc[c] # "joined" => locals'[c] = locals[c]
  <2> SUFFICES ASSUME NEW c \in Calls
               PROVE  /\ locals'[c] \in [executor : Held, observed : Held, retries : Nat]
                      /\ locals'[c].executor = locals[c].executor
                      /\ pc[c] = "joined" => locals'[c].observed = reconnect.next
                      /\ pc[c] # "joined" => locals'[c] = locals[c]
    OBVIOUS
  <2>1. locals[c] \in [executor : Held, observed : Held, retries : Nat] /\ reconnect.next \in Held
    BY <1>1 DEF TypeOK
  <2> QED BY <1>2, <2>1
<1>4. locals' \in [Calls -> [executor : Held, observed : Held, retries : Nat]]
  BY <1>2, <1>3
<1>5. TypeOK'
  BY <1>1, <1>2, <1>4 DEF TypeOK, Recovering, Held
<1>6. \A c \in Calls : ToldTruly(c)' /\ HoldsWell(c)'
  <2> SUFFICES ASSUME NEW c \in Calls PROVE ToldTruly(c)' /\ HoldsWell(c)'
    OBVIOUS
  <2>1. ToldTruly(c) /\ HoldsWell(c)
    BY DEF Inv
  <2>2. CASE pc[c] = "joined"
    <3>1. pc'[c] = IF reconnect.stage = "made" THEN "rejoins" ELSE "abandons"
      BY <1>2, <2>2
    <3>2. ToldTruly(c)'
      BY <1>1, <2>1, <2>2, <3>1 DEF ToldTruly, Recovering
    <3>3. HoldsWell(c)'
      BY <1>1, <1>3, <2>1, <2>2, <3>1 DEF HoldsWell, Recovering, Spent, Made, OneCurrent
    <3> QED BY <3>2, <3>3
  <2>3. CASE pc[c] # "joined"
    <3>1. pc'[c] = pc[c] /\ locals'[c] = locals[c]
      BY <1>2, <1>3, <2>3
    <3> QED BY <1>1, <2>1, <2>3, <3>1 DEF ToldTruly, HoldsWell, Spent, Made
  <2> QED BY <2>2, <2>3
<1>7. OneCurrent'
  BY <1>1, <1>2 DEF OneCurrent, Current, Made
<1>8. ClosesCurrent' /\ FirstAlone'
  BY <1>1, <1>2 DEF ClosesCurrent, FirstAlone
<1> QED BY <1>5, <1>6, <1>7, <1>8 DEF Inv

LEMMA CloseInv ==
    ASSUME Inv, Close
    PROVE  Inv'
<1>1. /\ TypeOK /\ FirstAlone /\ OneCurrent /\ ClosesCurrent
      /\ UNCHANGED <<call, pc, locals, result, sent, conn, executorPromise, reconnect>>
      /\ closed' = TRUE
      /\ closing' = [stage |-> "awaits", executor |-> executorPromise,
                     awaitsReconnect |-> reconnect.stage # "none"]
  BY DEF Inv, Close, call
<1>2. TypeOK'
  BY <1>1 DEF TypeOK, Held
<1>3. FirstAlone' /\ OneCurrent' /\ ClosesCurrent'
  BY <1>1 DEF FirstAlone, OneCurrent, Current, Made, ClosesCurrent
<1>4. Ages
  BY <1>1 DEF Ages, Made, Spent
<1> QED BY <1>1, <1>2, <1>3, <1>4, CallsRest DEF Inv

\* close() closes the connection that has come, and its calls fail.
LEMMA ClosesExecutorInv ==
    ASSUME AtLeastOne, Inv, ClosesExecutor
    PROVE  Inv'
<1>1. /\ TypeOK /\ FirstAlone /\ OneCurrent /\ ClosesCurrent /\ 1 \in Connections
      /\ closing.stage = "awaits" /\ closing' = [closing EXCEPT !.stage = "closes"]
      /\ UNCHANGED <<executorPromise, reconnect, closed>>
  BY DEF Inv, ClosesExecutor, AtLeastOne, Connections
<1>2. PICK e \in Connections : e = executorPromise /\ e = closing.executor
  BY <1>1 DEF ClosesCurrent, TypeOK
<1>3. Made(e) /\ FailCalls(On(e))
  BY <1>1, <1>2 DEF ClosesExecutor, OneCurrent, Made
<1>4. PICK s \in {"closed", "failed"} : conn' = [conn EXCEPT ![e] = s]
  BY <1>2 DEF ClosesExecutor
<1>5. /\ conn' \in [Connections -> {"absent", "creating", "open", "draining", "closed", "failed"}]
      /\ conn'[e] = s /\ (\A d \in Connections \ {e} : conn'[d] = conn[d])
  BY <1>1, <1>4 DEF TypeOK
<1>6. On(e) \in SUBSET Calls /\ (\A k \in On(e) : pc[k] \in {"queued", "sent"} /\ locals[k].executor = e)
  BY DEF On
<1>7. /\ \A k \in On(e) : CallFails(k)
      /\ \A k \in Calls \ On(e) : CallRests(k)
      /\ pc' \in [Calls -> {"idle", "awaits", "queued", "sent", "done"} \cup Recovering]
      /\ result' \in [Calls -> {"none", "value", "error", "unsent", "possibly_sent"}]
      /\ locals' = locals /\ sent' = sent
  BY <1>1, <1>3, <1>6, FailCallsEffect
<1>8. /\ closing' \in [stage : {"no", "awaits", "closes", "resolved"}, executor : Held,
                       awaitsReconnect : BOOLEAN]
      /\ closing'.stage = "closes" /\ closing'.executor = closing.executor
      /\ closing'.awaitsReconnect = closing.awaitsReconnect
  BY <1>1 DEF TypeOK
<1>9. TypeOK'
  BY <1>1, <1>5, <1>7, <1>8 DEF TypeOK
<1>10. Ages /\ Spent(e)'
  BY <1>3, <1>5 DEF Ages, Made, Spent
<1>11. \A k \in On(e) : ToldTruly(k)' /\ HoldsWell(k)'
  BY <1>6, <1>7, <1>10, FailingCallIsWell DEF CallFails
<1>12. \A k \in Calls \ On(e) : ToldTruly(k)' /\ HoldsWell(k)'
  BY <1>1, <1>7, <1>10, RestingCallIsWell
<1>13. FirstAlone'
  BY <1>1, <1>2, <1>3, <1>5 DEF FirstAlone, Made
<1>14. OneCurrent'
  BY <1>1, <1>3, <1>5 DEF OneCurrent, Current, Made, Live
<1>15. ClosesCurrent'
  BY <1>1, <1>2, <1>5, <1>8 DEF ClosesCurrent, Live
<1> QED BY <1>9, <1>11, <1>12, <1>13, <1>14, <1>15 DEF Inv

LEMMA CloseResolvesInv ==
    ASSUME Inv, CloseResolves
    PROVE  Inv'
<1>1. /\ TypeOK /\ FirstAlone /\ OneCurrent /\ ClosesCurrent
      /\ UNCHANGED <<call, pc, locals, result, sent, conn, executorPromise, reconnect, closed>>
      /\ closing.stage = "closes" /\ (closing.awaitsReconnect => reconnect.stage = "none")
      /\ closing' = [closing EXCEPT !.stage = "resolved"]
  BY DEF Inv, CloseResolves, call
<1>2. /\ closing' \in [stage : {"no", "awaits", "closes", "resolved"}, executor : Held,
                       awaitsReconnect : BOOLEAN]
      /\ closing'.stage = "resolved" /\ closing'.executor = closing.executor
      /\ closing'.awaitsReconnect = closing.awaitsReconnect
  BY <1>1 DEF TypeOK
<1>3. TypeOK'
  BY <1>1, <1>2 DEF TypeOK
<1>4. FirstAlone' /\ OneCurrent'
  BY <1>1 DEF FirstAlone, OneCurrent, Current, Made
<1>5. ClosesCurrent'
  BY <1>1, <1>2 DEF ClosesCurrent
<1>6. Ages
  BY <1>1 DEF Ages, Made, Spent
<1> QED BY <1>1, <1>3, <1>4, <1>5, <1>6, CallsRest DEF Inv

---------------------------------------------------------------------------
LEMMA InitInv == AtLeastOne /\ Init => Inv
<1> SUFFICES ASSUME AtLeastOne, Init PROVE Inv
  OBVIOUS
<1>1. 1 \in Connections
  BY DEF AtLeastOne, Connections
<1>2. TypeOK
  BY <1>1 DEF Init, TypeOK, NoLocals, NoReconnect, Held, None
<1>3. \A c \in Calls : ToldTruly(c) /\ HoldsWell(c)
  BY DEF Init, ToldTruly, HoldsWell, Recovering
<1>4. FirstAlone /\ ClosesCurrent
  BY DEF Init, FirstAlone, ClosesCurrent, NoReconnect
<1>5. OneCurrent
  BY <1>1 DEF Init, OneCurrent, Current, Made, Live, NoReconnect
<1> QED BY <1>2, <1>3, <1>4, <1>5 DEF Inv

LEMMA NextInv == AtLeastOne /\ Inv /\ [Next]_vars => Inv'
<1> SUFFICES ASSUME AtLeastOne, Inv, [Next]_vars PROVE Inv'
  OBVIOUS
<1>1. ASSUME NEW c \in Calls, Begin(c) \/ Step(c) PROVE Inv'
  BY <1>1, BeginInv, GetExecutorInv, SendsInv, AnswersInv, CaughtInv, StartReconnectInv, LooksInv,
     WakesInv, RejoinsInv DEF Step
<1>2. ASSUME NEW e \in Connections, Drains(e) \/ Fails(e) PROVE Inv'
  BY <1>2, DrainsInv, FailsInv
<1>3. ASSUME FirstConnects \/ FirstFails \/ Reconnecting PROVE Inv'
  BY <1>3, FirstInv, CreatesInv, CreationEndsInv, FinishedInv DEF Reconnecting
<1>4. ASSUME Close \/ ClosesExecutor \/ CloseResolves PROVE Inv'
  BY <1>4, CloseInv, ClosesExecutorInv, CloseResolvesInv
<1>5. CASE UNCHANGED vars
  BY <1>5 DEF vars, call, Inv, TypeOK, ToldTruly, HoldsWell, Spent, Made, FirstAlone, OneCurrent,
     Current, ClosesCurrent
<1> QED BY <1>1, <1>2, <1>3, <1>4, <1>5 DEF Next

\* What the calls know of their frames is right.
LEMMA InvNeverReplayed == Inv => NeverReplayed
BY DEF Inv, ToldTruly, NeverReplayed

\* A call that starts a reconnect holds the current connection, which is spent.
LEMMA InvOneLiveConnection == Inv => OneLiveConnection
<1> SUFFICES ASSUME Inv PROVE OneLiveConnection
  OBVIOUS
<1>1. ASSUME NEW c \in Calls, Starts(c) PROVE conn[executorPromise] # "open"
  BY <1>1 DEF Inv, Starts, HoldsWell, Spent, Made, Recovering
<1>2. \A e \in Connections : conn[e] \in Live => e \in {executorPromise, reconnect.next}
  BY DEF Inv, OneCurrent, Current
<1>3. closing.stage = "resolved" => \A e \in Connections : conn[e] \notin Live
  BY DEF Inv, OneCurrent, Current, ClosesCurrent
<1> QED BY <1>1, <1>2, <1>3 DEF OneLiveConnection

\* The state of ReconnectingExecutor keeps its types.
THEOREM TypeCorrect == ASSUME AtLeastOne PROVE Spec => []TypeOK
<1>1. Inv => TypeOK
  BY DEF Inv
<1> QED BY <1>1, InitInv, NextInv, PTL DEF Spec

\* withReconnect and the pipelines replay no command that may have been sent.
THEOREM NothingIsReplayed == ASSUME AtLeastOne PROVE Spec => []NeverReplayed
BY InitInv, NextInv, InvNeverReplayed, PTL DEF Spec

\* reconnect() and close() leave one connection alive, or none.
THEOREM ConnectionsAreKept == ASSUME AtLeastOne PROVE Spec => []OneLiveConnection
BY InitInv, NextInv, InvOneLiveConnection, PTL DEF Spec

\* Nobody waits for a reconnect that is over: a call joins reconnectPromise only while the
\* task behind it runs, and the task's end releases every call that joined.
NobodyJoinsAlone == \A c \in Calls : pc[c] = "joined" => reconnect.stage # "none"

\* No call of ReconnectingExecutor is left waiting for a reconnectPromise that is dropped.
THEOREM JoinersAreReleased == ASSUME AtLeastOne PROVE Spec => []NobodyJoinsAlone
<1>1. Inv => NobodyJoinsAlone
  BY DEF Inv, HoldsWell, NobodyJoinsAlone
<1> QED BY <1>1, InitInv, NextInv, PTL DEF Spec
=============================================================================
