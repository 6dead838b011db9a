------------------------ MODULE NativeFlowControl ------------------------
(***************************************************************************)
(* The request credits of one native connection: native-flow-control.ts.   *)
(*                                                                         *)
(* Every call of the class runs to completion on the JavaScript thread.    *)
(* The one unbounded loop, pump(), is taken one iteration per step: while  *)
(* "pumping" holds no other action is enabled, so the call that started it *)
(* and its pump are still one indivisible operation for everybody else.    *)
(*                                                                         *)
(* A lane queue is the sequence of its unsettled waiters, without the      *)
(* tombstones the array also holds until it is compacted.  phase and       *)
(* laneOf are the caller's side: who waits and who holds a credit.         *)
(***************************************************************************)
EXTENDS Naturals, Sequences, FiniteSets

CONSTANTS Requests,            \* the callers of tryAcquire/wait/release
          Lanes,
          MaxQueuedRequests,   \* constructor argument
          Unlimited,           \* the initial laneQueueLimit, Number.MAX_SAFE_INTEGER
          InitConnectionLimit, \* DEFAULT_MAX_INFLIGHT_PER_CONNECTION
          InitLaneLimit,       \* DEFAULT_MAX_INFLIGHT_PER_LANE
          Limits               \* the limits a server may advertise

ASSUME FlowControlAssumption ==
    /\ IsFiniteSet(Requests)
    /\ MaxQueuedRequests \in Nat
    /\ Unlimited \in Nat
    /\ InitConnectionLimit \in Nat
    /\ InitLaneLimit \in Nat
    /\ InitLaneLimit <= Unlimited
    /\ Limits \subseteq Nat

VARIABLES phase, laneOf,
          activeTotal, activeByLane,
          connectionLimit, laneWindowLimit, laneQueueLimit, laneLimit,
          queues, readyLanes, queuedTotal,
          closed, pumping

limits == <<connectionLimit, laneWindowLimit, laneQueueLimit, laneLimit>>
credits == <<activeTotal, activeByLane>>
waiting == <<queues, readyLanes, queuedTotal>>
vars == <<phase, laneOf, credits, limits, waiting, closed, pumping>>

MinOf(a, b) == IF a <= b THEN a ELSE b

Init == /\ phase = [r \in Requests |-> "idle"]
        /\ laneOf \in [Requests -> Lanes]
        /\ activeTotal = 0
        /\ activeByLane = [l \in Lanes |-> 0]
        /\ connectionLimit = InitConnectionLimit
        /\ laneWindowLimit = InitLaneLimit
        /\ laneQueueLimit = Unlimited
        /\ laneLimit = InitLaneLimit
        /\ queues = [l \in Lanes |-> <<>>]
        /\ readyLanes = <<>>
        /\ queuedTotal = 0
        /\ closed = FALSE
        /\ pumping = FALSE

---------------------------------------------------------------------------
\* The test of tryAcquire.
HasCredit(l) == /\ ~closed
                /\ activeTotal < connectionLimit
                /\ activeByLane[l] < laneLimit

\* activate: count the credit and remember who holds it.
Activate(r, l) == /\ activeTotal' = activeTotal + 1
                  /\ activeByLane' = [activeByLane EXCEPT ![l] = @ + 1]
                  /\ phase' = [phase EXCEPT ![r] = "holding"]

Acquire(r, l) == /\ ~pumping
                 /\ phase[r] = "idle"
                 /\ HasCredit(l)
                 /\ Activate(r, l)
                 /\ laneOf' = [laneOf EXCEPT ![r] = l]
                 /\ UNCHANGED <<limits, waiting, closed, pumping>>

\* wait, which the adapter calls in the step in which tryAcquire failed.  Its
\* rejections (closed, lane queue disabled, queue full) change nothing.
Wait(r, l) == /\ ~pumping
              /\ phase[r] = "idle"
              /\ ~HasCredit(l)
              /\ ~closed
              /\ laneQueueLimit # 0
              /\ queuedTotal < MaxQueuedRequests
              /\ phase' = [phase EXCEPT ![r] = "waiting"]
              /\ laneOf' = [laneOf EXCEPT ![r] = l]
              /\ readyLanes' = IF queues[l] = <<>> THEN Append(readyLanes, l)
                                                   ELSE readyLanes
              /\ queues' = [queues EXCEPT ![l] = Append(@, r)]
              /\ queuedTotal' = queuedTotal + 1
              /\ UNCHANGED <<credits, limits, closed, pumping>>

Without(s, i) == SubSeq(s, 1, i - 1) \o SubSeq(s, i + 1, Len(s))

\* Slip: the lane stays in the rotation without a waiter.
ExpireKeepingLane(r, i, k) ==
    /\ ~pumping
    /\ phase[r] = "waiting"
    /\ queues[laneOf[r]][i] = r
    /\ readyLanes[k] = laneOf[r]
    /\ phase' = [phase EXCEPT ![r] = "idle"]
    /\ queues' = [queues EXCEPT ![laneOf[r]] = Without(@, i)]
    /\ queuedTotal' = queuedTotal - 1
    /\ UNCHANGED <<readyLanes, laneOf, credits, limits, closed, pumping>>

\* The timer of a waiter fires: the i-th of its lane's queue leaves it, and the
\* lane leaves the rotation (it stands there at place k) with its last waiter.
Expire(r, i, k) ==
    LET l == laneOf[r] IN
    /\ ~pumping
    /\ phase[r] = "waiting"
    /\ queues[l][i] = r
    /\ readyLanes[k] = l
    /\ phase' = [phase EXCEPT ![r] = "idle"]
    /\ queues' = [queues EXCEPT ![l] = Without(@, i)]
    /\ readyLanes' = IF Len(queues[l]) = 1 THEN Without(readyLanes, k)
                                           ELSE readyLanes
    /\ queuedTotal' = queuedTotal - 1
    /\ UNCHANGED <<laneOf, credits, limits, closed, pumping>>

\* Slip: release returns early on a closed connection.
ReleaseUnlessClosed(r) ==
    LET l == laneOf[r] IN
    /\ ~pumping
    /\ phase[r] = "holding"
    /\ activeByLane[l] > 0
    /\ phase' = [phase EXCEPT ![r] = "idle"]
    /\ IF closed THEN UNCHANGED credits
       ELSE /\ activeTotal' = activeTotal - 1
            /\ activeByLane' = [activeByLane EXCEPT ![l] = @ - 1]
    /\ pumping' = ~closed
    /\ UNCHANGED <<laneOf, limits, waiting, closed>>

Release(r) ==
    LET l == laneOf[r] IN
    /\ ~pumping
    /\ phase[r] = "holding"
    /\ activeByLane[l] > 0
    /\ phase' = [phase EXCEPT ![r] = "idle"]
    /\ activeTotal' = activeTotal - 1
    /\ activeByLane' = [activeByLane EXCEPT ![l] = @ - 1]
    /\ pumping' = ~closed
    /\ UNCHANGED <<laneOf, limits, waiting, closed>>

\* WINDOW_UPDATE may carry either limit or both.
UpdateLimits(connection, lane) ==
    /\ ~pumping
    /\ connectionLimit' = connection
    /\ laneWindowLimit' = lane
    /\ laneLimit' = MinOf(lane, laneQueueLimit)
    /\ pumping' = TRUE
    /\ UNCHANGED <<phase, laneOf, credits, laneQueueLimit, waiting, closed>>

\* Slip: a wider lane queue limit wakes nobody.
UpdateLaneQueueLimitQuietly(q) ==
    /\ ~pumping
    /\ laneQueueLimit' = q
    /\ laneLimit' = MinOf(laneWindowLimit, q)
    /\ UNCHANGED <<phase, laneOf, credits, connectionLimit, laneWindowLimit,
                   waiting, closed, pumping>>

UpdateLaneQueueLimit(q) ==
    /\ ~pumping
    /\ laneQueueLimit' = q
    /\ laneLimit' = MinOf(laneWindowLimit, q)
    /\ pumping' = TRUE
    /\ UNCHANGED <<phase, laneOf, credits, connectionLimit, laneWindowLimit,
                   waiting, closed>>

RejectWaiters == /\ phase' = [r \in Requests |->
                                IF phase[r] = "waiting" THEN "idle" ELSE phase[r]]
                 /\ queues' = [l \in Lanes |-> <<>>]
                 /\ readyLanes' = <<>>
                 /\ queuedTotal' = 0

CancelQueued == /\ ~pumping
                /\ RejectWaiters
                /\ UNCHANGED <<laneOf, credits, limits, closed, pumping>>

Close == /\ ~pumping
         /\ ~closed
         /\ closed' = TRUE
         /\ RejectWaiters
         /\ UNCHANGED <<laneOf, credits, limits, pumping>>

---------------------------------------------------------------------------
\* nextGrantableLane: the places of the rotation whose lane may be served.  A
\* lane found at its limit goes to the back, so the first k - 1 lanes end up
\* behind the others when the lane at place k is chosen.
\* (Slip: the lane's own limit is not asked.)
HasWaiters(k) == queues[readyLanes[k]] # <<>>

Servable(k) == /\ queues[readyLanes[k]] # <<>>
               /\ activeByLane[readyLanes[k]] < laneLimit

Rotated(k) == SubSeq(readyLanes, k + 1, Len(readyLanes))
                  \o SubSeq(readyLanes, 1, k - 1)

PumpMayGrant == ~closed /\ activeTotal < connectionLimit

\* Slip: the youngest waiter of the lane is taken.
PumpGrantYoungest(k) ==
    LET l == readyLanes[k]
        n == Len(queues[l])
    IN /\ pumping
       /\ PumpMayGrant
       /\ Servable(k)
       /\ \A j \in 1..(k - 1) : ~Servable(j)
       /\ Activate(queues[l][n], l)
       /\ queues' = [queues EXCEPT ![l] = SubSeq(@, 1, n - 1)]
       /\ queuedTotal' = queuedTotal - 1
       /\ readyLanes' = IF n > 1 THEN Append(Rotated(k), l) ELSE Rotated(k)
       /\ UNCHANGED <<laneOf, limits, closed, pumping>>

\* One iteration of pump's loop: the oldest waiter of the first servable lane
\* gets its credit, and the lane goes to the back if others wait on it.
PumpGrant(k) ==
    LET l == readyLanes[k] IN
    /\ pumping
    /\ PumpMayGrant
    /\ Servable(k)
    /\ \A j \in 1..(k - 1) : ~Servable(j)
    /\ Activate(Head(queues[l]), l)
    /\ queues' = [queues EXCEPT ![l] = Tail(@)]
    /\ queuedTotal' = queuedTotal - 1
    /\ readyLanes' = IF Len(queues[l]) > 1 THEN Append(Rotated(k), l)
                                           ELSE Rotated(k)
    /\ UNCHANGED <<laneOf, limits, closed, pumping>>

\* The loop ends: closed, out of credit, or no lane that may be served (a full
\* unsuccessful rotation leaves the order as it was).
PumpEnd == /\ pumping
           /\ ~PumpMayGrant \/ \A k \in 1..Len(readyLanes) : ~Servable(k)
           /\ pumping' = FALSE
           /\ UNCHANGED <<phase, laneOf, credits, limits, waiting, closed>>

Pump == PumpEnd \/ \E k \in 1..Len(readyLanes) : PumpGrant(k)

---------------------------------------------------------------------------
Next == \/ \E r \in Requests, l \in Lanes : Acquire(r, l) \/ Wait(r, l)
        \/ \E r \in Requests : \E i \in 1..Len(queues[laneOf[r]]) :
             \E k \in 1..Len(readyLanes) : Expire(r, i, k)
        \/ \E r \in Requests : Release(r)
        \/ \E connection \in Limits \cup {connectionLimit},
              lane \in Limits \cup {laneWindowLimit} : UpdateLimits(connection, lane)
        \/ \E q \in Limits : UpdateLaneQueueLimit(q)
        \/ CancelQueued
        \/ Close
        \/ Pump

Spec == Init /\ [][Next]_vars

\* A credit comes back: the adapter releases it when the response arrives or, at
\* the latest, when the grace period retires the connection.  release and its
\* pump are one call; only other calls' pumps come between (hence SF).  Nothing
\* is assumed of the waiters' timers.
Fairness == /\ WF_vars(Pump)
            /\ \A r \in Requests : SF_vars(Release(r))

FairSpec == Spec /\ Fairness

---------------------------------------------------------------------------
TypeOK == /\ phase \in [Requests -> {"idle", "waiting", "holding"}]
          /\ laneOf \in [Requests -> Lanes]
          /\ activeTotal \in Nat
          /\ activeByLane \in [Lanes -> Nat]
          /\ connectionLimit \in Nat
          /\ laneWindowLimit \in Nat
          /\ laneQueueLimit \in Nat
          /\ laneLimit \in Nat
          /\ queues \in [Lanes -> Seq(Requests)]
          /\ readyLanes \in Seq(Lanes)
          /\ queuedTotal \in Nat
          /\ closed \in BOOLEAN
          /\ pumping \in BOOLEAN

Holding == {r \in Requests : phase[r] = "holding"}
HoldingOn(l) == {r \in Holding : laneOf[r] = l}
Waiting == {r \in Requests : phase[r] = "waiting"}

\* The two counters that every admission test reads count the requests that
\* really hold a credit, on the connection and on each lane, whatever mixture of
\* grants, releases, timeouts and closes led here (no credit leaks or is freed
\* twice).
CreditsConserved == /\ activeTotal = Cardinality(Holding)
                    /\ \A l \in Lanes : activeByLane[l] = Cardinality(HoldingOn(l))

\* A queue holds waiting requests of its own lane, each once,
QueuesHoldWaiters ==
    \A l \in Lanes : \A i \in 1..Len(queues[l]) :
        /\ phase[queues[l][i]] = "waiting"
        /\ laneOf[queues[l][i]] = l
        /\ \A j \in 1..Len(queues[l]) : queues[l][i] = queues[l][j] => i = j
\* and every waiting request stands in the queue of its lane;
WaitersAreQueued ==
    \A r \in Waiting : \E i \in 1..Len(queues[laneOf[r]]) : queues[laneOf[r]][i] = r
\* the rotation holds lanes with waiters, each once,
ReadyLanesHaveWaiters ==
    \A k \in 1..Len(readyLanes) :
        /\ queues[readyLanes[k]] # <<>>
        /\ \A j \in 1..Len(readyLanes) : readyLanes[k] = readyLanes[j] => k = j
\* and every lane with waiters.
WaitingLanesAreReady ==
    \A l \in Lanes : queues[l] # <<>> => \E k \in 1..Len(readyLanes) : readyLanes[k] = l

QueuesMatchWaiters == /\ QueuesHoldWaiters
                      /\ WaitersAreQueued
                      /\ ReadyLanesHaveWaiters
                      /\ WaitingLanesAreReady
                      /\ queuedTotal = Cardinality(Waiting)

ClosedIsEmpty == closed => Waiting = {}

\* Queues, rotation and queuedTotal agree with who really waits: a waiter outside
\* its queue, or a lane outside the rotation, would never be granted, and a wrong
\* total would refuse (or admit) requests at maxQueuedRequests.  Nobody waits on a
\* closed flow control.
NoWaiterLost == QueuesMatchWaiters /\ ClosedIsEmpty

\* Between operations no request waits while a credit it could use is free.  It
\* also means that tryAcquire's fast path never overtakes a waiter of its lane.
NoLostWakeup == ~pumping => \A l \in Lanes : queues[l] # <<>> => ~HasCredit(l)

\* Round robin over the lanes, first come first served within a lane, and no
\* overtaking by newcomers: whoever waits is served (unless it gives up), however
\* the other requests keep coming back, once the server's limits stay above zero.
EveryWaiterServed ==
    <>[](connectionLimit > 0 /\ laneLimit > 0) =>
        \A r \in Requests : phase[r] = "waiting" ~> phase[r] # "waiting"

\* Each step is a step of the window that has no counters and no rotation: the
\* rotation only ever serves the oldest waiter of a lane, and serves waiters
\* before newcomers.
Window == INSTANCE CreditWindow
ImplementsCreditWindow == Window!Spec
==========================================================================
