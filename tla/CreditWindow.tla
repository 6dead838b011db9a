--------------------------- MODULE CreditWindow ---------------------------
(***************************************************************************)
(* What the native client's flow control promises, without saying how it   *)
(* keeps count: requests hold credits, a request that finds no credit      *)
(* queues on its lane, and a free credit always goes to the head of a      *)
(* waiting lane before anything else happens.  No counter and no lane      *)
(* rotation appears here; NativeFlowControl implements this module.        *)
(***************************************************************************)
EXTENDS Naturals, Sequences, FiniteSets

CONSTANTS Requests, Lanes

VARIABLES phase,      \* phase[r]: "idle", "waiting" for a credit or "holding" one
          laneOf,     \* laneOf[r]: the lane request r last used
          queues,     \* queues[l]: the requests waiting on lane l, oldest first
          connectionLimit,
          laneLimit,
          closed

vars == <<phase, laneOf, queues, connectionLimit, laneLimit, closed>>

Holding == {r \in Requests : phase[r] = "holding"}

HoldingOn(l) == {r \in Holding : laneOf[r] = l}

\* A credit is free for lane l: neither window is exhausted.
Room(l) == /\ ~closed
           /\ Cardinality(Holding) < connectionLimit
           /\ Cardinality(HoldingOn(l)) < laneLimit

Grantable(l) == queues[l] # <<>> /\ Room(l)

\* Nobody who waits could be served: the only states in which a client acts.
Quiet == \A l \in Lanes : ~Grantable(l)

Init == /\ phase = [r \in Requests |-> "idle"]
        /\ laneOf \in [Requests -> Lanes]
        /\ queues = [l \in Lanes |-> <<>>]
        /\ connectionLimit \in Nat
        /\ laneLimit \in Nat
        /\ closed = FALSE

Acquire(r, l) == /\ Quiet /\ Room(l)
                 /\ phase[r] = "idle"
                 /\ phase' = [phase EXCEPT ![r] = "holding"]
                 /\ laneOf' = [laneOf EXCEPT ![r] = l]
                 /\ UNCHANGED <<queues, connectionLimit, laneLimit, closed>>

Enqueue(r, l) == /\ Quiet /\ ~Room(l) /\ ~closed
                 /\ phase[r] = "idle"
                 /\ phase' = [phase EXCEPT ![r] = "waiting"]
                 /\ laneOf' = [laneOf EXCEPT ![r] = l]
                 /\ queues' = [queues EXCEPT ![l] = Append(@, r)]
                 /\ UNCHANGED <<connectionLimit, laneLimit, closed>>

\* Only the oldest waiter of a lane is ever served.
Grant(l) == /\ Grantable(l)
            /\ phase' = [phase EXCEPT ![Head(queues[l])] = "holding"]
            /\ queues' = [queues EXCEPT ![l] = Tail(@)]
            /\ UNCHANGED <<laneOf, connectionLimit, laneLimit, closed>>

\* A waiter gives up; the order of the others is kept.
Abandon(r, i) == LET l == laneOf[r] IN
                 /\ Quiet
                 /\ phase[r] = "waiting"
                 /\ i \in 1..Len(queues[l])
                 /\ queues[l][i] = r
                 /\ phase' = [phase EXCEPT ![r] = "idle"]
                 /\ queues' = [queues EXCEPT ![l] =
                                 SubSeq(@, 1, i - 1) \o SubSeq(@, i + 1, Len(@))]
                 /\ UNCHANGED <<laneOf, connectionLimit, laneLimit, closed>>

Release(r) == /\ Quiet
              /\ phase[r] = "holding"
              /\ phase' = [phase EXCEPT ![r] = "idle"]
              /\ UNCHANGED <<laneOf, queues, connectionLimit, laneLimit, closed>>

SetLimits == /\ Quiet
             /\ connectionLimit' \in Nat
             /\ laneLimit' \in Nat
             /\ UNCHANGED <<phase, laneOf, queues, closed>>

\* Every waiter is turned away at once, for good when the window closes.
TurnAway == /\ Quiet
            /\ phase' = [r \in Requests |->
                           IF phase[r] = "waiting" THEN "idle" ELSE phase[r]]
            /\ queues' = [l \in Lanes |-> <<>>]
            /\ closed' \in {closed, TRUE}
            /\ UNCHANGED <<laneOf, connectionLimit, laneLimit>>

Next == \/ \E r \in Requests, l \in Lanes : Acquire(r, l) \/ Enqueue(r, l)
        \/ \E l \in Lanes : Grant(l)
        \/ \E r \in Requests : Release(r)
        \/ \E r \in Requests : \E i \in 1..Len(queues[laneOf[r]]) : Abandon(r, i)
        \/ SetLimits
        \/ TurnAway

Spec == Init /\ [][Next]_vars
===========================================================================
