---------------------- MODULE NativeFlowControlProofs ----------------------
(***************************************************************************)
(* The flow control's invariants, for any number of requests and lanes and *)
(* any limits the server may advertise, and its refinement of CreditWindow.*)
(***************************************************************************)
EXTENDS NativeFlowControl, FiniteSetTheorems, SequenceTheorems, TLAPS

\* What removing one element leaves of a sequence.
LEMMA WithoutProperties ==
    ASSUME NEW S, NEW s \in Seq(S), NEW i \in 1..Len(s)
    PROVE  /\ Without(s, i) \in Seq(S)
           /\ Len(Without(s, i)) = Len(s) - 1
           /\ \A j \in 1..(Len(s) - 1) :
                Without(s, i)[j] = IF j < i THEN s[j] ELSE s[j + 1]
<1> DEFINE a == SubSeq(s, 1, i - 1)
           b == SubSeq(s, i + 1, Len(s))
<1>1. /\ a \in Seq(S)
      /\ Len(a) = i - 1
      /\ \A j \in 1..(i - 1) : a[j] = s[j]
  OBVIOUS
<1>2. /\ b \in Seq(S)
      /\ Len(b) = Len(s) - i
      /\ \A j \in 1..(Len(s) - i) : b[j] = s[i + j]
  OBVIOUS
<1>3. Without(s, i) = a \o b
  BY DEF Without
<1> HIDE DEF a, b
<1>4. /\ a \o b \in Seq(S)
      /\ Len(a \o b) = Len(a) + Len(b)
      /\ \A j \in 1..(Len(a) + Len(b)) :
           (a \o b)[j] = IF j <= Len(a) THEN a[j] ELSE b[j - Len(a)]
  BY <1>1, <1>2, ConcatProperties
<1> QED BY <1>1, <1>2, <1>3, <1>4

\* The rotation without the lane at place k.
LEMMA RotatedProperties ==
    ASSUME readyLanes \in Seq(Lanes), NEW k \in 1..Len(readyLanes)
    PROVE  /\ Rotated(k) \in Seq(Lanes)
           /\ Len(Rotated(k)) = Len(readyLanes) - 1
           /\ \A j \in 1..(Len(readyLanes) - 1) :
                Rotated(k)[j] = IF j <= Len(readyLanes) - k THEN readyLanes[k + j]
                                ELSE readyLanes[j - (Len(readyLanes) - k)]
<1> DEFINE a == SubSeq(readyLanes, k + 1, Len(readyLanes))
           b == SubSeq(readyLanes, 1, k - 1)
<1>1. /\ a \in Seq(Lanes)
      /\ Len(a) = Len(readyLanes) - k
      /\ \A j \in 1..(Len(readyLanes) - k) : a[j] = readyLanes[k + j]
  OBVIOUS
<1>2. /\ b \in Seq(Lanes)
      /\ Len(b) = k - 1
      /\ \A j \in 1..(k - 1) : b[j] = readyLanes[j]
  OBVIOUS
<1>3. Rotated(k) = a \o b
  BY DEF Rotated
<1> HIDE DEF a, b
<1>4. /\ a \o b \in Seq(Lanes)
      /\ Len(a \o b) = Len(a) + Len(b)
      /\ \A j \in 1..(Len(a) + Len(b)) :
           (a \o b)[j] = IF j <= Len(a) THEN a[j] ELSE b[j - Len(a)]
  BY <1>1, <1>2, ConcatProperties
<1> QED BY <1>1, <1>2, <1>3, <1>4

---------------------------------------------------------------------------
\* None of the five is inductive alone: the counters' types need that they count
\* real holders and waiters, and that no wakeup is lost needs that the rotation
\* covers every lane with waiters.
Inv == TypeOK /\ CreditsConserved /\ QueuesMatchWaiters /\ NoLostWakeup /\ ClosedIsEmpty

LEMMA FiniteSets == /\ IsFiniteSet(Holding) /\ IsFiniteSet(Waiting)
                    /\ \A l : IsFiniteSet(HoldingOn(l))
BY FS_Subset, FlowControlAssumption DEF Holding, Waiting, HoldingOn

\* A request that gets a credit on lane l is one more holder, there and in total.
LEMMA CreditTaken ==
    ASSUME TypeOK, CreditsConserved, NEW r \in Requests, NEW l \in Lanes,
           phase[r] # "holding",
           Activate(r, l),
           laneOf' = [laneOf EXCEPT ![r] = l]
    PROVE  CreditsConserved'
<1>1. Holding' = Holding \cup {r} /\ r \notin Holding
  BY DEF TypeOK, Activate, Holding
<1>2. HoldingOn(l)' = HoldingOn(l) \cup {r} /\ r \notin HoldingOn(l)
  BY <1>1 DEF TypeOK, HoldingOn, Holding
<1>3. ASSUME NEW m \in Lanes, m # l PROVE HoldingOn(m)' = HoldingOn(m)
  BY <1>1, <1>3 DEF TypeOK, HoldingOn, Holding
<1>4. Cardinality(Holding') = Cardinality(Holding) + 1
  BY <1>1, FiniteSets, FS_AddElement
<1>5. Cardinality(HoldingOn(l)') = Cardinality(HoldingOn(l)) + 1
  BY <1>2, FiniteSets, FS_AddElement
<1> QED BY <1>3, <1>4, <1>5 DEF TypeOK, CreditsConserved, Activate

\* A request that stops waiting is one waiter less, and there was one.
LEMMA WaiterGone ==
    ASSUME QueuesMatchWaiters, NEW r \in Requests, phase \in [Requests -> {"idle", "waiting", "holding"}],
           phase[r] = "waiting",
           NEW p \in {"idle", "holding"},
           phase' = [phase EXCEPT ![r] = p]
    PROVE  /\ Cardinality(Waiting') = queuedTotal - 1
           /\ queuedTotal - 1 \in Nat
<1>1. Waiting' = Waiting \ {r} /\ r \in Waiting
  BY DEF Waiting
<1>2. IsFiniteSet(Waiting') /\ Cardinality(Waiting') = Cardinality(Waiting) - 1
  BY <1>1, FiniteSets, FS_RemoveElement
<1>3. Cardinality(Waiting') \in Nat
  BY <1>2, FS_CardinalityType
<1> QED BY <1>2, <1>3 DEF QueuesMatchWaiters

\* The elements of a lane queue are requests, and a waiting one of that lane.
LEMMA QueueElement ==
    ASSUME TypeOK, QueuesHoldWaiters, NEW l \in Lanes, NEW i \in 1..Len(queues[l])
    PROVE  /\ queues[l] \in Seq(Requests)
           /\ queues[l][i] \in Requests
           /\ phase[queues[l][i]] = "waiting"
           /\ laneOf[queues[l][i]] = l
<1>1. queues[l] \in Seq(Requests)
  BY DEF TypeOK
<1>2. queues[l][i] \in Requests
  BY <1>1, ElementOfSeq
<1> QED BY <1>1, <1>2 DEF QueuesHoldWaiters

LEMMA QueueElementsDiffer ==
    ASSUME QueuesHoldWaiters, NEW l \in Lanes,
           NEW i \in 1..Len(queues[l]), NEW j \in 1..Len(queues[l]),
           queues[l][i] = queues[l][j]
    PROVE  i = j
BY DEF QueuesHoldWaiters

LEMMA InitInv == Init => Inv
<1> SUFFICES ASSUME Init PROVE Inv
  OBVIOUS
<1>1. TypeOK
  <2>1. <<>> \in Seq(Requests) /\ <<>> \in Seq(Lanes)
    BY EmptySeq
  <2> QED BY <2>1, FlowControlAssumption DEF Init, TypeOK
<1>2. Holding = {} /\ Waiting = {} /\ \A l : HoldingOn(l) = {}
  BY DEF Init, Holding, Waiting, HoldingOn
<1>3. CreditsConserved
  BY <1>2, FS_EmptySet DEF Init, CreditsConserved
<1>4. QueuesMatchWaiters
  BY <1>2, FS_EmptySet DEF Init, QueuesMatchWaiters, QueuesHoldWaiters, WaitersAreQueued,
     ReadyLanesHaveWaiters, WaitingLanesAreReady
<1> QED BY <1>1, <1>2, <1>3, <1>4 DEF Inv, NoLostWakeup, ClosedIsEmpty, Init

LEMMA AcquireInv ==
    ASSUME Inv, NEW r \in Requests, NEW l \in Lanes, Acquire(r, l)
    PROVE  Inv'
<1> USE DEF Inv
<1>1. TypeOK'
  BY DEF TypeOK, Acquire, Activate, limits, waiting
<1>2. CreditsConserved'
  BY CreditTaken DEF Acquire
<1>3. Waiting' = Waiting /\ \A s \in Waiting : laneOf'[s] = laneOf[s] /\ phase'[s] = phase[s]
  BY DEF TypeOK, Acquire, Activate, Waiting
<1>4. QueuesMatchWaiters'
  <2>1. QueuesHoldWaiters'
    BY <1>3, SMTT(30) DEF TypeOK, QueuesMatchWaiters, QueuesHoldWaiters, Acquire, Activate, waiting, Waiting
  <2>2. WaitersAreQueued'
    BY <1>3 DEF QueuesMatchWaiters, WaitersAreQueued, Acquire, waiting
  <2> QED BY <1>3, <2>1, <2>2 DEF QueuesMatchWaiters, ReadyLanesHaveWaiters, WaitingLanesAreReady,
             Acquire, waiting
<1>5. NoLostWakeup'
  BY DEF TypeOK, NoLostWakeup, HasCredit, Acquire, Activate, limits, waiting
<1>6. ClosedIsEmpty'
  BY <1>3 DEF ClosedIsEmpty, Acquire
<1> QED BY <1>1, <1>2, <1>4, <1>5, <1>6

LEMMA WaitInv ==
    ASSUME Inv, NEW r \in Requests, NEW l \in Lanes, Wait(r, l)
    PROVE  Inv'
<1> USE DEF Inv
<1>1. TypeOK'
  BY DEF TypeOK, Wait, credits, limits
<1>2. /\ Len(queues'[l]) = Len(queues[l]) + 1
      /\ queues'[l][Len(queues[l]) + 1] = r
      /\ \A i \in 1..Len(queues[l]) : queues'[l][i] = queues[l][i]
      /\ \A m \in Lanes : m # l => queues'[m] = queues[m]
      /\ Len(queues[l]) \in Nat
      /\ \A m \in Lanes : queues[m] # <<>> => queues'[m] # <<>>
  <2>1. queues[l] \in Seq(Requests) /\ queues'[l] = Append(queues[l], r)
    BY DEF TypeOK, Wait
  <2>2. \A m \in Lanes : m # l => queues'[m] = queues[m]
    BY DEF TypeOK, Wait
  <2>3. queues'[l] # <<>>
    BY <2>1
  <2>4. /\ Len(queues'[l]) = Len(queues[l]) + 1
        /\ queues'[l][Len(queues[l]) + 1] = r
        /\ \A i \in 1..Len(queues[l]) : queues'[l][i] = queues[l][i]
        /\ Len(queues[l]) \in Nat
    BY <2>1
  <2> QED BY <2>2, <2>3, <2>4
<1>3. Waiting' = Waiting \cup {r} /\ r \notin Waiting /\ Holding' = Holding
  BY DEF TypeOK, Wait, Waiting, Holding
<1>4. CreditsConserved'
  <2>1. ASSUME NEW m \in Lanes PROVE HoldingOn(m)' = HoldingOn(m)
    BY <1>3 DEF TypeOK, Wait, HoldingOn, Holding
  <2> QED BY <1>3, <2>1 DEF CreditsConserved, Wait, credits
<1>5. QueuesHoldWaiters'
  <2> SUFFICES ASSUME NEW m \in Lanes, NEW i \in 1..Len(queues'[m])
               PROVE  /\ phase'[queues'[m][i]] = "waiting"
                      /\ laneOf'[queues'[m][i]] = m
                      /\ \A j \in 1..Len(queues'[m]) : queues'[m][i] = queues'[m][j] => i = j
    BY DEF QueuesHoldWaiters
  <2>1. CASE m # l
    <3>0. queues'[m] = queues[m]
      BY <1>2, <2>1
    <3>1. queues[m][i] \in Requests /\ queues[m][i] # r
      BY <3>0, QueueElement DEF QueuesMatchWaiters, Wait
    <3>2. /\ phase'[queues[m][i]] = phase[queues[m][i]]
          /\ laneOf'[queues[m][i]] = laneOf[queues[m][i]]
      BY <3>1 DEF TypeOK, Wait
    <3> QED BY <3>0, <3>1, <3>2 DEF QueuesMatchWaiters, QueuesHoldWaiters
  <2>2. CASE m = l
    <3>0. /\ i \in 1..Len(queues[l]) + 1
          /\ Len(queues[l]) \in Nat
          /\ queues'[l][Len(queues[l]) + 1] = r
          /\ \A j \in 1..Len(queues[l]) : queues'[l][j] = queues[l][j]
          /\ Len(queues'[l]) = Len(queues[l]) + 1
      BY <1>2, <2>2
    <3>1. \A j \in 1..Len(queues[l]) :
             /\ queues[l][j] \in Requests /\ queues[l][j] # r
             /\ phase[queues[l][j]] = "waiting" /\ laneOf[queues[l][j]] = l
      BY QueueElement DEF QueuesMatchWaiters, QueuesHoldWaiters, Wait
    <3>2. phase'[r] = "waiting" /\ laneOf'[r] = l
      BY DEF TypeOK, Wait
    <3>3. \A s \in Requests : s # r => phase'[s] = phase[s] /\ laneOf'[s] = laneOf[s]
      BY DEF TypeOK, Wait
    <3>4. /\ phase'[queues'[l][i]] = "waiting"
          /\ laneOf'[queues'[l][i]] = l
      <4>1. CASE i = Len(queues[l]) + 1
        BY <3>0, <3>2, <4>1
      <4>2. CASE i # Len(queues[l]) + 1
        <5>1. i \in 1..Len(queues[l])
          BY <3>0, <4>2
        <5> QED BY <3>0, <3>1, <3>3, <5>1
      <4> QED BY <4>1, <4>2
    <3>5. ASSUME NEW j \in 1..Len(queues'[l]), queues'[l][i] = queues'[l][j]
          PROVE  i = j
      <4>1. j \in 1..Len(queues[l]) + 1
        BY <3>0
      <4>2. CASE i = Len(queues[l]) + 1 /\ j # i
        BY <3>0, <3>1, <3>5, <4>1, <4>2
      <4>3. CASE j = Len(queues[l]) + 1 /\ j # i
        BY <3>0, <3>1, <3>5, <4>3
      <4>4. CASE i # Len(queues[l]) + 1 /\ j # Len(queues[l]) + 1
        <5>1. i \in 1..Len(queues[l]) /\ j \in 1..Len(queues[l])
          BY <3>0, <4>1, <4>4
        <5>2. queues[l][i] = queues[l][j]
          BY <3>0, <3>5, <5>1
        <5> QED BY <5>1, <5>2, QueueElementsDiffer DEF QueuesMatchWaiters
      <4> QED BY <4>2, <4>3, <4>4
    <3> QED BY <2>2, <3>4, <3>5
  <2> QED BY <2>1, <2>2
<1>6. WaitersAreQueued'
  <2> SUFFICES ASSUME NEW s \in Waiting'
               PROVE \E i \in 1..Len(queues'[laneOf'[s]]) : queues'[laneOf'[s]][i] = s
    BY DEF WaitersAreQueued
  <2>1. CASE s = r
    BY <1>2, <2>1 DEF TypeOK, Wait
  <2>2. CASE s # r
    <3>1. s \in Waiting /\ laneOf'[s] = laneOf[s] /\ laneOf[s] \in Lanes
      BY <1>3, <2>2 DEF TypeOK, Wait, Waiting
    <3>2. PICK i \in 1..Len(queues[laneOf[s]]) : queues[laneOf[s]][i] = s
      BY <3>1 DEF QueuesMatchWaiters, WaitersAreQueued
    <3>3. i \in 1..Len(queues'[laneOf[s]]) /\ queues'[laneOf[s]][i] = s
      BY <1>2, <3>1, <3>2
    <3> QED BY <3>1, <3>3
  <2> QED BY <2>1, <2>2
<1>7. ReadyLanesHaveWaiters' /\ WaitingLanesAreReady'
  <2>1. CASE queues[l] = <<>>
    <3>1. /\ Len(readyLanes') = Len(readyLanes) + 1
          /\ readyLanes'[Len(readyLanes) + 1] = l
          /\ \A k \in 1..Len(readyLanes) :
               readyLanes'[k] = readyLanes[k] /\ readyLanes[k] \in Lanes /\ readyLanes[k] # l
          /\ Len(readyLanes) \in Nat
      <4>1. readyLanes' = Append(readyLanes, l) /\ readyLanes \in Seq(Lanes)
        BY <2>1 DEF TypeOK, Wait
      <4>2. \A k \in 1..Len(readyLanes) : readyLanes[k] # l
        BY <2>1 DEF QueuesMatchWaiters, ReadyLanesHaveWaiters
      <4> QED BY <4>1, <4>2
    <3>2. queues'[l] # <<>>
      BY <1>2, EmptySeq
    <3>3. ReadyLanesHaveWaiters'
      BY <1>2, <3>1, <3>2, SMTT(30) DEF QueuesMatchWaiters, ReadyLanesHaveWaiters
    <3>4. WaitingLanesAreReady'
      BY <1>2, <3>1 DEF QueuesMatchWaiters, WaitingLanesAreReady
    <3> QED BY <3>3, <3>4
  <2>2. CASE queues[l] # <<>>
    <3>1. readyLanes' = readyLanes
      BY <2>2 DEF Wait
    <3>2. \A k \in 1..Len(readyLanes) : readyLanes[k] \in Lanes
      BY DEF TypeOK
    <3>3. ReadyLanesHaveWaiters'
      BY <1>2, <3>1, <3>2 DEF QueuesMatchWaiters, ReadyLanesHaveWaiters
    <3>4. WaitingLanesAreReady'
      BY <1>2, <2>2, <3>1 DEF QueuesMatchWaiters, WaitingLanesAreReady
    <3> QED BY <3>3, <3>4
  <2> QED BY <2>1, <2>2
<1>8. Cardinality(Waiting') = Cardinality(Waiting) + 1
  BY <1>3, FiniteSets, FS_AddElement
<1>9. QueuesMatchWaiters'
  BY <1>5, <1>6, <1>7, <1>8 DEF QueuesMatchWaiters, Wait
<1>10. NoLostWakeup'
  BY <1>2 DEF NoLostWakeup, HasCredit, Wait, credits, limits
<1> QED BY <1>1, <1>4, <1>9, <1>10 DEF ClosedIsEmpty, Wait

\* Releasing a credit never drives a counter below zero.
LEMMA ReleaseInv ==
    ASSUME Inv, NEW r \in Requests, Release(r)
    PROVE  Inv'
<1> USE DEF Inv
<1> DEFINE l == laneOf[r]
<1>1. Holding' = Holding \ {r} /\ r \in Holding /\ Waiting' = Waiting
  BY DEF TypeOK, Release, Holding, Waiting
<1>2. l \in Lanes /\ HoldingOn(l)' = HoldingOn(l) \ {r} /\ r \in HoldingOn(l)
  BY <1>1 DEF TypeOK, Release, HoldingOn
<1>3. ASSUME NEW m \in Lanes, m # l PROVE HoldingOn(m)' = HoldingOn(m)
  BY <1>1, <1>3 DEF TypeOK, Release, HoldingOn
<1>4. /\ Cardinality(Holding') = Cardinality(Holding) - 1
      /\ Cardinality(HoldingOn(l)') = Cardinality(HoldingOn(l)) - 1
      /\ IsFiniteSet(Holding') /\ IsFiniteSet(HoldingOn(l)')
  BY <1>1, <1>2, FiniteSets, FS_RemoveElement
<1>5. Cardinality(Holding') \in Nat /\ Cardinality(HoldingOn(l)') \in Nat
  BY <1>4, FS_CardinalityType
<1>6. TypeOK'
  BY <1>2, <1>4, <1>5 DEF TypeOK, CreditsConserved, Release, limits, waiting
<1>7. CreditsConserved'
  BY <1>2, <1>3, <1>4 DEF TypeOK, CreditsConserved, Release
<1>8. QueuesMatchWaiters'
  <2>1. QueuesHoldWaiters'
    BY DEF TypeOK, QueuesMatchWaiters, QueuesHoldWaiters, Release, waiting
  <2>2. WaitersAreQueued'
    BY <1>1 DEF QueuesMatchWaiters, WaitersAreQueued, Release, waiting
  <2> QED BY <1>1, <2>1, <2>2 DEF QueuesMatchWaiters, ReadyLanesHaveWaiters,
             WaitingLanesAreReady, Release, waiting
<1>9. NoLostWakeup'
  <2>1. CASE closed
    BY <2>1 DEF NoLostWakeup, HasCredit, Release
  <2>2. CASE ~closed
    BY <2>2 DEF NoLostWakeup, Release
  <2> QED BY <2>1, <2>2 DEF TypeOK
<1> QED BY <1>1, <1>6, <1>7, <1>8, <1>9 DEF ClosedIsEmpty, Release

\* New limits change neither holders nor waiters; the pump restores NoLostWakeup.
LEMMA LimitsInv ==
    ASSUME Inv,
           UNCHANGED <<phase, laneOf, credits, waiting, closed>>,
           pumping' = TRUE,
           connectionLimit' \in Nat, laneWindowLimit' \in Nat,
           laneQueueLimit' \in Nat, laneLimit' \in Nat
    PROVE  Inv'
<1> USE DEF Inv
<1>1. TypeOK'
  BY DEF TypeOK, credits, waiting
<1>2. Holding' = Holding /\ Waiting' = Waiting /\ \A l : HoldingOn(l)' = HoldingOn(l)
  BY DEF Holding, Waiting, HoldingOn
<1>3. CreditsConserved'
  BY <1>2 DEF CreditsConserved, credits
<1>4. QueuesMatchWaiters'
  BY <1>2 DEF QueuesMatchWaiters, QueuesHoldWaiters, WaitersAreQueued, ReadyLanesHaveWaiters,
     WaitingLanesAreReady, waiting
<1> QED BY <1>1, <1>2, <1>3, <1>4 DEF NoLostWakeup, ClosedIsEmpty

LEMMA PumpEndInv == Inv /\ PumpEnd => Inv'
<1> SUFFICES ASSUME Inv, PumpEnd PROVE Inv'
  OBVIOUS
<1> USE DEF Inv
<1>1. TypeOK'
  BY DEF TypeOK, PumpEnd, credits, limits, waiting
<1>2. Holding' = Holding /\ Waiting' = Waiting /\ \A l : HoldingOn(l)' = HoldingOn(l)
  BY DEF Holding, Waiting, HoldingOn, PumpEnd
<1>3. CreditsConserved'
  BY <1>2 DEF CreditsConserved, credits, PumpEnd
<1>4. QueuesMatchWaiters'
  BY <1>2 DEF QueuesMatchWaiters, QueuesHoldWaiters, WaitersAreQueued, ReadyLanesHaveWaiters,
     WaitingLanesAreReady, waiting, PumpEnd
<1>5. \A l \in Lanes : queues[l] # <<>> => ~HasCredit(l)
  BY DEF QueuesMatchWaiters, WaitingLanesAreReady, PumpEnd, PumpMayGrant, Servable, HasCredit
<1>6. NoLostWakeup'
  BY <1>5 DEF NoLostWakeup, HasCredit, PumpEnd, credits, limits, waiting
<1> QED BY <1>1, <1>2, <1>3, <1>4, <1>6 DEF ClosedIsEmpty, PumpEnd

\* Turning every waiter away leaves the holders and their credits alone.
LEMMA RejectWaitersInv ==
    ASSUME Inv, RejectWaiters, UNCHANGED <<laneOf, credits, limits, pumping>>,
           closed' \in BOOLEAN
    PROVE  Inv'
<1> USE DEF Inv
<1>1. TypeOK'
  <2>1. <<>> \in Seq(Requests) /\ <<>> \in Seq(Lanes)
    BY EmptySeq
  <2>2. phase' \in [Requests -> {"idle", "waiting", "holding"}]
    BY DEF TypeOK, RejectWaiters
  <2> QED BY <2>1, <2>2 DEF TypeOK, RejectWaiters, credits, limits
<1>2. Holding' = Holding /\ Waiting' = {}
  BY DEF TypeOK, RejectWaiters, Holding, Waiting
<1>3. \A l : HoldingOn(l)' = HoldingOn(l)
  BY <1>2 DEF HoldingOn
<1>4. CreditsConserved'
  BY <1>2, <1>3 DEF CreditsConserved, credits
<1>5. QueuesMatchWaiters'
  <2>1. Len(<<>>) = 0
    BY EmptySeq
  <2> QED BY <1>2, <2>1, FS_EmptySet DEF RejectWaiters, QueuesMatchWaiters, QueuesHoldWaiters,
             WaitersAreQueued, ReadyLanesHaveWaiters, WaitingLanesAreReady
<1> QED BY <1>1, <1>2, <1>4, <1>5 DEF RejectWaiters, NoLostWakeup, ClosedIsEmpty

\* The timer of a waiter takes it out of its queue, and its lane out of the
\* rotation when it was the last; nobody else moves.
LEMMA ExpireInv ==
    ASSUME Inv, NEW r \in Requests, NEW i \in 1..Len(queues[laneOf[r]]),
           NEW k \in 1..Len(readyLanes), Expire(r, i, k)
    PROVE  Inv'
<1> USE DEF Inv
<1>0. PICK l \in Lanes : l = laneOf[r]
  BY DEF TypeOK
<1>1. /\ laneOf' = laneOf
      /\ queues[l] \in Seq(Requests)
      /\ queues[l][i] = r
      /\ queues' = [queues EXCEPT ![l] = Without(queues[l], i)]
      /\ queues'[l] = Without(queues[l], i)
      /\ \A m \in Lanes : m # l => queues'[m] = queues[m]
  BY <1>0 DEF TypeOK, Expire
<1>2. /\ queues'[l] \in Seq(Requests)
      /\ Len(queues'[l]) = Len(queues[l]) - 1
      /\ \A j \in 1..(Len(queues[l]) - 1) :
           queues'[l][j] = IF j < i THEN queues[l][j] ELSE queues[l][j + 1]
  <2>1. i \in 1..Len(queues[l])
    BY <1>0
  <2> DEFINE w == Without(queues[l], i)
  <2>2. /\ w \in Seq(Requests)
        /\ Len(w) = Len(queues[l]) - 1
        /\ \A j \in 1..(Len(queues[l]) - 1) :
             w[j] = IF j < i THEN queues[l][j] ELSE queues[l][j + 1]
    BY <1>1, <2>1, WithoutProperties
  <2> HIDE DEF w
  <2>3. queues'[l] = w
    BY <1>1 DEF w
  <2> QED BY <2>2, <2>3
<1>3. /\ Waiting' = Waiting \ {r} /\ r \in Waiting /\ Holding' = Holding
      /\ \A s \in Requests : s # r => phase'[s] = phase[s]
      /\ \A s \in Waiting' : s # r
  BY DEF TypeOK, Expire, Waiting, Holding
<1>4. queuedTotal' = Cardinality(Waiting') /\ queuedTotal' \in Nat
  BY WaiterGone DEF TypeOK, Expire
<1>5. /\ readyLanes \in Seq(Lanes) /\ readyLanes[k] = l
      /\ Without(readyLanes, k) \in Seq(Lanes)
      /\ Len(Without(readyLanes, k)) = Len(readyLanes) - 1
      /\ \A j \in 1..(Len(readyLanes) - 1) :
           Without(readyLanes, k)[j] = IF j < k THEN readyLanes[j] ELSE readyLanes[j + 1]
  <2>1. readyLanes \in Seq(Lanes) /\ readyLanes[k] = l
    BY <1>0 DEF TypeOK, Expire
  <2> QED BY <2>1, WithoutProperties
<1>6. TypeOK'
  <2>1. phase' \in [Requests -> {"idle", "waiting", "holding"}]
    BY DEF TypeOK, Expire
  <2>2. queues' \in [Lanes -> Seq(Requests)]
    BY <1>1, <1>2 DEF TypeOK
  <2>3. readyLanes' \in Seq(Lanes)
    BY <1>5 DEF Expire
  <2> QED BY <1>4, <2>1, <2>2, <2>3 DEF TypeOK, Expire, credits, limits
<1>7. CreditsConserved'
  <2>1. \A m : HoldingOn(m)' = HoldingOn(m)
    BY <1>1, <1>3 DEF HoldingOn
  <2> QED BY <1>3, <2>1 DEF CreditsConserved, Expire, credits
<1>8. QueuesHoldWaiters'
  <2> SUFFICES ASSUME NEW m \in Lanes, NEW j \in 1..Len(queues'[m])
               PROVE  /\ phase'[queues'[m][j]] = "waiting"
                      /\ laneOf'[queues'[m][j]] = m
                      /\ \A n \in 1..Len(queues'[m]) : queues'[m][j] = queues'[m][n] => j = n
    BY DEF QueuesHoldWaiters
  <2>1. CASE m # l
    <3>0. queues'[m] = queues[m]
      BY <1>1, <2>1
    <3>1. queues[m][j] \in Requests /\ queues[m][j] # r
      BY <1>0, <2>1, <3>0, QueueElement DEF QueuesMatchWaiters
    <3> QED BY <1>1, <1>3, <3>0, <3>1 DEF QueuesMatchWaiters, QueuesHoldWaiters
  <2>2. CASE m = l
    <3> DEFINE old(n) == IF n < i THEN n ELSE n + 1
    <3>1. \A n \in 1..Len(queues'[l]) :
            /\ old(n) \in 1..Len(queues[l]) /\ old(n) # i
            /\ queues'[l][n] = queues[l][old(n)]
      <4> TAKE n \in 1..Len(queues'[l])
      <4>1. i \in 1..Len(queues[l]) /\ Len(queues[l]) \in Nat
        BY <1>0, <1>1
      <4>2. n \in 1..(Len(queues[l]) - 1)
        BY <1>2
      <4>3. old(n) \in 1..Len(queues[l]) /\ old(n) # i
        BY <4>1, <4>2
      <4>4. queues'[l][n] = queues[l][old(n)]
        BY <1>2, <4>2
      <4> QED BY <4>3, <4>4
    <3> HIDE DEF old
    <3>2. queues'[l][j] \in Requests /\ queues'[l][j] # r
      <4>1. old(j) \in 1..Len(queues[l]) /\ old(j) # i /\ queues'[l][j] = queues[l][old(j)]
        BY <2>2, <3>1
      <4>2. queues[l][old(j)] \in Requests
        BY <4>1, QueueElement DEF QueuesMatchWaiters
      <4>3. queues[l][old(j)] # queues[l][i]
        BY <1>0, <4>1 DEF QueuesMatchWaiters, QueuesHoldWaiters
      <4> QED BY <1>1, <4>1, <4>2, <4>3
    <3>3. phase[queues'[l][j]] = "waiting" /\ laneOf[queues'[l][j]] = l
      BY <2>2, <3>1, QueueElement DEF QueuesMatchWaiters
    <3>4. ASSUME NEW n \in 1..Len(queues'[l]), queues'[l][j] = queues'[l][n] PROVE j = n
      <4>0. queues[l][old(j)] = queues[l][old(n)]
        BY <2>2, <3>1, <3>4
      <4>1. old(j) = old(n)
        BY <2>2, <3>1, <4>0, QueueElementsDiffer DEF QueuesMatchWaiters
      <4> QED BY <1>0, <1>1, <1>2, <2>2, <4>1 DEF old
    <3> QED BY <1>1, <1>3, <2>2, <3>2, <3>3, <3>4
  <2> QED BY <2>1, <2>2
<1>9. WaitersAreQueued'
  <2> SUFFICES ASSUME NEW s \in Waiting'
               PROVE \E j \in 1..Len(queues'[laneOf[s]]) : queues'[laneOf[s]][j] = s
    BY <1>1 DEF WaitersAreQueued
  <2>1. s \in Waiting /\ s # r /\ laneOf[s] \in Lanes
    BY <1>3 DEF TypeOK, Waiting
  <2>2. PICK j \in 1..Len(queues[laneOf[s]]) : queues[laneOf[s]][j] = s
    BY <2>1 DEF QueuesMatchWaiters, WaitersAreQueued
  <2>3. CASE laneOf[s] # l
    BY <1>1, <2>1, <2>2, <2>3
  <2>4. CASE laneOf[s] = l
    <3>1. CASE j < i
      BY <1>0, <1>1, <1>2, <2>2, <2>4, <3>1, SMTT(30)
    <3>2. CASE j > i
      <4>1. j - 1 \in 1..(Len(queues[l]) - 1) /\ ~(j - 1 < i) /\ (j - 1) + 1 = j
        BY <1>0, <1>1, <2>2, <2>4, <3>2
      <4>2. queues'[l][j - 1] = s
        BY <1>2, <2>2, <2>4, <4>1
      <4> QED BY <1>2, <2>4, <4>1, <4>2
    <3> QED BY <1>0, <1>1, <2>1, <2>2, <2>4, <3>1, <3>2
  <2> QED BY <2>3, <2>4
<1>10. ReadyLanesHaveWaiters' /\ WaitingLanesAreReady'
  <2>0. Len(queues[l]) \in Nat /\ Len(queues[l]) >= 1
    BY <1>0, <1>1
  <2>1. CASE Len(queues[l]) = 1
    <3>1. queues'[l] = <<>>
      BY <1>2, <2>1, EmptySeq
    <3>2. readyLanes' = Without(readyLanes, k)
      BY <1>0, <2>1 DEF Expire
    <3> DEFINE old(n) == IF n < k THEN n ELSE n + 1
    <3>3. \A n \in 1..Len(readyLanes') :
            /\ old(n) \in 1..Len(readyLanes) /\ old(n) # k
            /\ readyLanes'[n] = readyLanes[old(n)]
      BY <1>5, <3>2
    <3> HIDE DEF old
    <3>4. \A n \in 1..Len(readyLanes') : readyLanes'[n] # l /\ readyLanes'[n] \in Lanes
      BY <1>5, <3>3 DEF QueuesMatchWaiters, ReadyLanesHaveWaiters
    <3>5. \A n \in 1..Len(readyLanes') : queues'[readyLanes'[n]] # <<>>
      BY <1>1, <3>3, <3>4 DEF QueuesMatchWaiters, ReadyLanesHaveWaiters
    <3>6. ASSUME NEW n \in 1..Len(readyLanes'), NEW j \in 1..Len(readyLanes'),
                 readyLanes'[n] = readyLanes'[j]
          PROVE  n = j
      <4>0. readyLanes[old(n)] = readyLanes[old(j)]
        BY <3>3, <3>6
      <4>1. old(n) = old(j)
        BY <3>3, <4>0 DEF QueuesMatchWaiters, ReadyLanesHaveWaiters
      <4> QED BY <1>5, <3>2, <4>1 DEF old
    <3>7. ASSUME NEW m \in Lanes, queues'[m] # <<>>
          PROVE  \E n \in 1..Len(readyLanes') : readyLanes'[n] = m
      <4>1. m # l /\ queues[m] # <<>>
        BY <1>1, <3>1, <3>7
      <4>2. PICK n \in 1..Len(readyLanes) : readyLanes[n] = m
        BY <4>1 DEF QueuesMatchWaiters, WaitingLanesAreReady
      <4>3. CASE n < k
        BY <1>5, <3>2, <4>2, <4>3
      <4>4. CASE n > k
        <5>1. n - 1 \in 1..(Len(readyLanes) - 1) /\ ~(n - 1 < k) /\ (n - 1) + 1 = n
          BY <1>5, <4>2, <4>4
        <5> QED BY <1>5, <3>2, <4>2, <5>1
      <4> QED BY <1>5, <4>1, <4>2, <4>3, <4>4
    <3> QED BY <3>5, <3>6, <3>7 DEF ReadyLanesHaveWaiters, WaitingLanesAreReady
  <2>2. CASE Len(queues[l]) # 1
    <3>1. readyLanes' = readyLanes
      BY <1>0, <2>2 DEF Expire
    <3>2. queues'[l] # <<>> /\ queues[l] # <<>>
      <4>1. Len(queues'[l]) # 0 /\ Len(queues[l]) # 0
        BY <1>2, <2>0, <2>2
      <4> QED BY <4>1, EmptySeq
    <3>3. \A m \in Lanes : queues'[m] # <<>> <=> queues[m] # <<>>
      BY <1>1, <3>2
    <3>4. \A n \in 1..Len(readyLanes) : readyLanes[n] \in Lanes
      BY DEF TypeOK
    <3> QED BY <3>1, <3>3, <3>4 DEF QueuesMatchWaiters, ReadyLanesHaveWaiters, WaitingLanesAreReady
  <2> QED BY <2>1, <2>2
<1>11. QueuesMatchWaiters'
  BY <1>4, <1>8, <1>9, <1>10 DEF QueuesMatchWaiters
<1>12. NoLostWakeup'
  <2>1. \A m \in Lanes : queues'[m] # <<>> => queues[m] # <<>>
    <3>1. queues[l] # <<>>
      BY <1>0, <1>1, EmptySeq
    <3> QED BY <1>1, <3>1
  <2> QED BY <2>1 DEF NoLostWakeup, HasCredit, Expire, credits, limits
<1> QED BY <1>3, <1>6, <1>7, <1>11, <1>12 DEF ClosedIsEmpty, Expire

\* One grant of the pump: the oldest waiter of the lane at place k becomes a
\* holder, and the lane keeps a place in the rotation while others wait on it.
LEMMA PumpGrantInv ==
    ASSUME Inv, NEW k \in 1..Len(readyLanes), PumpGrant(k)
    PROVE  Inv'
<1> USE DEF Inv
<1>0. PICK l \in Lanes : l = readyLanes[k]
  BY DEF TypeOK
<1>1. /\ queues[l] \in Seq(Requests) /\ queues[l] # <<>>
      /\ queues'[l] = Tail(queues[l])
      /\ \A m \in Lanes : m # l => queues'[m] = queues[m]
      /\ queues' = [queues EXCEPT ![l] = Tail(queues[l])]
      /\ laneOf' = laneOf
  BY <1>0 DEF TypeOK, PumpGrant, Servable
<1>2. /\ Len(queues[l]) \in Nat /\ Len(queues[l]) >= 1
      /\ queues'[l] \in Seq(Requests)
      /\ Len(queues'[l]) = Len(queues[l]) - 1
      /\ \A j \in 1..(Len(queues[l]) - 1) : queues'[l][j] = queues[l][j + 1]
  BY <1>1, HeadTailProperties
<1>3. PICK r \in Requests : r = queues[l][1] /\ r = Head(queues[l])
  <2>1. queues[l][1] = Head(queues[l]) /\ queues[l][1] \in Requests
    BY <1>1
  <2> QED BY <2>1
<1>4. phase[r] = "waiting" /\ laneOf[r] = l
  BY <1>2, <1>3, QueueElement DEF QueuesMatchWaiters
<1>5. phase' = [phase EXCEPT ![r] = "holding"] /\ Activate(r, l)
  BY <1>0, <1>3 DEF PumpGrant, Activate
<1>6. /\ Waiting' = Waiting \ {r}
      /\ \A s \in Requests : s # r => phase'[s] = phase[s]
      /\ \A s \in Waiting' : s # r
  BY <1>4, <1>5 DEF TypeOK, Waiting
<1>7. queuedTotal' = Cardinality(Waiting') /\ queuedTotal' \in Nat
  BY <1>4, <1>5, WaiterGone DEF TypeOK, PumpGrant
<1>8. CreditsConserved'
  <2>1. laneOf' = [laneOf EXCEPT ![r] = l]
    BY <1>1, <1>4 DEF TypeOK
  <2> QED BY <1>4, <1>5, <2>1, CreditTaken
<1>9. /\ readyLanes \in Seq(Lanes)
      /\ Rotated(k) \in Seq(Lanes)
      /\ Len(Rotated(k)) = Len(readyLanes) - 1
      /\ \A j \in 1..(Len(readyLanes) - 1) :
           Rotated(k)[j] = IF j <= Len(readyLanes) - k THEN readyLanes[k + j]
                           ELSE readyLanes[j - (Len(readyLanes) - k)]
  <2>1. readyLanes \in Seq(Lanes)
    BY DEF TypeOK
  <2> QED BY <2>1, RotatedProperties
<1>10. TypeOK'
  <2>1. phase' \in [Requests -> {"idle", "waiting", "holding"}]
    BY <1>5 DEF TypeOK
  <2>2. queues' \in [Lanes -> Seq(Requests)]
    BY <1>1, <1>2 DEF TypeOK
  <2>3. readyLanes' \in Seq(Lanes)
    BY <1>0, <1>9 DEF PumpGrant
  <2>4. activeTotal' \in Nat /\ activeByLane' \in [Lanes -> Nat]
    BY <1>5 DEF TypeOK, Activate
  <2>5. UNCHANGED <<laneOf, limits, closed, pumping>>
    BY DEF PumpGrant
  <2> QED BY <1>7, <2>1, <2>2, <2>3, <2>4, <2>5 DEF TypeOK, limits
<1>11. QueuesHoldWaiters'
  <2> SUFFICES ASSUME NEW m \in Lanes, NEW j \in 1..Len(queues'[m])
               PROVE  /\ phase'[queues'[m][j]] = "waiting"
                      /\ laneOf'[queues'[m][j]] = m
                      /\ \A n \in 1..Len(queues'[m]) : queues'[m][j] = queues'[m][n] => j = n
    BY DEF QueuesHoldWaiters
  <2>1. CASE m # l
    <3>0. queues'[m] = queues[m]
      BY <1>1, <2>1
    <3>1. queues[m][j] \in Requests /\ queues[m][j] # r
      BY <1>4, <2>1, <3>0, QueueElement DEF QueuesMatchWaiters
    <3>2. phase'[queues[m][j]] = "waiting" /\ laneOf'[queues[m][j]] = m
      BY <1>1, <1>6, <3>0, <3>1, QueueElement DEF QueuesMatchWaiters
    <3>3. \A n \in 1..Len(queues[m]) : queues[m][j] = queues[m][n] => j = n
      BY <3>0 DEF QueuesMatchWaiters, QueuesHoldWaiters
    <3> QED BY <3>0, <3>2, <3>3
  <2>2. CASE m = l
    <3>1. \A n \in 1..Len(queues'[l]) :
            n + 1 \in 1..Len(queues[l]) /\ n + 1 # 1 /\ queues'[l][n] = queues[l][n + 1]
      BY <1>2
    <3>2. queues'[l][j] \in Requests
      BY <1>2, <2>2, ElementOfSeq
    <3>3. queues'[l][j] # r /\ phase[queues'[l][j]] = "waiting" /\ laneOf[queues'[l][j]] = l
      <4>1. 1 \in 1..Len(queues[l])
        BY <1>2
      <4> QED BY <1>3, <2>2, <3>1, <4>1 DEF QueuesMatchWaiters, QueuesHoldWaiters
    <3>4. ASSUME NEW n \in 1..Len(queues'[l]), queues'[l][j] = queues'[l][n] PROVE j = n
      <4>1. j + 1 = n + 1
        <5>1. queues[l][j + 1] = queues[l][n + 1]
          BY <2>2, <3>1, <3>4
        <5>2. j + 1 \in 1..Len(queues[l]) /\ n + 1 \in 1..Len(queues[l])
          BY <2>2, <3>1
        <5> QED BY <5>1, <5>2, QueueElementsDiffer DEF QueuesMatchWaiters
      <4> QED BY <1>2, <2>2, <4>1
    <3> QED BY <1>1, <1>6, <2>2, <3>2, <3>3, <3>4
  <2> QED BY <2>1, <2>2
<1>12. WaitersAreQueued'
  <2> SUFFICES ASSUME NEW s \in Waiting'
               PROVE \E j \in 1..Len(queues'[laneOf[s]]) : queues'[laneOf[s]][j] = s
    BY <1>1 DEF WaitersAreQueued
  <2>1. s \in Waiting /\ s # r /\ laneOf[s] \in Lanes
    BY <1>6 DEF TypeOK, Waiting
  <2>2. PICK j \in 1..Len(queues[laneOf[s]]) : queues[laneOf[s]][j] = s
    BY <2>1 DEF QueuesMatchWaiters, WaitersAreQueued
  <2>3. CASE laneOf[s] # l
    BY <1>1, <2>1, <2>2, <2>3
  <2>4. CASE laneOf[s] = l
    <3>1. j - 1 \in 1..(Len(queues[l]) - 1) /\ (j - 1) + 1 = j
      BY <1>2, <1>3, <2>1, <2>2, <2>4
    <3>2. queues'[l][j - 1] = s
      BY <1>2, <2>2, <2>4, <3>1
    <3> QED BY <1>2, <2>4, <3>1, <3>2
  <2> QED BY <2>3, <2>4
<1> DEFINE n0 == Len(readyLanes)
           old(j) == IF j <= n0 - k THEN k + j ELSE j - (n0 - k)
<1>13. \A j \in 1..(n0 - 1) :
         /\ old(j) \in 1..n0 /\ old(j) # k
         /\ Rotated(k)[j] = readyLanes[old(j)]
         /\ Rotated(k)[j] \in Lanes
  BY <1>9
<1>14. \A i, j \in 1..(n0 - 1) : old(i) = old(j) => i = j
  BY <1>9
<1>15. ASSUME NEW j \in 1..n0, j # k PROVE \E i \in 1..(n0 - 1) : old(i) = j
  <2>1. CASE j > k
    <3>1. j - k \in 1..(n0 - 1) /\ old(j - k) = j
      BY <1>9, <2>1
    <3> QED BY <3>1
  <2>2. CASE j < k
    <3>1. j + (n0 - k) \in 1..(n0 - 1) /\ old(j + (n0 - k)) = j
      BY <1>9, <2>2
    <3> QED BY <3>1
  <2> QED BY <1>9, <1>15, <2>1, <2>2
<1> HIDE DEF old
<1>16. \A j \in 1..(n0 - 1) : Rotated(k)[j] # l /\ queues'[Rotated(k)[j]] # <<>>
  <2> TAKE j \in 1..(n0 - 1)
  <2>1. readyLanes[old(j)] # readyLanes[k] /\ queues[readyLanes[old(j)]] # <<>>
    BY <1>13 DEF QueuesMatchWaiters, ReadyLanesHaveWaiters
  <2> QED BY <1>0, <1>1, <1>13, <2>1
<1>17. \A i, j \in 1..(n0 - 1) : Rotated(k)[i] = Rotated(k)[j] => i = j
  <2> SUFFICES ASSUME NEW i \in 1..(n0 - 1), NEW j \in 1..(n0 - 1),
                      Rotated(k)[i] = Rotated(k)[j]
               PROVE  i = j
    OBVIOUS
  <2>1. readyLanes[old(i)] = readyLanes[old(j)]
    BY <1>13
  <2>2. old(i) = old(j)
    BY <1>13, <2>1 DEF QueuesMatchWaiters, ReadyLanesHaveWaiters
  <2> QED BY <1>14, <2>2
<1>18. ASSUME NEW m \in Lanes, m # l, queues'[m] # <<>>
       PROVE  \E j \in 1..(n0 - 1) : Rotated(k)[j] = m
  <2>1. queues[m] # <<>>
    BY <1>1, <1>18
  <2>2. PICK i \in 1..n0 : readyLanes[i] = m
    BY <2>1 DEF QueuesMatchWaiters, WaitingLanesAreReady
  <2>3. i # k
    BY <1>0, <1>18, <2>2
  <2>4. PICK j \in 1..(n0 - 1) : old(j) = i
    BY <1>15, <2>3
  <2> QED BY <1>13, <2>2, <2>4
<1>19. ReadyLanesHaveWaiters' /\ WaitingLanesAreReady'
  <2>1. CASE Len(queues[l]) > 1
    <3>1. readyLanes' = Append(Rotated(k), l)
      BY <1>0, <2>1 DEF PumpGrant
    <3>2. /\ Len(readyLanes') = n0 /\ n0 \in Nat /\ n0 >= 1
          /\ readyLanes'[n0] = l
          /\ \A j \in 1..(n0 - 1) : readyLanes'[j] = Rotated(k)[j]
      BY <1>9, <3>1
    <3>3. queues'[l] # <<>>
      BY <1>2, <2>1, EmptySeq
    <3>4. ReadyLanesHaveWaiters'
      BY <1>16, <1>17, <3>2, <3>3 DEF ReadyLanesHaveWaiters
    <3>5. WaitingLanesAreReady'
      BY <1>18, <3>2 DEF WaitingLanesAreReady
    <3> QED BY <3>4, <3>5
  <2>2. CASE ~(Len(queues[l]) > 1)
    <3>1. readyLanes' = Rotated(k)
      BY <1>0, <2>2 DEF PumpGrant
    <3>2. queues'[l] = <<>>
      BY <1>2, <2>2, EmptySeq
    <3>3. ReadyLanesHaveWaiters'
      BY <1>9, <1>16, <1>17, <3>1 DEF ReadyLanesHaveWaiters
    <3>4. WaitingLanesAreReady'
      BY <1>9, <1>18, <3>1, <3>2 DEF WaitingLanesAreReady
    <3> QED BY <3>3, <3>4
  <2> QED BY <2>1, <2>2
<1>20. QueuesMatchWaiters'
  BY <1>7, <1>11, <1>12, <1>19 DEF QueuesMatchWaiters
<1> QED BY <1>6, <1>8, <1>10, <1>20 DEF PumpGrant, PumpMayGrant, NoLostWakeup, ClosedIsEmpty

---------------------------------------------------------------------------
LEMMA NextInv == Inv /\ [Next]_vars => Inv'
<1> SUFFICES ASSUME Inv, [Next]_vars PROVE Inv'
  OBVIOUS
<1>1. CASE \E r \in Requests, l \in Lanes : Acquire(r, l) \/ Wait(r, l)
  BY <1>1, AcquireInv, WaitInv
<1>2. CASE \E r \in Requests : \E i \in 1..Len(queues[laneOf[r]]) :
             \E k \in 1..Len(readyLanes) : Expire(r, i, k)
  BY <1>2, ExpireInv
<1>3. CASE \E r \in Requests : Release(r)
  BY <1>3, ReleaseInv
<1>4. CASE \E connection \in Limits \cup {connectionLimit},
              lane \in Limits \cup {laneWindowLimit} : UpdateLimits(connection, lane)
  BY <1>4, LimitsInv, FlowControlAssumption DEF UpdateLimits, MinOf, Inv, TypeOK
<1>5. CASE \E q \in Limits : UpdateLaneQueueLimit(q)
  BY <1>5, LimitsInv, FlowControlAssumption DEF UpdateLaneQueueLimit, MinOf, Inv, TypeOK
<1>6. CASE CancelQueued
  BY <1>6, RejectWaitersInv DEF CancelQueued, Inv, TypeOK
<1>7. CASE Close
  BY <1>7, RejectWaitersInv DEF Close
<1>8. CASE Pump
  BY <1>8, PumpEndInv, PumpGrantInv DEF Pump
<1>9. CASE UNCHANGED vars
  <2> USE <1>9 DEF vars, credits, limits, waiting, Inv
  <2>1. TypeOK'
    BY DEF TypeOK
  <2>2. Holding' = Holding /\ Waiting' = Waiting /\ \A l : HoldingOn(l)' = HoldingOn(l)
    BY DEF Holding, HoldingOn, Waiting
  <2>3. CreditsConserved'
    BY <2>2 DEF CreditsConserved
  <2>4. QueuesMatchWaiters'
    BY <2>2 DEF QueuesMatchWaiters, QueuesHoldWaiters, WaitersAreQueued, ReadyLanesHaveWaiters,
       WaitingLanesAreReady
  <2>5. NoLostWakeup' /\ ClosedIsEmpty'
    BY <2>2 DEF NoLostWakeup, HasCredit, ClosedIsEmpty
  <2> QED BY <2>1, <2>3, <2>4, <2>5
<1> QED BY <1>1, <1>2, <1>3, <1>4, <1>5, <1>6, <1>7, <1>8, <1>9 DEF Next

LEMMA Invariance == Spec => []Inv
BY InitInv, NextInv, PTL DEF Spec

\* Every variable of the flow control keeps its type; in particular no counter
\* goes below zero.
THEOREM TypeCorrect == Spec => []TypeOK
BY Invariance, PTL DEF Inv

\* The counters tryAcquire reads count the holders of credits exactly.
THEOREM CreditsAreConserved == Spec => []CreditsConserved
BY Invariance, PTL DEF Inv

\* Queues, rotation and queuedTotal agree with who waits, and nobody waits on a
\* closed flow control.
THEOREM WaitersAreKept == Spec => []NoWaiterLost
BY Invariance, PTL DEF Inv, NoWaiterLost

\* No request waits, between operations, for a credit that is free.
THEOREM WakeupsAreKept == Spec => []NoLostWakeup
BY Invariance, PTL DEF Inv

---------------------------------------------------------------------------
(* The refinement: the counters agree with the window's cardinalities, and  *)
(* outside the pump the window is quiet, so each operation is the window's. *)

LEMMA RoomIsCredit ==
    ASSUME CreditsConserved, NEW l \in Lanes
    PROVE  Window!Room(l) <=> HasCredit(l)
<1>1. Window!Holding = Holding /\ Window!HoldingOn(l) = HoldingOn(l)
  BY DEF Window!Holding, Window!HoldingOn, Holding, HoldingOn
<1>2. \A S : Window!Cardinality(S) = Cardinality(S)
  BY DEF Window!Cardinality, Cardinality
<1> QED BY <1>1, <1>2 DEF CreditsConserved, Window!Room, HasCredit

LEMMA QuietBetweenOperations ==
    ASSUME Inv, ~pumping
    PROVE  Window!Quiet
BY RoomIsCredit DEF Inv, NoLostWakeup, Window!Quiet, Window!Grantable

LEMMA InitRefines == Init => Window!Init
BY FlowControlAssumption DEF Init, Window!Init

LEMMA StepRefines == Inv /\ [Next]_vars => [Window!Next]_(Window!vars)
<1> SUFFICES ASSUME Inv, [Next]_vars PROVE [Window!Next]_(Window!vars)
  OBVIOUS
<1> USE DEF Inv
<1>1. ASSUME NEW r \in Requests, NEW l \in Lanes, Acquire(r, l)
      PROVE  Window!Acquire(r, l)
  BY <1>1, QuietBetweenOperations, RoomIsCredit
     DEF Acquire, Activate, limits, waiting, Window!Acquire
<1>2. ASSUME NEW r \in Requests, NEW l \in Lanes, Wait(r, l)
      PROVE  Window!Enqueue(r, l)
  BY <1>2, QuietBetweenOperations, RoomIsCredit DEF Wait, limits, Window!Enqueue
<1>3. ASSUME NEW r \in Requests, NEW i \in 1..Len(queues[laneOf[r]]),
             NEW k \in 1..Len(readyLanes), Expire(r, i, k)
      PROVE  Window!Abandon(r, i)
  <2>1. Window!Quiet
    BY <1>3, QuietBetweenOperations DEF Expire
  <2> QED BY <1>3, <2>1 DEF Expire, Without, limits, Window!Abandon
<1>4. ASSUME NEW r \in Requests, Release(r)
      PROVE  Window!Release(r)
  <2>1. Window!Quiet
    BY <1>4, QuietBetweenOperations DEF Release
  <2> QED BY <1>4, <2>1 DEF Release, limits, waiting, Window!Release
<1>5. ASSUME NEW c \in Limits \cup {connectionLimit}, NEW w \in Limits \cup {laneWindowLimit},
             UpdateLimits(c, w)
      PROVE  Window!SetLimits
  <2>1. Window!Quiet
    BY <1>5, QuietBetweenOperations DEF UpdateLimits
  <2> QED BY <1>5, <2>1, FlowControlAssumption
          DEF UpdateLimits, MinOf, waiting, TypeOK, Window!SetLimits
<1>6. ASSUME NEW q \in Limits, UpdateLaneQueueLimit(q)
      PROVE  Window!SetLimits
  <2>1. Window!Quiet
    BY <1>6, QuietBetweenOperations DEF UpdateLaneQueueLimit
  <2> QED BY <1>6, <2>1, FlowControlAssumption
          DEF UpdateLaneQueueLimit, MinOf, waiting, TypeOK, Window!SetLimits
<1>7. ASSUME CancelQueued \/ Close
      PROVE  Window!TurnAway
  <2>1. Window!Quiet
    BY <1>7, QuietBetweenOperations DEF CancelQueued, Close
  <2> QED BY <1>7, <2>1 DEF CancelQueued, Close, RejectWaiters, limits, Window!TurnAway
<1>8. ASSUME NEW k \in 1..Len(readyLanes), PumpGrant(k)
      PROVE  \E l \in Lanes : Window!Grant(l)
  <2>1. PICK l \in Lanes : l = readyLanes[k]
    BY DEF TypeOK
  <2>2. HasCredit(l) /\ queues[l] # <<>>
    BY <1>8, <2>1 DEF PumpGrant, PumpMayGrant, Servable, HasCredit
  <2>3. Window!Grantable(l)
    BY <2>2, RoomIsCredit DEF Window!Grantable
  <2> QED BY <1>8, <2>1, <2>3 DEF PumpGrant, Activate, limits, Window!Grant
<1>9. ASSUME PumpEnd \/ UNCHANGED vars
      PROVE  UNCHANGED Window!vars
  BY <1>9 DEF PumpEnd, vars, limits, waiting, Window!vars
<1> QED BY <1>1, <1>2, <1>3, <1>4, <1>5, <1>6, <1>7, <1>8, <1>9
        DEF Next, Pump, Window!Next

\* The counters, the lane rotation and the waiter bookkeeping of
\* native-flow-control.ts implement the credit window: oldest waiter of a lane
\* first, and waiters before newcomers.
THEOREM Refinement == Spec => ImplementsCreditWindow
BY Invariance, InitRefines, StepRefines, PTL DEF Spec, ImplementsCreditWindow, Window!Spec
============================================================================
