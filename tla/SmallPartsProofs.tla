-------------------------- MODULE SmallPartsProofs --------------------------
(***************************************************************************)
(* Proofs about the components of MCSmallParts, for any constants: the     *)
(* records of the native write queue agree and implement a first-in        *)
(* first-out queue; split pipelines and automatic batches keep the order   *)
(* of the commands on a key; automatic batching closes its executor last;  *)
(* a native bootstrap leaves nothing behind.                               *)
(***************************************************************************)
EXTENDS MCSmallParts, OrderingPlan, FiniteSetTheorems, FunctionTheorems, SequenceTheorems,
        WellFoundedInduction, TLAPS

---------------------------------------------------------------------------
(* NativeWriteQueue.                                                       *)

Slots(qs) == 1..Len(qs)
SlotArrays == Seq(Frames \cup {Tombstone})

TypeOK == /\ queuedWrites \in SlotArrays
          /\ queuedWritesByRequest \in SUBSET Frames
          /\ queuedWriteBytes \in Nat
          /\ queuedWriteHead \in 0..Len(queuedWrites)
          /\ queuedWriteTombstones \in Nat
          /\ writeBlocked \in BOOLEAN

\* The slots of an array that flush() has still to write hold the frames of the index, each
\* once; the others behind the head are the counted tombstones.
InStep(qs, h, tombstones, index) ==
    /\ qs \in SlotArrays /\ h \in 0..Len(qs) /\ tombstones \in Nat
    /\ index \in SUBSET Frames /\ IsFiniteSet(index)
    /\ index = {qs[i] : i \in LiveSlots(h, qs)}
    /\ \A i, k \in LiveSlots(h, qs) : qs[i] = qs[k] => i = k
    /\ tombstones + Cardinality(LiveSlots(h, qs)) = Len(qs) - h

\* What flush() has consumed is erased: cancel() of a frame finds a slot behind the head.
Erased(qs, h) == \A i \in 1..h : qs[i] = Tombstone

SlotsOK == /\ InStep(queuedWrites, queuedWriteHead, queuedWriteTombstones, queuedWritesByRequest)
           /\ Erased(queuedWrites, queuedWriteHead)

BytesOK == /\ queuedWriteBytes = BytesOf(queuedWritesByRequest)
           /\ queuedWriteBytes <= MaxQueuedWriteBytes

Inv == TypeOK /\ SlotsOK /\ BytesOK

---------------------------------------------------------------------------
(* The slots of a set in their order.                                      *)

Counted(spots, i) == Cardinality({k \in spots : k <= i})

\* r lists the slots of a set in their order.
Lists(r, m, spots) == /\ r \in [1..m -> spots]
                      /\ \A n, k \in 1..m : n < k => r[n] < r[k]
                      /\ \A i \in spots : \E n \in 1..m : r[n] = i

\* A larger slot has more slots up to it.
LEMMA CountsGrow ==
    ASSUME NEW spots \in SUBSET Nat, IsFiniteSet(spots), NEW i \in spots, NEW k \in spots, i < k
    PROVE  /\ Counted(spots, i) \in 1..Cardinality(spots) /\ Counted(spots, k) \in 1..Cardinality(spots)
           /\ Counted(spots, i) < Counted(spots, k)
<1> DEFINE below(n) == {m \in spots : m <= n}
<1>1. \A n \in spots : below(n) \in SUBSET spots /\ n \in below(n) /\ n \in Nat
  OBVIOUS
<1>2. \A n \in spots : /\ IsFiniteSet(below(n)) /\ Cardinality(below(n)) \in Nat
                       /\ Cardinality(below(n)) <= Cardinality(spots) /\ Cardinality(below(n)) # 0
  <2> SUFFICES ASSUME NEW n \in spots
               PROVE  /\ IsFiniteSet(below(n)) /\ Cardinality(below(n)) \in Nat
                      /\ Cardinality(below(n)) <= Cardinality(spots) /\ Cardinality(below(n)) # 0
    OBVIOUS
  <2> DEFINE B == below(n)
  <2>1. B \in SUBSET spots /\ n \in B
    BY <1>1
  <2> HIDE DEF B
  <2>2. IsFiniteSet(B) /\ Cardinality(B) <= Cardinality(spots)
    BY <2>1, FS_Subset
  <2>3. Cardinality(B) \in Nat /\ Cardinality(B) # 0
    BY <2>1, <2>2, FS_CardinalityType, FS_EmptySet
  <2> QED BY <2>2, <2>3 DEF B
<1>3. below(i) \in SUBSET below(k) /\ k \notin below(i) /\ k \in below(k)
  <2>1. i \in Nat /\ k \in Nat /\ \A m \in spots : m \in Nat
    OBVIOUS
  <2>2. \A m \in spots : m <= i => m <= k
    BY <2>1
  <2>3. ~(k <= i) /\ k <= k
    BY <2>1
  <2>4. /\ below(i) = {m \in spots : m <= i}
        /\ below(k) = {m \in spots : m <= k}
    OBVIOUS
  <2> HIDE DEF below
  <2> QED BY <2>2, <2>3, <2>4
<1>4. Cardinality(spots) \in Nat
  BY FS_CardinalityType
<1> DEFINE A == below(i)
           B == below(k)
<1>5. A \in SUBSET B /\ A # B /\ IsFiniteSet(B) /\ Cardinality(A) \in Nat /\ Cardinality(B) \in Nat
  BY <1>2, <1>3
<1> HIDE DEF A, B
<1>6. Cardinality(A) <= Cardinality(B) /\ Cardinality(A) # Cardinality(B)
  BY <1>5, FS_Subset
<1>7. Counted(spots, i) = Cardinality(A) /\ Counted(spots, k) = Cardinality(B)
  BY DEF Counted, A, B
<1>8. Cardinality(A) \in 1..Cardinality(spots) /\ Cardinality(B) \in 1..Cardinality(spots)
  BY <1>2, <1>4 DEF A, B
<1> QED BY <1>5, <1>6, <1>7, <1>8

\* Slots are told apart by how many there are up to them.
LEMMA CountsDiffer ==
    ASSUME NEW spots \in SUBSET Nat, IsFiniteSet(spots)
    PROVE  /\ \A i \in spots : Counted(spots, i) \in 1..Cardinality(spots)
           /\ \A i, k \in spots : /\ Counted(spots, i) = Counted(spots, k) => i = k
                                  /\ Counted(spots, i) < Counted(spots, k) => i < k
<1>1. ASSUME NEW i \in spots PROVE Counted(spots, i) \in 1..Cardinality(spots)
  <2> DEFINE B == {m \in spots : m <= i}
  <2>1. B \in SUBSET spots /\ i \in B
    OBVIOUS
  <2>2. Counted(spots, i) = Cardinality(B)
    BY DEF Counted
  <2> HIDE DEF B
  <2>3. IsFiniteSet(B) /\ Cardinality(B) <= Cardinality(spots)
    BY <2>1, FS_Subset
  <2>4. Cardinality(B) \in Nat /\ Cardinality(B) # 0 /\ Cardinality(spots) \in Nat
    BY <2>1, <2>3, FS_CardinalityType, FS_EmptySet
  <2> QED BY <2>2, <2>3, <2>4
<1>2. ASSUME NEW i \in spots, NEW k \in spots
      PROVE  /\ Counted(spots, i) = Counted(spots, k) => i = k
             /\ Counted(spots, i) < Counted(spots, k) => i < k
  <2>1. i \in Nat /\ k \in Nat /\ Counted(spots, i) \in Nat /\ Counted(spots, k) \in Nat
    BY <1>1
  <2>2. i < k => Counted(spots, i) < Counted(spots, k)
    BY CountsGrow
  <2>3. k < i => Counted(spots, k) < Counted(spots, i)
    BY CountsGrow
  <2> QED BY <2>1, <2>2, <2>3
<1> QED BY <1>1, <1>2

\* NthSlot lists the slots.
LEMMA SlotsListed ==
    ASSUME NEW spots \in SUBSET Nat, IsFiniteSet(spots)
    PROVE  Lists([n \in 1..Cardinality(spots) |-> NthSlot(spots, n)], Cardinality(spots), spots)
<1> DEFINE m == Cardinality(spots)
           count == [i \in spots |-> Counted(spots, i)]
<1>1. m \in Nat /\ IsFiniteSet(1..m) /\ Cardinality(1..m) = m
  <2>1. m \in Nat
    BY FS_CardinalityType
  <2> QED BY <2>1, FS_Interval
<1>2. /\ \A i \in spots : Counted(spots, i) \in 1..m
      /\ \A i, k \in spots : /\ Counted(spots, i) = Counted(spots, k) => i = k
                             /\ Counted(spots, i) < Counted(spots, k) => i < k
  BY CountsDiffer
<1>3. count \in Injection(spots, 1..m)
  BY <1>2 DEF Injection, IsInjective
<1> HIDE DEF count
<1>4. count \in Surjection(spots, 1..m)
  BY <1>1, <1>3, FS_Injection
<1>5. ASSUME NEW n \in 1..m PROVE NthSlot(spots, n) \in spots /\ Counted(spots, NthSlot(spots, n)) = n
  <2>1. \E i \in spots : Counted(spots, i) = n
    BY <1>4 DEF Surjection, count
  <2>2. NthSlot(spots, n) = CHOOSE i \in spots : Counted(spots, i) = n
    BY DEF NthSlot, Counted
  <2> QED BY <2>1, <2>2
<1> DEFINE r == [n \in 1..m |-> NthSlot(spots, n)]
<1>6. r \in [1..m -> spots]
  BY <1>5
<1>7. ASSUME NEW n \in 1..m, NEW k \in 1..m, n < k PROVE r[n] < r[k]
  <2>1. /\ r[n] \in spots /\ Counted(spots, r[n]) = n
        /\ r[k] \in spots /\ Counted(spots, r[k]) = k
    BY <1>5
  <2> HIDE DEF r
  <2>2. Counted(spots, r[n]) < Counted(spots, r[k])
    BY <2>1, <1>7
  <2>3. Counted(spots, r[n]) < Counted(spots, r[k]) => r[n] < r[k]
    BY <2>1, <1>2
  <2> QED BY <2>2, <2>3
<1>8. ASSUME NEW i \in spots PROVE \E n \in 1..m : r[n] = i
  <2>1. Counted(spots, i) \in 1..m
    BY <1>2
  <2> QED BY <2>1, <1>2, <1>5
<1> QED BY <1>6, <1>7, <1>8 DEF Lists

\* There is only one way to list slots in their order.
LEMMA ListedOnce ==
    ASSUME NEW spots \in SUBSET Nat, NEW m \in Nat, NEW r, Lists(r, m, spots)
    PROVE  /\ IsFiniteSet(spots) /\ Cardinality(spots) = m
           /\ \A n \in 1..m : NthSlot(spots, n) = r[n]
<1>1. /\ r \in [1..m -> spots] /\ \A n, k \in 1..m : n < k => r[n] < r[k]
      /\ \A i \in spots : \E n \in 1..m : r[n] = i
  BY DEF Lists
<1>2. \A n, k \in 1..m : r[n] \in Nat /\ (n # k => r[n] # r[k])
  <2> SUFFICES ASSUME NEW n \in 1..m, NEW k \in 1..m, n # k PROVE r[n] # r[k]
    BY <1>1
  <2>1. n < k \/ k < n
    OBVIOUS
  <2>2. r[n] \in Nat /\ r[k] \in Nat /\ (r[n] < r[k] \/ r[k] < r[n])
    BY <2>1, <1>1
  <2> QED BY <2>2
<1>3. r \in Bijection(1..m, spots)
  BY <1>1, <1>2 DEF Bijection, Injection, Surjection, IsInjective
<1>4. IsFiniteSet(1..m) /\ Cardinality(1..m) = m
  BY FS_Interval
<1>5. IsFiniteSet(spots) /\ Cardinality(spots) = m
  <2>1. ExistsBijection(1..m, spots)
    BY <1>3 DEF ExistsBijection
  <2> QED BY <2>1, <1>4, FS_Bijection
<1>6. ASSUME NEW n \in 1..m PROVE Counted(spots, r[n]) = n
  <2> DEFINE B == {k \in spots : k <= r[n]}
             s == [k \in 1..n |-> r[k]]
  <2>1. \A k \in 1..m : r[k] <= r[n] <=> k <= n
    <3> SUFFICES ASSUME NEW k \in 1..m PROVE r[k] <= r[n] <=> k <= n
      OBVIOUS
    <3>1. r[k] \in Nat /\ r[n] \in Nat /\ (k < n => r[k] < r[n]) /\ (n < k => r[n] < r[k]) /\ (k = n => r[k] = r[n])
      BY <1>1, <1>2
    <3> QED BY <3>1
  <2>2. \A k \in 1..n : k \in 1..m
    OBVIOUS
  <2>3. s \in Bijection(1..n, B)
    <3>1. s \in [1..n -> B]
      BY <2>1, <2>2, <1>1
    <3>2. \A i, k \in 1..n : s[i] = s[k] => i = k
      BY <2>2, <1>2
    <3>3. \A i \in B : \E k \in 1..n : s[k] = i
      <4> SUFFICES ASSUME NEW i \in B PROVE \E k \in 1..n : s[k] = i
        OBVIOUS
      <4>1. PICK k \in 1..m : r[k] = i
        BY <1>1
      <4>2. k \in 1..n
        BY <4>1, <2>1
      <4> QED BY <4>1, <4>2
    <3> QED BY <3>1, <3>2, <3>3 DEF Bijection, Injection, Surjection, IsInjective
  <2> HIDE DEF s
  <2>4. IsFiniteSet(1..n) /\ Cardinality(1..n) = n
    BY FS_Interval
  <2>5. Counted(spots, r[n]) = Cardinality(B)
    BY DEF Counted
  <2> HIDE DEF B
  <2>6. ExistsBijection(1..n, B)
    BY <2>3 DEF ExistsBijection
  <2> QED BY <2>4, <2>5, <2>6, FS_Bijection
<1>7. ASSUME NEW n \in 1..m PROVE NthSlot(spots, n) = r[n]
  <2>1. NthSlot(spots, n) = CHOOSE i \in spots : Counted(spots, i) = n
    BY DEF NthSlot, Counted
  <2>2. r[n] \in spots /\ Counted(spots, r[n]) = n
    BY <1>1, <1>6
  <2>3. \A i \in spots : Counted(spots, i) = n => i = r[n]
    BY <2>2, <1>5, CountsDiffer
  <2> QED BY <2>1, <2>2, <2>3
<1> QED BY <1>5, <1>7

---------------------------------------------------------------------------
(* The live frames of an array.                                            *)

InOrder(spots) == [n \in 1..Cardinality(spots) |-> NthSlot(spots, n)]

LEMMA LiveSlotsFacts ==
    ASSUME NEW qs \in SlotArrays, NEW h \in 0..Len(qs)
    PROVE  /\ LiveSlots(h, qs) \in SUBSET Nat /\ IsFiniteSet(LiveSlots(h, qs))
           /\ Cardinality(LiveSlots(h, qs)) \in Nat
           /\ \A i \in LiveSlots(h, qs) : i \in 1..Len(qs) /\ h < i /\ qs[i] \in Frames
           /\ Lists(InOrder(LiveSlots(h, qs)), Cardinality(LiveSlots(h, qs)), LiveSlots(h, qs))
<1> DEFINE S == LiveSlots(h, qs)
<1>1. Len(qs) \in Nat /\ \A i \in 1..Len(qs) : qs[i] \in Frames \cup {Tombstone}
  BY DEF SlotArrays
<1>2. \A i \in S : i \in (h + 1)..Len(qs) /\ qs[i] # Tombstone
  BY DEF LiveSlots, IsFrame
<1>3. \A i \in S : i \in 1..Len(qs) /\ h < i /\ qs[i] \in Frames
  BY <1>1, <1>2
<1> HIDE DEF S
<1>4. S \in SUBSET (1..Len(qs)) /\ S \in SUBSET Nat
  BY <1>1, <1>3
<1>5. IsFiniteSet(1..Len(qs))
  BY <1>1, FS_Interval
<1>6. IsFiniteSet(S) /\ Cardinality(S) \in Nat
  BY <1>4, <1>5, FS_Subset, FS_CardinalityType
<1>7. Lists(InOrder(S), Cardinality(S), S)
  BY <1>4, <1>6, SlotsListed DEF InOrder
<1> QED BY <1>3, <1>4, <1>6, <1>7 DEF S

\* A list of the live slots gives the live frames.
LEMMA LiveListed ==
    ASSUME NEW qs \in SlotArrays, NEW h \in 0..Len(qs), NEW m \in Nat, NEW r,
           Lists(r, m, LiveSlots(h, qs))
    PROVE  /\ LiveFrames(h, qs) = [n \in 1..m |-> qs[r[n]]]
           /\ Cardinality(LiveSlots(h, qs)) = m
           /\ LiveFrames(h, qs) \in Seq(Frames) /\ Len(LiveFrames(h, qs)) = m
           /\ {LiveFrames(h, qs)[n] : n \in 1..m} = {qs[i] : i \in LiveSlots(h, qs)}
<1> DEFINE S == LiveSlots(h, qs)
<1>1. S \in SUBSET Nat /\ \A i \in S : qs[i] \in Frames
  BY LiveSlotsFacts
<1>2. Lists(r, m, S)
  OBVIOUS
<1> HIDE DEF S
<1>3. Cardinality(S) = m /\ \A n \in 1..m : NthSlot(S, n) = r[n]
  BY <1>1, <1>2, ListedOnce
<1>4. LiveFrames(h, qs) = [n \in 1..m |-> qs[r[n]]]
  <2>1. LiveFrames(h, qs) = [n \in 1..Cardinality(S) |-> qs[NthSlot(S, n)]]
    BY DEF LiveFrames, S
  <2> QED BY <2>1, <1>3
<1>5. \A n \in 1..m : r[n] \in S /\ qs[r[n]] \in Frames
  BY <1>1, <1>2 DEF Lists
<1>6. LiveFrames(h, qs) \in Seq(Frames) /\ Len(LiveFrames(h, qs)) = m
  BY <1>4, <1>5
<1>7. {LiveFrames(h, qs)[n] : n \in 1..m} = {qs[i] : i \in S}
  <2>1. \A n \in 1..m : LiveFrames(h, qs)[n] = qs[r[n]]
    BY <1>4
  <2> QED BY <2>1, <1>2 DEF Lists
<1> QED BY <1>3, <1>4, <1>6, <1>7 DEF S

\* The live frames are those of the live slots, in their order.
LEMMA LiveFacts ==
    ASSUME NEW qs \in SlotArrays, NEW h \in 0..Len(qs)
    PROVE  \E m, r :
              /\ m \in Nat /\ Lists(r, m, LiveSlots(h, qs)) /\ Cardinality(LiveSlots(h, qs)) = m
              /\ LiveFrames(h, qs) = [n \in 1..m |-> qs[r[n]]]
              /\ LiveFrames(h, qs) \in Seq(Frames) /\ Len(LiveFrames(h, qs)) = m
              /\ {LiveFrames(h, qs)[n] : n \in 1..m} = {qs[i] : i \in LiveSlots(h, qs)}
<1> DEFINE S == LiveSlots(h, qs)
           m == Cardinality(S)
           r == InOrder(S)
<1>1. m \in Nat /\ Lists(r, m, S)
  BY LiveSlotsFacts
<1>m. S = LiveSlots(h, qs)
  OBVIOUS
<1> HIDE DEF m, r, S
<1>2. /\ LiveFrames(h, qs) = [n \in 1..m |-> qs[r[n]]] /\ LiveFrames(h, qs) \in Seq(Frames)
      /\ Len(LiveFrames(h, qs)) = m /\ Cardinality(S) = m
      /\ {LiveFrames(h, qs)[n] : n \in 1..m} = {qs[i] : i \in S}
  <2>1. m \in Nat /\ Lists(r, m, LiveSlots(h, qs))
    BY <1>1, <1>m
  <2>2. /\ LiveFrames(h, qs) = [n \in 1..m |-> qs[r[n]]]
        /\ Cardinality(LiveSlots(h, qs)) = m
        /\ LiveFrames(h, qs) \in Seq(Frames) /\ Len(LiveFrames(h, qs)) = m
        /\ {LiveFrames(h, qs)[n] : n \in 1..m} = {qs[i] : i \in LiveSlots(h, qs)}
    BY ONLY <2>1, qs \in SlotArrays, h \in 0..Len(qs), LiveListed
  <2> QED BY <2>2, <1>m
<1> QED BY <1>1, <1>2, <1>m

\* The sequence of frames that a list of the live slots gives is the live frames.
LEMMA FramesAre ==
    ASSUME NEW qs \in SlotArrays, NEW h \in 0..Len(qs), NEW m \in Nat, NEW r,
           Lists(r, m, LiveSlots(h, qs)),
           NEW L \in Seq(Frames), Len(L) = m, \A n \in 1..m : L[n] = qs[r[n]]
    PROVE  LiveFrames(h, qs) = L
<1> DEFINE M == LiveFrames(h, qs)
<1>1. M = [n \in 1..m |-> qs[r[n]]] /\ M \in Seq(Frames) /\ Len(M) = m
  BY LiveListed
<1> HIDE DEF M
<1>2. \A n \in 1..Len(M) : M[n] = L[n]
  BY <1>1
<1> QED BY <1>1, <1>2, SeqEqual DEF M

\* A frame that is queued comes last.
LEMMA LiveAppend ==
    ASSUME NEW qs \in SlotArrays, NEW h \in 0..Len(qs), NEW f \in Frames
    PROVE  /\ LiveSlots(h, Append(qs, f)) = LiveSlots(h, qs) \cup {Len(qs) + 1}
           /\ LiveFrames(h, Append(qs, f)) = Append(LiveFrames(h, qs), f)
<1> DEFINE new == Append(qs, f)
           last == Len(qs) + 1
           S == LiveSlots(h, qs)
<1>1. /\ new \in SlotArrays /\ Len(qs) \in Nat /\ Len(new) = last /\ h \in 0..Len(new)
      /\ new[last] = f /\ f # Tombstone /\ \A i \in 1..Len(qs) : new[i] = qs[i]
  BY WriteQueueAssumption DEF SlotArrays
<1>2. PICK m, r :
              /\ m \in Nat /\ Lists(r, m, S) /\ Cardinality(S) = m
              /\ LiveFrames(h, qs) = [n \in 1..m |-> qs[r[n]]]
              /\ LiveFrames(h, qs) \in Seq(Frames) /\ Len(LiveFrames(h, qs)) = m
  BY LiveFacts
<1>3. \A i \in S : i \in 1..Len(qs)
  BY LiveSlotsFacts
<1> HIDE DEF new
<1>4. LiveSlots(h, new) = S \cup {last}
  <2>1. \A i \in (h + 1)..last : i = last \/ i \in (h + 1)..Len(qs)
    BY <1>1
  <2>2. \A i \in (h + 1)..Len(qs) : i \in (h + 1)..last /\ i \in 1..Len(qs)
    BY <1>1
  <2>3. last \in (h + 1)..last
    BY <1>1
  <2>4. LiveSlots(h, new) \subseteq S \cup {last}
    BY <1>1, <2>1, <2>2 DEF LiveSlots, IsFrame
  <2>5. S \subseteq LiveSlots(h, new) /\ last \in LiveSlots(h, new)
    BY <1>1, <2>2, <2>3 DEF LiveSlots, IsFrame
  <2> QED BY <2>4, <2>5
<1> DEFINE s == [n \in 1..(m + 1) |-> IF n <= m THEN r[n] ELSE last]
<1> HIDE DEF S
<1>5. Lists(s, m + 1, LiveSlots(h, new))
  <2>1. \A n \in 1..m : r[n] \in S /\ n \in 1..(m + 1) /\ s[n] = r[n]
    BY <1>2 DEF Lists
  <2>2. s[m + 1] = last /\ m + 1 \in 1..(m + 1)
    BY <1>2
  <2>3. \A n \in 1..(m + 1) : n \in 1..m \/ n = m + 1
    BY <1>2
  <2>4. s \in [1..(m + 1) -> LiveSlots(h, new)]
    BY <2>1, <2>2, <2>3, <1>4
  <2>5. ASSUME NEW n \in 1..(m + 1), NEW k \in 1..(m + 1), n < k PROVE s[n] < s[k]
    <3>1. n \in 1..m
      BY <2>5, <1>2
    <3>2. CASE k \in 1..m
      BY <3>1, <3>2, <2>1, <2>5, <1>2 DEF Lists
    <3>3. CASE k = m + 1
      <4>1. r[n] \in 1..Len(qs)
        BY <3>1, <2>1, <1>3 DEF S
      <4> QED BY <4>1, <3>1, <3>3, <2>1, <2>2, <1>1
    <3> QED BY <3>2, <3>3, <2>3
  <2>6. ASSUME NEW i \in LiveSlots(h, new) PROVE \E n \in 1..(m + 1) : s[n] = i
    <3>1. CASE i \in S
      BY <3>1, <2>1, <1>2 DEF Lists
    <3>2. CASE i = last
      BY <3>2, <2>2
    <3> QED BY <3>1, <3>2, <1>4
  <2> QED BY <2>4, <2>5, <2>6 DEF Lists
<1> DEFINE L == LiveFrames(h, qs)
           M == Append(L, f)
<1>6. L \in Seq(Frames) /\ Len(L) = m /\ \A n \in 1..m : L[n] = qs[r[n]]
  BY <1>2
<1>7. \A n \in 1..m : r[n] \in 1..Len(qs) /\ s[n] = r[n]
  BY <1>2, <1>3 DEF Lists, S
<1>8. s[m + 1] = last
  BY <1>2
<1> HIDE DEF L, s
<1>9. M \in Seq(Frames) /\ Len(M) = m + 1 /\ M[m + 1] = f /\ \A n \in 1..m : M[n] = L[n]
  BY <1>6, AppendProperties
<1> HIDE DEF M
<1>10. \A n \in 1..(m + 1) : M[n] = new[s[n]]
  <2>1. ASSUME NEW n \in 1..m PROVE M[n] = new[s[n]]
    <3>1. s[n] = r[n] /\ new[r[n]] = qs[r[n]]
      BY <1>1, <1>7
    <3> QED BY <3>1, <1>6, <1>9
  <2>2. \A n \in 1..(m + 1) : n \in 1..m \/ n = m + 1
    BY <1>2
  <2> QED BY <2>1, <2>2, <1>1, <1>8, <1>9
<1>11. m + 1 \in Nat
  BY <1>2
<1>12. LiveFrames(h, new) = M
  BY ONLY <1>1, <1>5, <1>9, <1>10, <1>11, FramesAre
<1> QED BY <1>4, <1>12 DEF new, S, M, L

\* Erasing a live slot withdraws its frame.
LEMMA LiveCancel ==
    ASSUME NEW qs \in SlotArrays, NEW h \in 0..Len(qs), NEW x \in LiveSlots(h, qs)
    PROVE  LET new == [qs EXCEPT ![x] = Tombstone]
               L == LiveFrames(h, qs)
           IN /\ new \in SlotArrays /\ Len(new) = Len(qs)
              /\ LiveSlots(h, new) = LiveSlots(h, qs) \ {x}
              /\ \E k \in 1..Len(L) :
                    LiveFrames(h, new) = SubSeq(L, 1, k - 1) \o SubSeq(L, k + 1, Len(L))
<1> DEFINE new == [qs EXCEPT ![x] = Tombstone]
           S == LiveSlots(h, qs)
           T == LiveSlots(h, new)
           L == LiveFrames(h, qs)
<1>1. S \in SUBSET Nat /\ x \in S /\ \A i \in S : i \in 1..Len(qs) /\ h < i /\ qs[i] \in Frames
  BY LiveSlotsFacts
<1>2. /\ new \in SlotArrays /\ Len(qs) \in Nat /\ Len(new) = Len(qs) /\ h \in 0..Len(new)
      /\ new[x] = Tombstone /\ \A i \in 1..Len(qs) : i # x => new[i] = qs[i]
  BY <1>1 DEF SlotArrays
<1>3. PICK m, r : /\ m \in Nat /\ Lists(r, m, S) /\ L = [n \in 1..m |-> qs[r[n]]]
                  /\ L \in Seq(Frames) /\ Len(L) = m
  BY LiveFacts
<1> HIDE DEF new
<1>4. T = S \ {x}
  <2>1. \A i \in (h + 1)..Len(qs) : i \in 1..Len(qs)
    BY <1>2
  <2> QED BY <1>2, <2>1 DEF LiveSlots, IsFrame
<1>5. /\ r \in [1..m -> S] /\ \A n, k \in 1..m : n < k => r[n] < r[k]
      /\ \A i \in S : \E n \in 1..m : r[n] = i
  BY <1>3 DEF Lists
<1>6. \A n \in 1..m : L[n] = qs[r[n]]
  BY <1>3
<1>7. x \in S
  BY <1>1
<1> HIDE DEF S, T, L
<1>8. PICK k \in 1..m : r[k] = x
  BY <1>5, <1>7
<1> DEFINE at(n) == IF n < k THEN n ELSE n + 1
           s == [n \in 1..(m - 1) |-> r[at(n)]]
<1>9. /\ m - 1 \in Nat
      /\ \A n \in 1..(m - 1) : at(n) \in 1..m /\ at(n) # k /\ s[n] = r[at(n)]
      /\ \A n, p \in 1..(m - 1) : n < p => at(n) < at(p)
  BY <1>3, <1>8
<1>10. \A n \in 1..m : r[n] \in Nat /\ (n # k => r[n] # x)
  <2> SUFFICES ASSUME NEW n \in 1..m PROVE r[n] \in Nat /\ (n # k => r[n] # x)
    OBVIOUS
  <2>1. r[n] \in Nat /\ r[k] \in Nat /\ (n < k => r[n] < r[k]) /\ (k < n => r[k] < r[n])
    BY <1>1, <1>5, <1>8
  <2> QED BY <2>1, <1>8, <1>3
<1>11. \A n \in 1..m : n # k => \E p \in 1..(m - 1) : at(p) = n
  <2> SUFFICES ASSUME NEW n \in 1..m, n # k PROVE \E p \in 1..(m - 1) : at(p) = n
    OBVIOUS
  <2>1. CASE n < k
    <3>1. n \in 1..(m - 1) /\ at(n) = n
      BY <2>1, <1>3, <1>8
    <3> QED BY <3>1
  <2>2. CASE k < n
    <3>1. n - 1 \in 1..(m - 1) /\ at(n - 1) = n
      BY <2>2, <1>3, <1>8
    <3> QED BY <3>1
  <2> QED BY <2>1, <2>2, <1>3, <1>8
<1> HIDE DEF at
<1>12. Lists(s, m - 1, T)
  <2>1. s \in [1..(m - 1) -> T]
    BY <1>4, <1>5, <1>9, <1>10
  <2>2. ASSUME NEW n \in 1..(m - 1), NEW p \in 1..(m - 1), n < p PROVE s[n] < s[p]
    <3>1. at(n) \in 1..m /\ at(p) \in 1..m /\ at(n) < at(p) /\ s[n] = r[at(n)] /\ s[p] = r[at(p)]
      BY <2>2, <1>9
    <3> HIDE DEF s
    <3> QED BY <3>1, <1>5
  <2>3. ASSUME NEW i \in T PROVE \E n \in 1..(m - 1) : s[n] = i
    <3>1. PICK n \in 1..m : r[n] = i
      BY <1>4, <1>5
    <3>2. n # k
      BY <3>1, <1>4, <1>8
    <3> QED BY <3>1, <3>2, <1>9, <1>11
  <2> QED BY <2>1, <2>2, <2>3 DEF Lists
<1> HIDE DEF s
<1> DEFINE before == SubSeq(L, 1, k - 1)
           after == SubSeq(L, k + 1, m)
           M == before \o after
<1>13. /\ before \in Seq(Frames) /\ Len(before) = k - 1 /\ \A n \in 1..(k - 1) : before[n] = L[n]
       /\ after \in Seq(Frames) /\ Len(after) = m - k /\ \A n \in 1..(m - k) : after[n] = L[n + k]
  BY <1>3, <1>8
<1> HIDE DEF before, after
<1>14. /\ M \in Seq(Frames) /\ Len(M) = m - 1
       /\ \A n \in 1..(m - 1) : M[n] = L[at(n)]
  <2>1. /\ M \in Seq(Frames) /\ Len(M) = Len(before) + Len(after)
        /\ \A n \in 1..Len(before) + Len(after) :
              M[n] = IF n <= Len(before) THEN before[n] ELSE after[n - Len(before)]
    BY <1>13, ConcatProperties
  <2> HIDE DEF M
  <2>2. Len(M) = m - 1
    BY <2>1, <1>13, <1>3, <1>8
  <2>3. ASSUME NEW n \in 1..(m - 1) PROVE M[n] = L[at(n)]
    <3>1. CASE n < k
      <4>1. M[n] = before[n] /\ n \in 1..(k - 1)
        BY <3>1, <2>1, <1>3, <1>8, <1>13
      <4> QED BY <4>1, <3>1, <1>13 DEF at
    <3>2. CASE ~(n < k)
      <4>1. M[n] = after[n - (k - 1)] /\ n - (k - 1) \in 1..(m - k) /\ n - (k - 1) + k = n + 1
        BY <3>2, <2>1, <1>3, <1>8, <1>13
      <4> QED BY <4>1, <3>2, <1>13 DEF at
    <3> QED BY <3>1, <3>2
  <2> QED BY <2>1, <2>2, <2>3
<1> HIDE DEF M
<1>15. \A n \in 1..(m - 1) : M[n] = new[s[n]]
  <2> SUFFICES ASSUME NEW n \in 1..(m - 1) PROVE M[n] = new[s[n]]
    OBVIOUS
  <2>1. at(n) \in 1..m /\ at(n) # k /\ s[n] = r[at(n)]
    BY <1>9 DEF s
  <2>2. r[at(n)] \in S /\ r[at(n)] # x /\ r[at(n)] \in 1..Len(qs)
    BY <2>1, <1>1, <1>5, <1>10 DEF S
  <2> QED BY <2>1, <2>2, <1>2, <1>6, <1>14
<1>16. Lists(s, m - 1, LiveSlots(h, new)) /\ m - 1 \in Nat
  BY <1>12, <1>9 DEF T
<1>17. LiveFrames(h, new) = M
  BY ONLY <1>2, <1>14, <1>15, <1>16, FramesAre
<1>18. /\ LiveFrames(h, new) = SubSeq(L, 1, k - 1) \o SubSeq(L, k + 1, Len(L)) /\ k \in 1..Len(L)
  BY <1>3, <1>8, <1>17 DEF M, before, after
<1> QED BY <1>2, <1>4, <1>18 DEF new, S, T, L

\* Compaction keeps the live frames, and nothing else.
LEMMA LiveCompact ==
    ASSUME NEW qs \in SlotArrays, NEW h \in 0..Len(qs)
    PROVE  LET L == LiveFrames(h, qs)
           IN L \in SlotArrays /\ LiveSlots(0, L) = 1..Len(L) /\ LiveFrames(0, L) = L
<1> DEFINE L == LiveFrames(h, qs)
<1>1. L \in Seq(Frames)
  BY LiveFacts
<1> HIDE DEF L
<1>2. Len(L) \in Nat /\ L \in SlotArrays /\ \A i \in 1..Len(L) : L[i] \in Frames /\ L[i] # Tombstone
  BY <1>1, WriteQueueAssumption DEF SlotArrays
<1>3. LiveSlots(0, L) = 1..Len(L)
  <2>1. 0 + 1 = 1
    OBVIOUS
  <2> QED BY <2>1, <1>2 DEF LiveSlots, IsFrame
<1> DEFINE r == [n \in 1..Len(L) |-> n]
<1>4. Lists(r, Len(L), LiveSlots(0, L)) /\ \A n \in 1..Len(L) : L[n] = L[r[n]]
  BY <1>2, <1>3 DEF Lists
<1> HIDE DEF r
<1>5. 0 \in 0..Len(L)
  BY <1>2
<1>6. LiveFrames(0, L) = L
  BY ONLY <1>1, <1>2, <1>4, <1>5, FramesAre
<1> QED BY <1>2, <1>3, <1>6 DEF L

\* Moving the head on takes the oldest live frames.
LEMMA LiveAfter ==
    ASSUME NEW qs \in SlotArrays, NEW h \in 0..Len(qs), NEW g \in h..Len(qs)
    PROVE  LET L == LiveFrames(h, qs)
           IN /\ LiveSlots(g, qs) = {i \in LiveSlots(h, qs) : g < i}
              /\ \E k \in 0..Len(L) : LiveFrames(g, qs) = SubSeq(L, k + 1, Len(L))
<1> DEFINE S == LiveSlots(h, qs)
           T == LiveSlots(g, qs)
           L == LiveFrames(h, qs)
<1>1. S \in SUBSET Nat /\ g \in Nat /\ h \in Nat /\ Len(qs) \in Nat /\ g \in 0..Len(qs)
  BY LiveSlotsFacts DEF SlotArrays
<1>2. T = {i \in S : g < i}
  <2>1. \A i : i \in (g + 1)..Len(qs) <=> i \in (h + 1)..Len(qs) /\ g < i
    BY <1>1
  <2> QED BY <2>1 DEF LiveSlots
<1>3. PICK m, r : /\ m \in Nat /\ Lists(r, m, S) /\ L = [n \in 1..m |-> qs[r[n]]]
                  /\ L \in Seq(Frames) /\ Len(L) = m
  BY LiveFacts
<1>4. /\ r \in [1..m -> S] /\ \A n, p \in 1..m : n < p => r[n] < r[p]
      /\ \A i \in S : \E n \in 1..m : r[n] = i
  BY <1>3 DEF Lists
<1>5. \A n \in 1..m : L[n] = qs[r[n]] /\ r[n] \in Nat
  BY <1>1, <1>3, <1>4
<1> HIDE DEF S, T, L
<1>6. PICK k \in 0..m : \A n \in 1..m : r[n] <= g <=> n <= k
  <2> DEFINE P(n) == n \in 1..m /\ g < r[n]
  <2>1. CASE \A n \in 1..m : r[n] <= g
    <3>1. m \in 0..m /\ \A n \in 1..m : n <= m
      BY <1>3
    <3> QED BY <2>1, <3>1
  <2>2. CASE ~ \A n \in 1..m : r[n] <= g
    <3> DEFINE later == {n \in 1..m : g < r[n]}
               R == OpToRel(<, Nat)
    <3>1. later # {} /\ later \in SUBSET Nat
      BY <2>2, <1>1, <1>5
    <3>w. /\ IsWellFoundedOn(R, Nat)
          /\ \A n, p \in Nat : p < n => <<p, n>> \in R
      BY NatLessThanWellFounded DEF OpToRel
    <3> HIDE DEF later, R
    <3>2. PICK n \in later : \A p \in later : <<p, n>> \notin R
      BY <3>1, <3>w, WFMin
    <3>3. n \in 1..m /\ g < r[n] /\ \A p \in 1..m : p < n => ~(g < r[p])
      <4>1. n \in 1..m /\ g < r[n] /\ n \in Nat
        BY <3>2 DEF later
      <4>2. ASSUME NEW p \in 1..m, p < n PROVE ~(g < r[p])
        <5>1. <<p, n>> \in R
          BY <4>1, <4>2, <3>w
        <5>2. p \notin later
          BY <3>2, <5>1
        <5> QED BY <5>2 DEF later
      <4> QED BY <4>1, <4>2
    <3>4. n - 1 \in 0..m /\ \A p \in 1..m : r[p] <= g <=> p <= n - 1
      <4>1. n - 1 \in 0..m
        BY <3>3, <1>3
      <4>2. ASSUME NEW p \in 1..m PROVE r[p] <= g <=> p <= n - 1
        <5>1. r[p] \in Nat /\ r[n] \in Nat
          BY <3>3, <1>5
        <5>2. n < p => r[n] < r[p]
          BY <3>3, <1>4
        <5>3. p < n => ~(g < r[p])
          BY <3>3
        <5> QED BY <5>1, <5>2, <5>3, <3>3, <1>1
      <4> QED BY <4>1, <4>2
    <3> QED BY <3>4
  <2> QED BY <2>1, <2>2
<1> DEFINE s == [n \in 1..(m - k) |-> r[n + k]]
<1>7. /\ m - k \in Nat
      /\ \A n \in 1..(m - k) : n + k \in 1..m /\ ~(n + k <= k) /\ s[n] = r[n + k]
      /\ \A n \in 1..m : ~(n <= k) => n - k \in 1..(m - k) /\ (n - k) + k = n
  BY <1>3, <1>6
<1>8. Lists(s, m - k, T)
  <2>1. s \in [1..(m - k) -> T]
    <3>1. \A n \in 1..(m - k) : r[n + k] \in S /\ g < r[n + k]
      BY <1>1, <1>4, <1>5, <1>6, <1>7
    <3> QED BY <3>1, <1>2
  <2>2. ASSUME NEW n \in 1..(m - k), NEW p \in 1..(m - k), n < p PROVE s[n] < s[p]
    <3>1. n + k < p + k /\ n + k \in 1..m /\ p + k \in 1..m /\ s[n] = r[n + k] /\ s[p] = r[p + k]
      BY <2>2, <1>7, <1>6
    <3> HIDE DEF s
    <3> QED BY <3>1, <1>4
  <2>3. ASSUME NEW i \in T PROVE \E n \in 1..(m - k) : s[n] = i
    <3>1. i \in S /\ g < i /\ i \in Nat
      BY <1>2, <1>1 DEF S
    <3>2. PICK n \in 1..m : r[n] = i
      BY <3>1, <1>4
    <3>3. ~(n <= k)
      BY <3>1, <3>2, <1>6, <1>1
    <3>4. n - k \in 1..(m - k) /\ s[n - k] = r[n]
      BY <3>3, <1>7
    <3> QED BY <3>2, <3>4
  <2> QED BY <2>1, <2>2, <2>3 DEF Lists
<1> HIDE DEF s
<1> DEFINE M == SubSeq(L, k + 1, m)
<1>9. M \in Seq(Frames) /\ Len(M) = m - k /\ \A n \in 1..(m - k) : M[n] = L[n + k]
  <2>1. L \in Seq(Frames) /\ Len(L) = m /\ m \in Nat /\ k \in Nat /\ k <= m
    BY <1>3, <1>6
  <2> HIDE DEF L
  <2>2. \A i \in (k + 1)..m : L[i] \in Frames
    BY <2>1
  <2>3. /\ M \in Seq(Frames) /\ Len(M) = IF k + 1 <= m THEN m - (k + 1) + 1 ELSE 0
        /\ \A n \in 1..(m - (k + 1) + 1) : M[n] = L[(k + 1) + n - 1]
    BY <2>1, <2>2, SubSeqProperties
  <2> HIDE DEF M
  <2> QED BY <2>1, <2>3
<1> HIDE DEF M
<1>10. \A n \in 1..(m - k) : M[n] = qs[s[n]]
  BY <1>5, <1>7, <1>9 DEF s
<1>11. Lists(s, m - k, LiveSlots(g, qs)) /\ m - k \in Nat
  BY <1>7, <1>8 DEF T
<1>12. LiveFrames(g, qs) = M
  BY ONLY <1>1, <1>9, <1>10, <1>11, FramesAre
<1>13. LiveFrames(g, qs) = SubSeq(L, k + 1, Len(L)) /\ k \in 0..Len(L)
  BY <1>3, <1>6, <1>12 DEF M
<1> QED BY <1>2, <1>13 DEF S, T, L

\* The array without what is consumed has the same live frames.
LEMMA LiveDrop ==
    ASSUME NEW qs \in SlotArrays, NEW g \in 0..Len(qs)
    PROVE  LET rest == Remaining(g, qs)
           IN /\ rest \in SlotArrays /\ Len(rest) = Len(qs) - g
              /\ \A i \in 1..(Len(qs) - g) : rest[i] = qs[i + g]
              /\ LiveSlots(0, rest) = {i \in 1..(Len(qs) - g) : i + g \in LiveSlots(g, qs)}
              /\ Cardinality(LiveSlots(0, rest)) = Cardinality(LiveSlots(g, qs))
              /\ LiveFrames(0, rest) = LiveFrames(g, qs)
<1> DEFINE rest == Remaining(g, qs)
           S == LiveSlots(g, qs)
           T == LiveSlots(0, rest)
           L == LiveFrames(g, qs)
<1>1. S \in SUBSET Nat /\ Len(qs) \in Nat /\ g \in Nat /\ \A i \in S : i \in 1..Len(qs) /\ g < i
  BY LiveSlotsFacts DEF SlotArrays
<1>2. /\ rest \in SlotArrays /\ Len(rest) = Len(qs) - g /\ 0 \in 0..Len(rest)
      /\ \A i \in 1..(Len(qs) - g) : rest[i] = qs[i + g]
  <2> DEFINE A == Frames \cup {Tombstone}
  <2>1. g + 1 \in Int /\ Len(qs) \in Int /\ \A i \in (g + 1)..Len(qs) : qs[i] \in A
    BY <1>1 DEF SlotArrays
  <2> HIDE DEF A
  <2>2. /\ rest \in Seq(A) /\ Len(rest) = IF g + 1 <= Len(qs) THEN Len(qs) - (g + 1) + 1 ELSE 0
        /\ \A i \in 1..(Len(qs) - (g + 1) + 1) : rest[i] = qs[(g + 1) + i - 1]
    BY <2>1, SubSeqProperties DEF Remaining
  <2>3. Len(qs) - (g + 1) + 1 = Len(qs) - g /\ \A i \in Nat : (g + 1) + i - 1 = i + g
    BY <1>1
  <2> HIDE DEF rest
  <2>4. Len(rest) = Len(qs) - g /\ Len(qs) - g \in Nat
    BY <2>2, <1>1
  <2>5. ASSUME NEW i \in 1..(Len(qs) - g) PROVE rest[i] = qs[i + g]
    <3>1. i \in 1..(Len(qs) - (g + 1) + 1) /\ (g + 1) + i - 1 = i + g
      BY <2>3, <1>1
    <3>2. rest[i] = qs[(g + 1) + i - 1]
      BY <3>1, <2>2
    <3> QED BY <3>1, <3>2
  <2> QED BY <2>2, <2>4, <2>5 DEF A, SlotArrays
<1> HIDE DEF rest
<1>3. T = {i \in 1..(Len(qs) - g) : i + g \in S}
  <2>1. 0 + 1 = 1 /\ \A i \in 1..(Len(qs) - g) : i + g \in (g + 1)..Len(qs)
    BY <1>1
  <2> QED BY <2>1, <1>2 DEF LiveSlots, IsFrame
<1>4. PICK m, r : /\ m \in Nat /\ Lists(r, m, S) /\ L = [n \in 1..m |-> qs[r[n]]]
                  /\ L \in Seq(Frames) /\ Len(L) = m /\ Cardinality(S) = m
  BY LiveFacts
<1>5. /\ r \in [1..m -> S] /\ \A n, p \in 1..m : n < p => r[n] < r[p]
      /\ \A i \in S : \E n \in 1..m : r[n] = i
  BY <1>4 DEF Lists
<1>6. \A n \in 1..m : L[n] = qs[r[n]]
  BY <1>4
<1> HIDE DEF S, T, L
<1>7. \A n \in 1..m : r[n] \in S /\ r[n] \in 1..Len(qs) /\ g < r[n] /\ r[n] \in Nat
  BY <1>1, <1>5 DEF S
<1> DEFINE s == [n \in 1..m |-> r[n] - g]
<1>8. \A n \in 1..m : /\ s[n] = r[n] - g /\ s[n] \in 1..(Len(qs) - g)
                      /\ s[n] + g = r[n] /\ s[n] \in T
  <2>1. \A n \in 1..m : s[n] = r[n] - g /\ s[n] \in 1..(Len(qs) - g) /\ s[n] + g = r[n]
    BY <1>1, <1>7
  <2> HIDE DEF s
  <2> QED BY <2>1, <1>3, <1>7
<1>9. Lists(s, m, T)
  <2>1. s \in [1..m -> T]
    BY <1>8
  <2> HIDE DEF s
  <2>2. ASSUME NEW n \in 1..m, NEW p \in 1..m, n < p PROVE s[n] < s[p]
    <3>1. r[n] < r[p] /\ r[n] \in Nat /\ r[p] \in Nat /\ s[n] = r[n] - g /\ s[p] = r[p] - g
      BY <2>2, <1>5, <1>7, <1>8
    <3> QED BY <3>1, <1>1
  <2>3. ASSUME NEW i \in T PROVE \E n \in 1..m : s[n] = i
    <3>1. i \in 1..(Len(qs) - g) /\ i + g \in S
      BY <1>3
    <3>2. PICK n \in 1..m : r[n] = i + g
      BY <3>1, <1>5
    <3> QED BY <3>1, <3>2, <1>1, <1>8
  <2> QED BY <2>1, <2>2, <2>3 DEF Lists
<1> HIDE DEF s
<1>10. ASSUME NEW n \in 1..m PROVE L[n] = rest[s[n]]
  <2>1. s[n] \in 1..(Len(qs) - g) /\ s[n] + g = r[n]
    BY <1>8
  <2>2. rest[s[n]] = qs[s[n] + g]
    BY <2>1, <1>2
  <2> QED BY <2>1, <2>2, <1>6
<1>11. Lists(s, m, LiveSlots(0, rest)) /\ m \in Nat /\ L \in Seq(Frames) /\ Len(L) = m
  BY <1>4, <1>9 DEF T
<1>12. LiveFrames(0, rest) = L
  BY ONLY <1>2, <1>10, <1>11, FramesAre
<1>13. Cardinality(LiveSlots(0, rest)) = m
  BY ONLY <1>2, <1>11, LiveListed
<1> QED BY <1>2, <1>3, <1>4, <1>12, <1>13 DEF rest, S, T, L

\* Erasing what is behind the head changes nothing that is live.
LEMMA LiveErase ==
    ASSUME NEW qs \in SlotArrays, NEW g \in 0..Len(qs)
    PROVE  LET new == [i \in 1..Len(qs) |-> IF i <= g THEN Tombstone ELSE qs[i]]
           IN /\ new \in SlotArrays /\ Len(new) = Len(qs)
              /\ LiveSlots(g, new) = LiveSlots(g, qs)
              /\ \A i \in LiveSlots(g, qs) : new[i] = qs[i]
              /\ LiveFrames(g, new) = LiveFrames(g, qs)
<1> DEFINE new == [i \in 1..Len(qs) |-> IF i <= g THEN Tombstone ELSE qs[i]]
<1>1. Len(qs) \in Nat /\ g \in Nat /\ \A i \in LiveSlots(g, qs) : i \in 1..Len(qs) /\ g < i
  BY LiveSlotsFacts DEF SlotArrays
<1>2. new \in SlotArrays /\ Len(new) = Len(qs)
  BY <1>1 DEF SlotArrays
<1>3. \A i \in (g + 1)..Len(qs) : i \in 1..Len(qs) /\ new[i] = qs[i]
  BY <1>1
<1> HIDE DEF new
<1>4. LiveSlots(g, new) = LiveSlots(g, qs)
  BY <1>2, <1>3 DEF LiveSlots
<1>5. \A i \in LiveSlots(g, qs) : new[i] = qs[i]
  BY <1>3 DEF LiveSlots
<1>6. PICK m, r : /\ m \in Nat /\ Lists(r, m, LiveSlots(g, qs))
                  /\ LiveFrames(g, qs) = [n \in 1..m |-> qs[r[n]]]
                  /\ LiveFrames(g, qs) \in Seq(Frames) /\ Len(LiveFrames(g, qs)) = m
  BY LiveFacts
<1> DEFINE L == LiveFrames(g, qs)
<1>7. \A n \in 1..m : L[n] = new[r[n]]
  <2>1. \A n \in 1..m : r[n] \in LiveSlots(g, qs)
    BY <1>6 DEF Lists
  <2> QED BY <2>1, <1>5, <1>6
<1>8. Lists(r, m, LiveSlots(g, new)) /\ m \in Nat /\ L \in Seq(Frames) /\ Len(L) = m /\ g \in 0..Len(new)
  BY <1>2, <1>4, <1>6
<1> HIDE DEF L
<1>9. LiveFrames(g, new) = L
  BY ONLY <1>2, <1>7, <1>8, FramesAre
<1> QED BY <1>2, <1>4, <1>5, <1>9 DEF new, L

\* Without a live slot there is no live frame.
LEMMA LiveNone ==
    ASSUME NEW qs \in SlotArrays, NEW h \in 0..Len(qs), LiveSlots(h, qs) = {}
    PROVE  LiveFrames(h, qs) = <<>>
<1> DEFINE r == [n \in 1..0 |-> 0]
           L == <<>>
<1>1. Lists(r, 0, LiveSlots(h, qs)) /\ L \in Seq(Frames) /\ Len(L) = 0 /\ \A n \in 1..0 : L[n] = qs[r[n]]
  BY DEF Lists
<1>2. 0 \in Nat
  OBVIOUS
<1> DEFINE m == 0
<1>3. /\ m \in Nat /\ Lists(r, m, LiveSlots(h, qs)) /\ L \in Seq(Frames) /\ Len(L) = m
      /\ \A n \in 1..m : L[n] = qs[r[n]]
      /\ qs \in SlotArrays /\ h \in 0..Len(qs)
  BY <1>1, <1>2
<1> HIDE DEF r, L, m
<1>4. LiveFrames(h, qs) = L
  BY ONLY <1>3, FramesAre
<1> QED BY <1>4 DEF L

---------------------------------------------------------------------------
(* The bytes of some frames.                                               *)

LEMMA BytesAreNat ==
    ASSUME NEW A \in SUBSET Frames, IsFiniteSet(A)
    PROVE  /\ IsFiniteSet(UNION {{f} \X (1..Bytes[f]) : f \in A})
           /\ BytesOf(A) \in Nat
<1> DEFINE parts == {{f} \X (1..Bytes[f]) : f \in A}
<1>1. IsFiniteSet(parts)
  <2> DEFINE unit == [f \in A |-> {f} \X (1..Bytes[f])]
  <2>1. unit \in Surjection(A, parts)
    BY DEF Surjection
  <2> QED BY <2>1, FS_Surjection
<1>2. \A p \in parts : IsFiniteSet(p)
  <2> SUFFICES ASSUME NEW f \in A PROVE IsFiniteSet({f} \X (1..Bytes[f]))
    OBVIOUS
  <2>1. Bytes[f] \in Nat
    BY WriteQueueAssumption
  <2> DEFINE one == {f}
             n == Bytes[f]
             bytes == 1..n
  <2>a. n \in Int /\ 1 \in Int
    BY <2>1
  <2> HIDE DEF n
  <2>2. IsFiniteSet(one) /\ IsFiniteSet(bytes)
    BY <2>a, FS_Singleton, FS_Interval
  <2> HIDE DEF one, bytes
  <2>3. IsFiniteSet(one \X bytes)
    BY <2>2, FS_Product
  <2> QED BY <2>3 DEF one, bytes, n
<1> DEFINE sum == UNION parts
<1> HIDE DEF parts
<1>3. IsFiniteSet(sum)
  BY <1>1, <1>2, FS_UNION
<1>4. BytesOf(A) = Cardinality(sum)
  BY DEF BytesOf, parts
<1> HIDE DEF sum
<1>5. Cardinality(sum) \in Nat
  BY <1>3, FS_CardinalityType
<1> QED BY <1>3, <1>4, <1>5 DEF sum, parts

\* The bytes of frames that are apart add up.
LEMMA BytesAdd ==
    ASSUME NEW A \in SUBSET Frames, IsFiniteSet(A), NEW B \in SUBSET Frames, IsFiniteSet(B),
           A \cap B = {}
    PROVE  BytesOf(A \cup B) = BytesOf(A) + BytesOf(B)
<1> DEFINE of(C) == UNION {{f} \X (1..Bytes[f]) : f \in C}
           a == of(A)
           b == of(B)
<1>1. IsFiniteSet(a) /\ IsFiniteSet(b)
  BY BytesAreNat
<1>2. of(A \cup B) = a \cup b
  OBVIOUS
<1>3. a \cap b = {}
  OBVIOUS
<1>4. /\ BytesOf(A) = Cardinality(a) /\ BytesOf(B) = Cardinality(b)
      /\ BytesOf(A \cup B) = Cardinality(a \cup b)
  BY <1>2 DEF BytesOf
<1> HIDE DEF a, b
<1>5. Cardinality(a \cup b) = Cardinality(a) + Cardinality(b) - Cardinality(a \cap b)
  BY <1>1, FS_Union
<1>6. Cardinality(a \cap b) = 0 /\ Cardinality(a) \in Nat /\ Cardinality(b) \in Nat
  BY <1>1, <1>3, FS_EmptySet, FS_CardinalityType
<1> QED BY <1>4, <1>5, <1>6

LEMMA BytesOfOne ==
    ASSUME NEW f \in Frames
    PROVE  BytesOf({f}) = Bytes[f] /\ Bytes[f] \in Nat /\ BytesOf({}) = 0
<1> DEFINE one == {f}
           n == Bytes[f]
           bytes == 1..n
<1>1. n \in Nat /\ n \in Int /\ 1 \in Int /\ Bytes[f] = n
  BY WriteQueueAssumption
<1> HIDE DEF n
<1>2. IsFiniteSet(one) /\ Cardinality(one) = 1 /\ IsFiniteSet(bytes) /\ Cardinality(bytes) = n
  <2>1. IsFiniteSet(one) /\ Cardinality(one) = 1
    BY FS_Singleton
  <2>2. IsFiniteSet(bytes) /\ Cardinality(bytes) = n
    BY <1>1, FS_Interval
  <2> QED BY <2>1, <2>2
<1>3. BytesOf({f}) = Cardinality(one \X bytes)
  <2>1. UNION {{e} \X (1..Bytes[e]) : e \in {f}} = {f} \X (1..Bytes[f])
    OBVIOUS
  <2> QED BY <2>1, <1>1 DEF BytesOf
<1> HIDE DEF one, bytes
<1>4. Cardinality(one \X bytes) = Cardinality(one) * Cardinality(bytes)
  BY <1>2, FS_Product
<1>5. BytesOf({}) = 0
  <2>1. UNION {{e} \X (1..Bytes[e]) : e \in {}} = {}
    OBVIOUS
  <2> QED BY <2>1, FS_EmptySet DEF BytesOf
<1> QED BY <1>1, <1>2, <1>3, <1>4, <1>5

---------------------------------------------------------------------------
(* What the operations do to an array that is in step with its index.      *)

LEMMA EmptyInStep ==
    /\ InStep(<<>>, 0, 0, {}) /\ Erased(<<>>, 0) /\ LiveFrames(0, <<>>) = <<>>
<1> DEFINE none == <<>>
<1>1. none \in SlotArrays /\ Len(none) = 0 /\ 0 \in 0..Len(none)
  BY DEF SlotArrays
<1> HIDE DEF none
<1>2. LiveSlots(0, none) = {}
  BY <1>1 DEF LiveSlots
<1>3. LiveFrames(0, none) = <<>>
  BY <1>1, <1>2, LiveNone
<1>4. InStep(none, 0, 0, {})
  <2>1. IsFiniteSet({}) /\ Cardinality({}) = 0
    BY FS_EmptySet
  <2> DEFINE S == LiveSlots(0, none)
  <2>2. {} = {none[i] : i \in S} /\ (\A i, k \in S : none[i] = none[k] => i = k)
    BY <1>2
  <2>3. 0 + Cardinality(S) = Len(none) - 0
    BY <1>1, <1>2, <2>1
  <2> QED BY <1>1, <2>1, <2>2, <2>3 DEF InStep
<1> QED BY <1>3, <1>4 DEF none, Erased

LEMMA AppendInStep ==
    ASSUME NEW qs, NEW h, NEW t, NEW index, InStep(qs, h, t, index), NEW f \in Frames \ index
    PROVE  InStep(Append(qs, f), h, t, index \cup {f})
<1> DEFINE new == Append(qs, f)
           S == LiveSlots(h, qs)
           last == Len(qs) + 1
<1>1. /\ qs \in SlotArrays /\ h \in 0..Len(qs) /\ t \in Nat /\ index \in SUBSET Frames
      /\ IsFiniteSet(index) /\ index = {qs[i] : i \in S}
      /\ \A i, k \in S : qs[i] = qs[k] => i = k
      /\ t + Cardinality(S) = Len(qs) - h
  BY DEF InStep
<1>2. LiveSlots(h, new) = S \cup {last}
  BY <1>1, LiveAppend
<1>3. /\ IsFiniteSet(S) /\ Cardinality(S) \in Nat
      /\ \A i \in S : i \in 1..Len(qs)
  BY <1>1, LiveSlotsFacts
<1>4. /\ new \in SlotArrays /\ Len(qs) \in Nat /\ Len(new) = last /\ h \in 0..Len(new)
      /\ new[last] = f /\ \A i \in 1..Len(qs) : new[i] = qs[i]
  BY <1>1 DEF SlotArrays
<1> HIDE DEF new, S
<1>5. last \notin S
  BY <1>3, <1>4
<1>6. Cardinality(S \cup {last}) = Cardinality(S) + 1
  BY <1>3, <1>5, FS_AddElement
<1>7. IsFiniteSet(index \cup {f})
  BY <1>1, FS_AddElement
<1>8. \A i \in S : new[i] = qs[i] /\ qs[i] # f
  BY <1>1, <1>3, <1>4
<1>9. index \cup {f} = {new[i] : i \in S \cup {last}}
  BY <1>1, <1>4, <1>8
<1>10. \A i, k \in S \cup {last} : new[i] = new[k] => i = k
  BY <1>1, <1>4, <1>8
<1>11. t + Cardinality(S \cup {last}) = Len(new) - h
  BY <1>1, <1>3, <1>4, <1>6
<1> QED BY <1>1, <1>2, <1>4, <1>7, <1>9, <1>10, <1>11 DEF InStep, new

LEMMA CancelInStep ==
    ASSUME NEW qs, NEW h, NEW t, NEW index, InStep(qs, h, t, index), NEW x \in LiveSlots(h, qs)
    PROVE  InStep([qs EXCEPT ![x] = Tombstone], h, t + 1, index \ {qs[x]})
<1> DEFINE new == [qs EXCEPT ![x] = Tombstone]
           S == LiveSlots(h, qs)
<1>1. /\ qs \in SlotArrays /\ h \in 0..Len(qs) /\ t \in Nat /\ index \in SUBSET Frames
      /\ IsFiniteSet(index) /\ index = {qs[i] : i \in S}
      /\ \A i, k \in S : qs[i] = qs[k] => i = k
      /\ t + Cardinality(S) = Len(qs) - h
  BY DEF InStep
<1>2. new \in SlotArrays /\ Len(new) = Len(qs) /\ LiveSlots(h, new) = S \ {x}
  BY <1>1, LiveCancel
<1>3. IsFiniteSet(S) /\ Cardinality(S) \in Nat /\ \A i \in S : i \in 1..Len(qs)
  BY <1>1, LiveSlotsFacts
<1>4. x \in S /\ Len(qs) \in Nat /\ h \in Nat /\ \A i \in 1..Len(qs) : i # x => new[i] = qs[i]
  BY <1>1, <1>3 DEF SlotArrays
<1> HIDE DEF new, S
<1>5. Cardinality(S \ {x}) = Cardinality(S) - 1
  BY <1>3, <1>4, FS_RemoveElement
<1>6. IsFiniteSet(index \ {qs[x]})
  BY <1>1, FS_RemoveElement
<1>7. \A i \in S \ {x} : new[i] = qs[i] /\ qs[i] # qs[x]
  BY <1>1, <1>3, <1>4
<1>8. index \ {qs[x]} = {new[i] : i \in S \ {x}}
  BY <1>1, <1>4, <1>7
<1>9. \A i, k \in S \ {x} : new[i] = new[k] => i = k
  BY <1>1, <1>7
<1>10. (t + 1) + Cardinality(S \ {x}) = Len(new) - h /\ t + 1 \in Nat
  BY <1>1, <1>2, <1>3, <1>5, <1>4
<1> QED BY <1>1, <1>2, <1>6, <1>8, <1>9, <1>10 DEF InStep, new

LEMMA CompactInStep ==
    ASSUME NEW qs, NEW h, NEW t, NEW index, InStep(qs, h, t, index)
    PROVE  InStep(LiveFrames(h, qs), 0, 0, index)
<1> DEFINE L == LiveFrames(h, qs)
           S == LiveSlots(h, qs)
<1>1. /\ qs \in SlotArrays /\ h \in 0..Len(qs) /\ index \in SUBSET Frames
      /\ IsFiniteSet(index) /\ index = {qs[i] : i \in S}
      /\ \A i, k \in S : qs[i] = qs[k] => i = k
  BY DEF InStep
<1>2. L \in SlotArrays /\ LiveSlots(0, L) = 1..Len(L)
  BY <1>1, LiveCompact
<1>3. PICK m, r : /\ m \in Nat /\ Lists(r, m, S) /\ L = [n \in 1..m |-> qs[r[n]]] /\ Len(L) = m
                  /\ {L[n] : n \in 1..m} = {qs[i] : i \in S}
  BY <1>1, LiveFacts
<1>4. /\ \A n \in 1..m : r[n] \in S /\ r[n] \in Nat /\ L[n] = qs[r[n]]
      /\ \A n, k \in 1..m : n < k => r[n] < r[k]
  BY <1>1, <1>3, LiveSlotsFacts DEF Lists
<1> HIDE DEF L, S
<1>5. \A n, k \in 1..m : L[n] = L[k] => n = k
  <2> SUFFICES ASSUME NEW n \in 1..m, NEW k \in 1..m, L[n] = L[k] PROVE n = k
    OBVIOUS
  <2>1. r[n] = r[k]
    BY <1>1, <1>4
  <2>2. ~(n < k) /\ ~(k < n)
    BY <2>1, <1>4
  <2> QED BY <2>2
<1>6. Cardinality(1..m) = m
  BY <1>3, FS_Interval
<1>7. 0 + Cardinality(1..m) = Len(L) - 0 /\ 0 \in 0..Len(L) /\ 0 \in Nat
  BY <1>3, <1>6
<1> QED BY <1>1, <1>2, <1>3, <1>5, <1>7 DEF InStep, L

\* The slots from h to g that have a frame, their frames, and how many have none.
Consumed(qs, h, g) == {i \in (h + 1)..g : IsFrame(qs[i])}
Written(qs, h, g) == {qs[i] : i \in Consumed(qs, h, g)}
Skipped(qs, h, g) == (g - h) - Cardinality(Consumed(qs, h, g))

\* What flush() writes leaves the index, and the tombstones it skips are counted off.
LEMMA AfterInStep ==
    ASSUME NEW qs, NEW h, NEW t, NEW index, InStep(qs, h, t, index), NEW g \in h..Len(qs)
    PROVE  /\ Written(qs, h, g) \in SUBSET index
           /\ NonNegative(t - Skipped(qs, h, g)) = t - Skipped(qs, h, g)
           /\ InStep(qs, g, t - Skipped(qs, h, g), index \ Written(qs, h, g))
<1> DEFINE consumed == {i \in (h + 1)..g : IsFrame(qs[i])}
           written == {qs[i] : i \in consumed}
           skipped == (g - h) - Cardinality(consumed)
           S == LiveSlots(h, qs)
           T == LiveSlots(g, qs)
<1>1. /\ qs \in SlotArrays /\ h \in 0..Len(qs) /\ t \in Nat /\ index \in SUBSET Frames
      /\ IsFiniteSet(index) /\ index = {qs[i] : i \in S}
      /\ \A i, k \in S : qs[i] = qs[k] => i = k
      /\ t + Cardinality(S) = Len(qs) - h
  BY DEF InStep
<1>2. Len(qs) \in Nat /\ h \in Nat /\ g \in Nat /\ g \in 0..Len(qs) /\ h <= g /\ g <= Len(qs)
  BY <1>1 DEF SlotArrays
<1>3. T = {i \in S : g < i}
  BY <1>1, LiveAfter
<1>4. IsFiniteSet(S) /\ S \in SUBSET Nat
  BY <1>1, LiveSlotsFacts
<1>5. consumed = {i \in S : ~(g < i)}
  <2>1. \A i : i \in (h + 1)..g <=> i \in (h + 1)..Len(qs) /\ ~(g < i)
    BY <1>2
  <2> QED BY <2>1 DEF LiveSlots
<1>6. T \in SUBSET ((g + 1)..Len(qs))
  BY DEF LiveSlots
<1> HIDE DEF consumed, S, T
<1>7. S = consumed \cup T /\ consumed \cap T = {} /\ consumed \in SUBSET S /\ T \in SUBSET S
  BY <1>3, <1>5
<1>8. /\ IsFiniteSet(consumed) /\ IsFiniteSet(T)
      /\ Cardinality(consumed) \in Nat /\ Cardinality(T) \in Nat
      /\ Cardinality(S) = Cardinality(consumed) + Cardinality(T)
  <2>1. IsFiniteSet(consumed) /\ IsFiniteSet(T)
    BY <1>4, <1>7, FS_Subset
  <2>2. Cardinality(consumed) \in Nat /\ Cardinality(T) \in Nat /\ Cardinality(consumed \cap T) = 0
    BY <2>1, <1>7, FS_CardinalityType, FS_EmptySet
  <2>3. Cardinality(consumed \cup T) = Cardinality(consumed) + Cardinality(T) - Cardinality(consumed \cap T)
    BY <2>1, FS_Union
  <2> QED BY <2>1, <2>2, <2>3, <1>7
<1>9. Cardinality(T) <= Len(qs) - g
  <2> DEFINE behind == (g + 1)..Len(qs)
  <2>1. IsFiniteSet(behind) /\ Cardinality(behind) = Len(qs) - g
    <3>1. g + 1 \in Int /\ Len(qs) \in Int
      BY <1>2
    <3>2. /\ IsFiniteSet(behind)
          /\ Cardinality(behind) = IF g + 1 > Len(qs) THEN 0 ELSE Len(qs) - (g + 1) + 1
      BY <3>1, FS_Interval
    <3> QED BY <3>2, <1>2
  <2> HIDE DEF behind
  <2>2. T \in SUBSET behind
    BY <1>6 DEF behind
  <2> QED BY <2>1, <2>2, FS_Subset
<1>10. /\ t - skipped \in Nat /\ (t - skipped) + Cardinality(T) = Len(qs) - g
  <2> DEFINE c == Cardinality(consumed)
             k == Cardinality(T)
             n == Len(qs)
  <2>1. /\ t \in Nat /\ h \in Nat /\ g \in Nat /\ n \in Nat /\ c \in Nat /\ k \in Nat
        /\ t + (c + k) = n - h /\ k <= n - g /\ h <= g
    BY <1>1, <1>2, <1>8, <1>9
  <2>2. skipped = (g - h) - c
    OBVIOUS
  <2> HIDE DEF c, k, n, skipped
  <2>3. t - skipped \in Nat /\ (t - skipped) + k = n - g
    BY <2>1, <2>2
  <2> QED BY <2>3 DEF k, n
<1>11. NonNegative(t - skipped) = t - skipped
  BY <1>10 DEF NonNegative
<1>12. written \in SUBSET index /\ index \ written = {qs[i] : i \in T}
  BY <1>1, <1>7
<1>13. IsFiniteSet(index \ written)
  BY <1>1, <1>12, FS_Subset
<1>14. \A i, k \in T : qs[i] = qs[k] => i = k
  BY <1>1, <1>7
<1> HIDE DEF written, skipped
<1> DEFINE rest == index \ written
           left == t - skipped
<1>15. /\ qs \in SlotArrays /\ g \in 0..Len(qs) /\ left \in Nat
       /\ rest \in SUBSET Frames /\ IsFiniteSet(rest)
  BY <1>1, <1>2, <1>10, <1>13
<1>16. /\ rest = {qs[i] : i \in LiveSlots(g, qs)}
       /\ \A i, k \in LiveSlots(g, qs) : qs[i] = qs[k] => i = k
       /\ left + Cardinality(LiveSlots(g, qs)) = Len(qs) - g
  BY <1>10, <1>12, <1>14 DEF T
<1> HIDE DEF rest, left
<1>17. InStep(qs, g, left, rest)
  BY <1>15, <1>16 DEF InStep
<1> QED BY <1>11, <1>12, <1>17 DEF consumed, written, skipped, rest, left, Consumed, Written, Skipped

LEMMA DropInStep ==
    ASSUME NEW qs, NEW g, NEW t, NEW index, InStep(qs, g, t, index)
    PROVE  InStep(Remaining(g, qs), 0, t, index)
<1> DEFINE rest == Remaining(g, qs)
           S == LiveSlots(g, qs)
           T == LiveSlots(0, rest)
<1>1. /\ qs \in SlotArrays /\ g \in 0..Len(qs) /\ t \in Nat /\ index \in SUBSET Frames
      /\ IsFiniteSet(index) /\ index = {qs[i] : i \in S}
      /\ \A i, k \in S : qs[i] = qs[k] => i = k
      /\ t + Cardinality(S) = Len(qs) - g
  BY DEF InStep
<1>2. /\ rest \in SlotArrays /\ Len(rest) = Len(qs) - g
      /\ \A i \in 1..(Len(qs) - g) : rest[i] = qs[i + g]
      /\ T = {i \in 1..(Len(qs) - g) : i + g \in S}
      /\ Cardinality(T) = Cardinality(S)
  BY <1>1, LiveDrop
<1>3. /\ Len(qs) \in Nat /\ g \in Nat /\ S \in SUBSET Nat
      /\ \A i \in S : i \in 1..Len(qs) /\ g < i
  BY <1>1, LiveSlotsFacts DEF SlotArrays
<1> HIDE DEF rest, S, T
<1>4. \A i \in T : i \in Nat /\ i + g \in S /\ rest[i] = qs[i + g]
  BY <1>2
<1>5. \A k \in S : k - g \in T /\ rest[k - g] = qs[k]
  <2> SUFFICES ASSUME NEW k \in S PROVE k - g \in T /\ rest[k - g] = qs[k]
    OBVIOUS
  <2>1. k - g \in 1..(Len(qs) - g) /\ (k - g) + g = k
    BY <1>3
  <2> QED BY <2>1, <1>2
<1>6. index = {rest[i] : i \in T}
  BY <1>1, <1>4, <1>5
<1>7. \A i, k \in T : rest[i] = rest[k] => i = k
  <2> SUFFICES ASSUME NEW i \in T, NEW k \in T, rest[i] = rest[k] PROVE i = k
    OBVIOUS
  <2>1. i + g = k + g
    BY <1>1, <1>4
  <2> QED BY <2>1, <1>3, <1>4
<1>8. t + Cardinality(T) = Len(rest) - 0 /\ 0 \in 0..Len(rest)
  BY <1>1, <1>2, <1>3
<1> QED BY <1>1, <1>2, <1>6, <1>7, <1>8 DEF InStep, rest, T

LEMMA EraseInStep ==
    ASSUME NEW qs, NEW g, NEW t, NEW index, InStep(qs, g, t, index)
    PROVE  LET new == [i \in 1..Len(qs) |-> IF i <= g THEN Tombstone ELSE qs[i]]
           IN InStep(new, g, t, index) /\ Erased(new, g)
<1> DEFINE new == [i \in 1..Len(qs) |-> IF i <= g THEN Tombstone ELSE qs[i]]
           S == LiveSlots(g, qs)
<1>1. /\ qs \in SlotArrays /\ g \in 0..Len(qs) /\ t \in Nat /\ index \in SUBSET Frames
      /\ IsFiniteSet(index) /\ index = {qs[i] : i \in S}
      /\ \A i, k \in S : qs[i] = qs[k] => i = k
      /\ t + Cardinality(S) = Len(qs) - g
  BY DEF InStep
<1>2. /\ new \in SlotArrays /\ Len(new) = Len(qs)
      /\ LiveSlots(g, new) = S /\ \A i \in S : new[i] = qs[i]
  BY <1>1, LiveErase
<1>3. Erased(new, g)
  BY <1>1 DEF Erased, SlotArrays
<1> HIDE DEF new, S
<1>4. index = {new[i] : i \in S} /\ \A i, k \in S : new[i] = new[k] => i = k
  BY <1>1, <1>2
<1>5. InStep(new, g, t, index)
  BY <1>1, <1>2, <1>4 DEF InStep
<1> QED BY <1>3, <1>5 DEF new

---------------------------------------------------------------------------
(* The steps: each keeps the invariant and is a step, or none, of the      *)
(* first-in first-out queue.                                               *)

FifoStep == Fifo!Next \/ Live' = Live

LEMMA LiveIsSeq ==
    ASSUME Inv
    PROVE  /\ Live \in Seq(Frames) /\ Len(Live) \in Nat
           /\ Fifo!Present = queuedWritesByRequest
<1>1. /\ queuedWrites \in SlotArrays /\ queuedWriteHead \in 0..Len(queuedWrites)
      /\ queuedWritesByRequest = {queuedWrites[i] : i \in LiveSlots(queuedWriteHead, queuedWrites)}
  BY DEF Inv, SlotsOK, InStep
<1>2. PICK m, r : /\ m \in Nat /\ Live \in Seq(Frames) /\ Len(Live) = m
                  /\ {Live[n] : n \in 1..m}
                        = {queuedWrites[i] : i \in LiveSlots(queuedWriteHead, queuedWrites)}
  BY <1>1, LiveFacts DEF Live
<1> QED BY <1>1, <1>2 DEF Fifo!Present

\* The invariant of the next state, from the parts an operation leaves.
LEMMA InvNext ==
    ASSUME InStep(queuedWrites', queuedWriteHead', queuedWriteTombstones', queuedWritesByRequest'),
           Erased(queuedWrites', queuedWriteHead'),
           writeBlocked' \in BOOLEAN,
           queuedWriteBytes' = BytesOf(queuedWritesByRequest'),
           queuedWriteBytes' <= MaxQueuedWriteBytes
    PROVE  Inv'
<1>1. /\ queuedWrites' \in SlotArrays /\ queuedWriteHead' \in 0..Len(queuedWrites')
      /\ queuedWriteTombstones' \in Nat
      /\ queuedWritesByRequest' \in SUBSET Frames /\ IsFiniteSet(queuedWritesByRequest')
  BY DEF InStep
<1>2. queuedWriteBytes' \in Nat
  BY <1>1, BytesAreNat
<1> QED BY <1>1, <1>2 DEF Inv, TypeOK, SlotsOK, BytesOK, InStep, Erased, BytesOf, LiveSlots, IsFrame

LEMMA WriteQueuedStep ==
    ASSUME Inv, NEW f \in Frames, WriteQueued(f)
    PROVE  Inv' /\ FifoStep
<1> DEFINE index == queuedWritesByRequest
<1>1. /\ f \notin index
      /\ Bytes[f] <= MaxQueuedWriteBytes - queuedWriteBytes
      /\ queuedWrites' = Append(queuedWrites, f)
      /\ queuedWritesByRequest' = index \cup {f}
      /\ queuedWriteBytes' = queuedWriteBytes + Bytes[f]
      /\ queuedWriteHead' = queuedWriteHead /\ queuedWriteTombstones' = queuedWriteTombstones
      /\ writeBlocked' = writeBlocked
  BY DEF WriteQueued
<1>2. /\ InStep(queuedWrites, queuedWriteHead, queuedWriteTombstones, index)
      /\ Erased(queuedWrites, queuedWriteHead)
      /\ queuedWriteBytes = BytesOf(index) /\ queuedWriteBytes \in Nat
      /\ index \in SUBSET Frames /\ IsFiniteSet(index) /\ writeBlocked \in BOOLEAN
      /\ queuedWrites \in SlotArrays /\ queuedWriteHead \in 0..Len(queuedWrites)
  BY DEF Inv, TypeOK, SlotsOK, BytesOK, InStep
<1>3. InStep(queuedWrites', queuedWriteHead', queuedWriteTombstones', queuedWritesByRequest')
  BY <1>1, <1>2, AppendInStep
<1>4. Erased(queuedWrites', queuedWriteHead')
  <2>1. \A i \in 1..queuedWriteHead : i \in 1..Len(queuedWrites)
    BY <1>2 DEF SlotArrays
  <2>2. \A i \in 1..Len(queuedWrites) : Append(queuedWrites, f)[i] = queuedWrites[i]
    BY <1>2 DEF SlotArrays
  <2> QED BY <2>1, <2>2, <1>1, <1>2 DEF Erased
<1>5. queuedWriteBytes' = BytesOf(queuedWritesByRequest')
  <2> DEFINE one == {f}
  <2>1. one \in SUBSET Frames /\ IsFiniteSet(one) /\ index \cap one = {}
    BY <1>1, FS_Singleton
  <2>2. BytesOf(one) = Bytes[f]
    BY BytesOfOne
  <2> HIDE DEF one, index
  <2>3. BytesOf(index \cup one) = BytesOf(index) + BytesOf(one)
    BY <2>1, <1>2, BytesAdd
  <2> QED BY <2>2, <2>3, <1>1, <1>2 DEF one
<1>6. queuedWriteBytes' <= MaxQueuedWriteBytes
  BY <1>1, <1>2, WriteQueueAssumption
<1>7. Inv'
  BY <1>1, <1>2, <1>3, <1>4, <1>5, <1>6, InvNext
<1>8. Live' = Append(Live, f)
  <2>1. LiveFrames(queuedWriteHead, Append(queuedWrites, f))
            = Append(LiveFrames(queuedWriteHead, queuedWrites), f)
    BY <1>2, LiveAppend
  <2>2. Live' = LiveFrames(queuedWriteHead', queuedWrites')
    BY DEF Live, LiveFrames, LiveSlots, NthSlot, IsFrame
  <2> QED BY <2>1, <2>2, <1>1 DEF Live
<1>9. Fifo!Push(f)
  BY <1>1, <1>8, LiveIsSeq DEF Fifo!Push
<1> QED BY <1>7, <1>9 DEF FifoStep, Fifo!Next

\* An index that loses frames loses their bytes.
LEMMA BytesLeft ==
    ASSUME NEW index \in SUBSET Frames, IsFiniteSet(index), NEW gone \in SUBSET index,
           BytesOf(index) <= MaxQueuedWriteBytes
    PROVE  /\ NonNegative(BytesOf(index) - BytesOf(gone)) = BytesOf(index \ gone)
           /\ BytesOf(index \ gone) <= MaxQueuedWriteBytes
<1> DEFINE rest == index \ gone
<1>1. /\ rest \in SUBSET Frames /\ IsFiniteSet(rest) /\ gone \in SUBSET Frames /\ IsFiniteSet(gone)
      /\ rest \cap gone = {} /\ rest \cup gone = index
  BY FS_Subset
<1> HIDE DEF rest
<1>2. BytesOf(index) = BytesOf(rest) + BytesOf(gone)
  BY <1>1, BytesAdd
<1>3. BytesOf(rest) \in Nat /\ BytesOf(gone) \in Nat
  BY <1>1, BytesAreNat
<1>4. NonNegative(BytesOf(index) - BytesOf(gone)) = BytesOf(rest)
  BY <1>2, <1>3 DEF NonNegative
<1> QED BY <1>2, <1>3, <1>4, WriteQueueAssumption DEF rest

\* An emptied array: nothing is live, and what was live has been taken or withdrawn.
LEMMA Emptied ==
    ASSUME EmptyArray, queuedWritesByRequest' = {}
    PROVE  /\ InStep(queuedWrites', queuedWriteHead', queuedWriteTombstones', queuedWritesByRequest')
           /\ Erased(queuedWrites', queuedWriteHead')
           /\ Live' = <<>>
<1>1. queuedWrites' = <<>> /\ queuedWriteHead' = 0 /\ queuedWriteTombstones' = 0
  BY DEF EmptyArray
<1>2. Live' = LiveFrames(queuedWriteHead', queuedWrites')
  BY DEF Live, LiveFrames, LiveSlots, NthSlot, IsFrame
<1> QED BY <1>1, <1>2, EmptyInStep

LEMMA CancelStep ==
    ASSUME Inv, NEW i \in 1..Len(queuedWrites), Cancel(i)
    PROVE  Inv' /\ FifoStep
<1> DEFINE f == queuedWrites[i]
           index == queuedWritesByRequest
           new == [queuedWrites EXCEPT ![i] = Tombstone]
           h == queuedWriteHead
           t == queuedWriteTombstones
<1>1. /\ f \in index /\ queuedWritesByRequest' = index \ {f}
      /\ queuedWriteBytes' = NonNegative(queuedWriteBytes - Bytes[f])
      /\ CompactTombstones(new, t + 1)
      /\ writeBlocked' = writeBlocked
  BY DEF Cancel
<1>2. /\ InStep(queuedWrites, h, t, index) /\ Erased(queuedWrites, h)
      /\ queuedWriteBytes = BytesOf(index) /\ queuedWriteBytes <= MaxQueuedWriteBytes
      /\ index \in SUBSET Frames /\ IsFiniteSet(index) /\ writeBlocked \in BOOLEAN
      /\ queuedWrites \in SlotArrays /\ h \in 0..Len(queuedWrites)
  BY DEF Inv, TypeOK, SlotsOK, BytesOK, InStep
<1>3. i \in LiveSlots(h, queuedWrites) /\ h < i
  <2>1. f # Tombstone
    BY <1>1, <1>2, WriteQueueAssumption
  <2>2. h < i /\ i \in (h + 1)..Len(queuedWrites)
    BY <2>1, <1>2 DEF Erased, SlotArrays
  <2> QED BY <2>1, <2>2 DEF LiveSlots, IsFrame
<1>4. InStep(new, h, t + 1, index \ {f})
  BY <1>2, <1>3, CancelInStep
<1>5. Erased(new, h)
  BY <1>2, <1>3 DEF Erased, SlotArrays
<1>6. queuedWriteBytes' = BytesOf(queuedWritesByRequest') /\ queuedWriteBytes' <= MaxQueuedWriteBytes
  <2> DEFINE one == {f}
  <2>1. one \in SUBSET index /\ BytesOf(one) = Bytes[f]
    BY <1>1, <1>2, BytesOfOne
  <2> HIDE DEF one, index
  <2>2. /\ NonNegative(BytesOf(index) - BytesOf(one)) = BytesOf(index \ one)
        /\ BytesOf(index \ one) <= MaxQueuedWriteBytes
    BY <2>1, <1>2, BytesLeft
  <2> QED BY <2>1, <2>2, <1>1, <1>2 DEF one
<1>7. PICK k \in 1..Len(Live) :
           /\ LiveFrames(h, new) = SubSeq(Live, 1, k - 1) \o SubSeq(Live, k + 1, Len(Live))
           /\ new \in SlotArrays
  BY <1>2, <1>3, LiveCancel DEF Live
<1>8. Live' = LiveFrames(queuedWriteHead', queuedWrites')
  BY DEF Live, LiveFrames, LiveSlots, NthSlot, IsFrame
<1> SUFFICES /\ InStep(queuedWrites', queuedWriteHead', queuedWriteTombstones', queuedWritesByRequest')
             /\ Erased(queuedWrites', queuedWriteHead')
             /\ Live' = LiveFrames(h, new)
  <2>1. Inv'
    BY <1>1, <1>2, <1>6, InvNext
  <2>2. Fifo!Withdraw(k)
    BY <1>7 DEF Fifo!Withdraw
  <2> QED BY <2>1, <2>2 DEF FifoStep, Fifo!Next
<1> HIDE DEF new
<1>9. CASE queuedWritesByRequest' = {}
  <2>1. EmptyArray
    BY <1>1, <1>9 DEF CompactTombstones
  <2>2. new \in SlotArrays /\ h \in 0..Len(new) /\ LiveSlots(h, new) = {}
    <3>1. index \ {f} = {}
      BY <1>1, <1>9
    <3> DEFINE rest == index \ {f}
    <3> HIDE DEF rest
    <3>2. new \in SlotArrays /\ h \in 0..Len(new) /\ rest = {new[p] : p \in LiveSlots(h, new)}
      BY <1>4 DEF InStep, rest
    <3> QED BY <3>1, <3>2 DEF rest
  <2>3. LiveFrames(h, new) = <<>>
    BY <2>2, LiveNone
  <2> QED BY <2>1, <2>3, <1>9, Emptied
<1>10. CASE queuedWrites' = new /\ queuedWriteTombstones' = t + 1 /\ queuedWriteHead' = h
  BY <1>1, <1>4, <1>5, <1>8, <1>10
<1>11. CASE /\ queuedWrites' = LiveFrames(h, new) /\ queuedWriteHead' = 0
            /\ queuedWriteTombstones' = 0
  <2>1. InStep(LiveFrames(h, new), 0, 0, index \ {f})
    BY <1>4, CompactInStep
  <2>2. LiveFrames(0, LiveFrames(h, new)) = LiveFrames(h, new)
    BY <1>4, LiveCompact DEF InStep
  <2>3. Erased(queuedWrites', 0)
    BY DEF Erased
  <2> QED BY <2>1, <2>2, <2>3, <1>1, <1>8, <1>11
<1> QED BY <1>1, <1>9, <1>10, <1>11 DEF CompactTombstones

\* What is taken from the front of the live frames is a step of the queue, or none.
LEMMA TakenStep ==
    ASSUME Inv, NEW k \in 0..Len(Live), Live' = SubSeq(Live, k + 1, Len(Live))
    PROVE  FifoStep
<1>1. Live \in Seq(Frames) /\ Len(Live) \in Nat
  BY LiveIsSeq
<1>2. CASE k = 0
  <2>1. SubSeq(Live, 1, Len(Live)) = Live
    BY <1>1, SubSeqFull
  <2>2. k + 1 = 1
    BY <1>2
  <2> QED BY <2>1, <2>2 DEF FifoStep
<1>3. CASE k # 0
  <2>1. k \in 1..Len(Live)
    BY <1>1, <1>3
  <2> QED BY <2>1 DEF FifoStep, Fifo!Next, Fifo!TakeOldest
<1> QED BY <1>2, <1>3

LEMMA FlushStep ==
    ASSUME Inv, NEW g \in queuedWriteHead..Len(queuedWrites), NEW blocked \in BOOLEAN,
           Flush(g, blocked)
    PROVE  Inv' /\ FifoStep
<1> DEFINE qs == queuedWrites
           h == queuedWriteHead
           t == queuedWriteTombstones
           index == queuedWritesByRequest
           written == Written(qs, h, g)
           skipped == Skipped(qs, h, g)
           erasedArray == [i \in 1..Len(qs) |-> IF i <= g THEN Tombstone ELSE qs[i]]
<1>1. /\ writeBlocked' = blocked
      /\ queuedWritesByRequest' = index \ written
      /\ queuedWriteBytes' = NonNegative(queuedWriteBytes - BytesOf(written))
      /\ IF g = Len(qs) THEN EmptyArray
         ELSE /\ queuedWriteTombstones' = NonNegative(t - skipped)
              /\ \/ queuedWrites' = Remaining(g, qs) /\ queuedWriteHead' = 0
                 \/ queuedWrites' = erasedArray /\ queuedWriteHead' = g
  BY DEF Flush, Written, Skipped, Consumed
<1>2. /\ InStep(qs, h, t, index)
      /\ queuedWriteBytes = BytesOf(index) /\ queuedWriteBytes <= MaxQueuedWriteBytes
      /\ index \in SUBSET Frames /\ IsFiniteSet(index)
      /\ qs \in SlotArrays /\ h \in 0..Len(qs)
  BY DEF Inv, TypeOK, SlotsOK, BytesOK, InStep
<1>3. /\ written \in SUBSET index /\ NonNegative(t - skipped) = t - skipped
      /\ InStep(qs, g, t - skipped, index \ written)
  <2>1. InStep(qs, h, t, index) /\ g \in h..Len(qs)
    BY <1>2
  <2> QED BY <2>1, AfterInStep
<1>4. /\ \E k \in 0..Len(Live) : LiveFrames(g, qs) = SubSeq(Live, k + 1, Len(Live))
  BY <1>2, LiveAfter DEF Live
<1>5. Live' = LiveFrames(queuedWriteHead', queuedWrites')
  BY DEF Live, LiveFrames, LiveSlots, NthSlot, IsFrame
<1> HIDE DEF written, skipped, erasedArray
<1>6. queuedWriteBytes' = BytesOf(queuedWritesByRequest') /\ queuedWriteBytes' <= MaxQueuedWriteBytes
  <2>1. /\ NonNegative(BytesOf(index) - BytesOf(written)) = BytesOf(index \ written)
        /\ BytesOf(index \ written) <= MaxQueuedWriteBytes
    BY <1>2, <1>3, BytesLeft
  <2> QED BY <2>1, <1>1, <1>2
<1> SUFFICES /\ InStep(queuedWrites', queuedWriteHead', queuedWriteTombstones', queuedWritesByRequest')
             /\ Erased(queuedWrites', queuedWriteHead')
             /\ Live' = LiveFrames(g, qs)
  <2>1. Inv'
    BY <1>1, <1>6, InvNext
  <2>2. FifoStep
    BY <1>4, TakenStep
  <2> QED BY <2>1, <2>2
<1>7. CASE g = Len(qs)
  <2>1. EmptyArray
    BY <1>1, <1>7
  <2>2. g \in 0..Len(qs) /\ Len(qs) \in Nat
    BY <1>2, <1>7 DEF SlotArrays
  <2>3. LiveSlots(g, qs) = {}
    BY <1>7, <2>2 DEF LiveSlots
  <2>4. LiveFrames(g, qs) = <<>>
    BY <1>2, <2>2, <2>3, LiveNone
  <2>5. queuedWritesByRequest' = {}
    <3> DEFINE rest == index \ written
    <3> HIDE DEF rest
    <3>1. rest = {qs[p] : p \in LiveSlots(g, qs)}
      BY <1>3 DEF InStep, rest
    <3> QED BY <3>1, <2>3, <1>1 DEF rest
  <2> QED BY <2>1, <2>4, <2>5, Emptied
<1>8. CASE /\ queuedWriteTombstones' = NonNegative(t - skipped)
           /\ queuedWrites' = Remaining(g, qs) /\ queuedWriteHead' = 0
  <2>1. InStep(Remaining(g, qs), 0, t - skipped, index \ written)
    BY <1>3, DropInStep
  <2>2. LiveFrames(0, Remaining(g, qs)) = LiveFrames(g, qs)
    BY <1>3, LiveDrop DEF InStep
  <2>3. Erased(queuedWrites', 0)
    BY DEF Erased
  <2> QED BY <2>1, <2>2, <2>3, <1>1, <1>3, <1>5, <1>8
<1>9. CASE /\ queuedWriteTombstones' = NonNegative(t - skipped)
           /\ queuedWrites' = erasedArray /\ queuedWriteHead' = g
  <2>1. InStep(erasedArray, g, t - skipped, index \ written) /\ Erased(erasedArray, g)
    BY <1>3, EraseInStep DEF erasedArray
  <2>2. LiveFrames(g, erasedArray) = LiveFrames(g, qs)
    BY <1>3, LiveErase DEF InStep, erasedArray
  <2> QED BY <2>1, <2>2, <1>1, <1>3, <1>5, <1>9
<1> QED BY <1>1, <1>7, <1>8, <1>9

LEMMA ClearStep ==
    ASSUME Inv, Clear
    PROVE  Inv' /\ FifoStep
<1>1. /\ EmptyArray /\ queuedWritesByRequest' = {} /\ queuedWriteBytes' = 0 /\ writeBlocked' = FALSE
  BY DEF Clear
<1>2. /\ InStep(queuedWrites', queuedWriteHead', queuedWriteTombstones', queuedWritesByRequest')
      /\ Erased(queuedWrites', queuedWriteHead') /\ Live' = <<>>
  BY <1>1, Emptied
<1>3. BytesOf({}) = 0
  <2>1. UNION {{e} \X (1..Bytes[e]) : e \in {}} = {}
    OBVIOUS
  <2> QED BY <2>1, FS_EmptySet DEF BytesOf
<1>4. Inv'
  <2>1. queuedWriteBytes' = BytesOf(queuedWritesByRequest')
    BY <1>1, <1>3
  <2>2. writeBlocked' \in BOOLEAN
    BY <1>1
  <2>3. queuedWriteBytes' <= MaxQueuedWriteBytes
    BY <1>1, WriteQueueAssumption
  <2> QED BY <2>1, <2>2, <2>3, <1>2, InvNext
<1>5. Live \in Seq(Frames) /\ Len(Live) \in Nat
  BY LiveIsSeq
<1>6. Len(Live) \in 0..Len(Live) /\ SubSeq(Live, Len(Live) + 1, Len(Live)) = <<>>
  <2>1. Len(Live) + 1 \in Int /\ Len(Live) \in Int /\ Len(Live) < Len(Live) + 1
    BY <1>5
  <2> QED BY <1>5, <2>1, SubSeqEmpty
<1> QED BY <1>2, <1>4, <1>6, TakenStep

LEMMA WriteThroughStep ==
    ASSUME Inv, NEW f \in Frames, WriteThrough(f)
    PROVE  Inv' /\ FifoStep
<1>1. /\ UNCHANGED <<queue, queuedWritesByRequest, queuedWriteBytes>> /\ writeBlocked' \in BOOLEAN
  BY DEF WriteThrough
<1>2. /\ queuedWrites' = queuedWrites /\ queuedWriteHead' = queuedWriteHead
      /\ queuedWriteTombstones' = queuedWriteTombstones
      /\ queuedWritesByRequest' = queuedWritesByRequest /\ queuedWriteBytes' = queuedWriteBytes
  BY <1>1 DEF queue
<1>3. /\ InStep(queuedWrites, queuedWriteHead, queuedWriteTombstones, queuedWritesByRequest)
      /\ Erased(queuedWrites, queuedWriteHead)
      /\ queuedWriteBytes = BytesOf(queuedWritesByRequest)
      /\ queuedWriteBytes <= MaxQueuedWriteBytes
  BY DEF Inv, SlotsOK, BytesOK
<1>4. Inv'
  BY <1>1, <1>2, <1>3, InvNext
<1>5. Live' = LiveFrames(queuedWriteHead', queuedWrites')
  BY DEF Live, LiveFrames, LiveSlots, NthSlot, IsFrame
<1> QED BY <1>2, <1>4, <1>5 DEF FifoStep, Live

---------------------------------------------------------------------------

LEMMA InvInit == Init => Inv /\ Fifo!Init
<1> SUFFICES ASSUME Init PROVE Inv /\ Fifo!Init
  OBVIOUS
<1>1. /\ queuedWrites = <<>> /\ queuedWritesByRequest = {} /\ queuedWriteBytes = 0
      /\ queuedWriteHead = 0 /\ queuedWriteTombstones = 0 /\ writeBlocked = FALSE
  BY DEF Init
<1>2. SlotsOK /\ Live = <<>>
  BY <1>1, EmptyInStep DEF SlotsOK, Live
<1>3. TypeOK
  BY <1>1, <1>2 DEF TypeOK, SlotsOK, InStep
<1>4. BytesOK
  <2>1. UNION {{e} \X (1..Bytes[e]) : e \in {}} = {}
    OBVIOUS
  <2>2. BytesOf({}) = 0
    BY <2>1, FS_EmptySet DEF BytesOf
  <2> QED BY <1>1, <2>2, WriteQueueAssumption DEF BytesOK
<1> QED BY <1>2, <1>3, <1>4 DEF Inv, Fifo!Init

LEMMA InvStep == Inv /\ [Next]_vars => Inv' /\ FifoStep
<1> SUFFICES ASSUME Inv, [Next]_vars PROVE Inv' /\ FifoStep
  OBVIOUS
<1>1. CASE \E f \in Frames : WriteThrough(f) \/ WriteQueued(f)
  BY <1>1, WriteThroughStep, WriteQueuedStep
<1>2. CASE \E i \in 1..Len(queuedWrites) : Cancel(i)
  BY <1>2, CancelStep
<1>3. CASE \E h \in queuedWriteHead..Len(queuedWrites), b \in BOOLEAN : Flush(h, b)
  BY <1>3, FlushStep
<1>4. CASE Clear
  BY <1>4, ClearStep
<1>5. CASE UNCHANGED vars
  <2>1. /\ queuedWrites' = queuedWrites /\ queuedWriteHead' = queuedWriteHead
        /\ queuedWriteTombstones' = queuedWriteTombstones /\ writeBlocked' = writeBlocked
        /\ queuedWritesByRequest' = queuedWritesByRequest /\ queuedWriteBytes' = queuedWriteBytes
    BY <1>5 DEF vars, queue
  <2>2. /\ InStep(queuedWrites, queuedWriteHead, queuedWriteTombstones, queuedWritesByRequest)
        /\ Erased(queuedWrites, queuedWriteHead) /\ writeBlocked \in BOOLEAN
        /\ queuedWriteBytes = BytesOf(queuedWritesByRequest)
        /\ queuedWriteBytes <= MaxQueuedWriteBytes
    BY DEF Inv, TypeOK, SlotsOK, BytesOK
  <2>3. Inv'
    BY <2>1, <2>2, InvNext
  <2>4. Live' = LiveFrames(queuedWriteHead', queuedWrites')
    BY DEF Live, LiveFrames, LiveSlots, NthSlot, IsFrame
  <2> QED BY <2>1, <2>3, <2>4 DEF FifoStep, Live
<1> QED BY <1>1, <1>2, <1>3, <1>4, <1>5 DEF Next

\* The invariant in every state the queue reaches: the slots, the index, the tombstones and
\* the bytes of native-write-queue.ts have the values its arithmetic assumes.
THEOREM TypeCorrect == Spec => []Inv
<1>1. Init => Inv
  BY InvInit
<1>2. Inv /\ [Next]_vars => Inv'
  BY InvStep
<1> QED BY <1>1, <1>2, PTL DEF Spec

\* The slots that flush() will write, the index has() asks, the byte budget and the
\* tombstone count agree, whatever is cancelled, flushed, compacted or cleared.
THEOREM AccountsAlwaysAgree == Spec => []AccountsAgree
<1>1. Inv => AccountsAgree
  <2> SUFFICES ASSUME Inv PROVE AccountsAgree
    OBVIOUS
  <2>1. /\ queuedWrites \in SlotArrays /\ queuedWriteHead \in 0..Len(queuedWrites)
        /\ queuedWriteTombstones \in Nat
        /\ queuedWritesByRequest = {queuedWrites[i] : i \in LiveSlots(queuedWriteHead, queuedWrites)}
        /\ queuedWriteTombstones + Cardinality(LiveSlots(queuedWriteHead, queuedWrites))
              = Len(queuedWrites) - queuedWriteHead
        /\ queuedWriteBytes = BytesOf(queuedWritesByRequest)
        /\ queuedWriteBytes <= MaxQueuedWriteBytes
    BY DEF Inv, SlotsOK, BytesOK, InStep
  <2>2. PICK m, r : /\ m \in Nat /\ Len(Live) = m
                    /\ Cardinality(LiveSlots(queuedWriteHead, queuedWrites)) = m
                    /\ {Live[n] : n \in 1..m}
                          = {queuedWrites[i] : i \in LiveSlots(queuedWriteHead, queuedWrites)}
    BY <2>1, LiveFacts DEF Live
  <2>3. queuedWritesByRequest = {Live[i] : i \in 1..Len(Live)}
    BY <2>1, <2>2
  <2>4. /\ queuedWriteTombstones = Len(queuedWrites) - queuedWriteHead - Len(Live)
        /\ queuedWriteHead <= Len(queuedWrites)
    BY <2>1, <2>2 DEF SlotArrays
  <2> QED BY <2>1, <2>3, <2>4 DEF AccountsAgree
<1> QED BY <1>1, TypeCorrect, PTL

\* The array with tombstones, head index and compaction implements the first-in first-out
\* queue: what it writes is the oldest, and only a cancelled frame is skipped.
THEOREM QueueIsFifo == Spec => ImplementsFifo
<1>1. Init => Fifo!Init
  BY InvInit
<1>2. Inv /\ [Next]_vars => [Fifo!Next]_Live
  BY InvStep DEF FifoStep
<1> QED BY <1>1, <1>2, TypeCorrect, PTL DEF Spec, ImplementsFifo, Fifo!Spec

---------------------------------------------------------------------------
(* OrderingPlan.                                                           *)

\* A set of numbers has a least one.
LEMMA LeastOf ==
    ASSUME NEW S, S \subseteq Nat, S # {}
    PROVE  \E k \in S : \A l \in S : k <= l
<1> DEFINE R == {p \in Nat \X Nat : p[1] < p[2]}
<1>1. IsWellFoundedOn(R, Nat)
  BY NatLessThanWellFounded DEF OpToRel
<1>2. PICK k \in S : \A l \in S : <<l, k>> \notin R
  BY <1>1, WFMin
<1>3. ASSUME NEW l \in S PROVE k <= l
  <2>1. k \in Nat /\ l \in Nat /\ <<l, k>> \notin R
    BY <1>2
  <2> QED BY <2>1
<1> QED BY <1>3

\* A set of numbers that has a bound has a greatest one.
LEMMA GreatestOf ==
    ASSUME NEW n \in Nat, NEW S, S \subseteq 1..n, S # {}
    PROVE  \E k \in S : \A l \in S : l <= k
<1> DEFINE D == {d \in Nat : n - d \in S}
<1>1. D \subseteq Nat /\ D # {}
  <2>1. PICK s \in S : s \in 1..n
    OBVIOUS
  <2>2. n - s \in Nat /\ n - (n - s) = s
    BY <2>1
  <2> QED BY <2>1, <2>2
<1>2. PICK d \in D : \A e \in D : d <= e
  <2> HIDE DEF D
  <2> QED BY <1>1, LeastOf
<1>3. ASSUME NEW l \in S PROVE l <= n - d
  <2>1. l \in 1..n
    OBVIOUS
  <2>2. n - l \in Nat /\ n - (n - l) = l
    BY <2>1
  <2>3. n - l \in D
    BY <2>2
  <2>4. d <= n - l
    BY <1>2, <2>3
  <2> QED BY <2>1, <2>4, <1>2
<1> QED BY <1>2, <1>3

\* What must not be swapped is kept in order by a chain of dependencies: a command depends on
\* what conflicts with it, or on a later command that conflicts with that.
LEMMA PlanChains ==
    ASSUME NEW cs, NEW j \in Nat, NEW i \in 1..(j - 1), Conflict(cs[i], cs[j])
    PROVE  \E m \in FallbackDependencies(cs, j) :
              m = i \/ (m \in (i + 1)..(j - 1) /\ Conflict(cs[i], cs[m]))
<1>1. PICK k \in Accesses(cs[i]) \cap Accesses(cs[j]) : k \in cs[i].writes \cup cs[j].writes
  BY DEF Conflict, Accesses
<1> DEFINE W == {m \in (i + 1)..(j - 1) : k \in cs[m].writes}
<1>2. CASE W = {}
  <2>1. NoWriteBetween(cs, i, j, k)
    BY <1>2 DEF NoWriteBetween
  <2>2. i \in FallbackDependencies(cs, j)
    BY <1>1, <2>1 DEF FallbackDependencies
  <2> QED BY <2>2
<1>3. CASE W # {}
  <2>1. W \subseteq 1..j
    OBVIOUS
  <2>2. PICK m \in W : \A l \in W : l <= m
    <3> HIDE DEF W
    <3> QED BY <2>1, <1>3, GreatestOf
  <2>3. m \in (i + 1)..(j - 1) /\ k \in cs[m].writes
    BY <2>2
  <2>4. NoWriteBetween(cs, m, j, k)
    <3> SUFFICES ASSUME NEW l \in (m + 1)..(j - 1), k \in cs[l].writes PROVE FALSE
      BY DEF NoWriteBetween
    <3>1. l \in W /\ ~(l <= m)
      BY <2>3
    <3> QED BY <3>1, <2>2
  <2>5. m \in FallbackDependencies(cs, j)
    BY <1>1, <2>3, <2>4 DEF FallbackDependencies, Accesses
  <2>6. Conflict(cs[i], cs[m])
    BY <1>1, <2>3 DEF Conflict, Accesses
  <2> QED BY <2>3, <2>5, <2>6
<1> QED BY <1>2, <1>3

\* The plan of the modules composed here.
LEMMA PlansAgree ==
    /\ \A a, b : Split!Conflict(a, b) <=> Conflict(a, b)
    /\ \A a, b : Batch!Conflict(a, b) <=> Conflict(a, b)
    /\ \A cs, j : Split!FallbackDependencies(cs, j) = FallbackDependencies(cs, j)
    /\ \A cs, j : Batch!FallbackDependencies(cs, j) = FallbackDependencies(cs, j)
BY DEF Split!Conflict, Batch!Conflict, Conflict, Split!Accesses, Batch!Accesses, Accesses,
       Split!FallbackDependencies, Batch!FallbackDependencies, FallbackDependencies,
       Split!NoWriteBetween, Batch!NoWriteBetween, NoWriteBetween

---------------------------------------------------------------------------
(* TopologyPipeline.                                                       *)

\* The shape of the pipeline, as it was split.
SplitOK ==
    /\ \E n \in Nat : DOMAIN commands = 1..n
    /\ unitByCommand = [i \in DOMAIN commands |-> Split!UnitOf(i)]
    /\ dependencies = [u \in Split!Units |-> Split!UnitDependencies(u)]
    /\ item \in [DOMAIN commands -> {"waits", "runs", "ran", "answered", "failed"}]
    /\ tasks \in [Split!Units -> {"waits", "runs", "settled", "rejected"}]

\* A unit runs when those it depends on have settled, and the items of one settle together.
UnitsOK ==
    \A u \in Split!Units :
        /\ tasks[u] \in {"waits", "rejected"} => \A i \in Split!ItemsOf(u) : item[i] = "waits"
        /\ tasks[u] = "runs" => \A i \in Split!ItemsOf(u) : item[i] \in {"waits", "runs", "ran"}
        /\ tasks[u] = "settled" => \A i \in Split!ItemsOf(u) : item[i] \in {"answered", "failed"}
        /\ tasks[u] \in {"runs", "settled"} => \A v \in dependencies[u] : tasks[v] = "settled"

\* A command that has begun, or failed with its unit, comes after all it depends on.
DependenciesOK ==
    \A j \in DOMAIN commands :
        item[j] # "waits" => \A m \in Split!CommandDependencies(j) : item[m] \in Split!Ended

SplitInv == SplitOK /\ UnitsOK /\ DependenciesOK

\* What a command depends on is in its unit or in one that its unit waits for.
LEMMA UnitsCover ==
    ASSUME SplitOK, NEW j \in DOMAIN commands, NEW m \in Split!CommandDependencies(j)
    PROVE  /\ m \in DOMAIN commands /\ m \in Split!ItemsOf(unitByCommand[m])
           /\ unitByCommand[m] \in Split!Units /\ unitByCommand[j] \in Split!Units
           /\ unitByCommand[m] = unitByCommand[j] \/ unitByCommand[m] \in dependencies[unitByCommand[j]]
<1>1. PICK n \in Nat : DOMAIN commands = 1..n
  BY DEF SplitOK
<1>2. m \in 1..(j - 1)
  BY DEF Split!CommandDependencies, Split!FallbackDependencies
<1>3. m \in DOMAIN commands
  BY <1>1, <1>2
<1>4. unitByCommand[m] = Split!UnitOf(m) /\ unitByCommand[j] = Split!UnitOf(j)
  BY <1>3 DEF SplitOK
<1>5. unitByCommand[m] \in Split!Units /\ unitByCommand[j] \in Split!Units
  BY <1>3 DEF Split!Units, Split!Indices
<1>6. dependencies[unitByCommand[j]] = Split!UnitDependencies(unitByCommand[j])
  BY <1>5 DEF SplitOK
<1>7. m \in UNION {Split!CommandDependencies(k) : k \in {k \in Split!Indices : Split!UnitOf(k) = unitByCommand[j]}}
  BY <1>4 DEF Split!Indices
<1>8. Split!UnitOf(m) \in {Split!UnitOf(i) : i \in UNION {Split!CommandDependencies(k) : k \in {k \in Split!Indices : Split!UnitOf(k) = unitByCommand[j]}}}
  BY <1>7
<1>9. Split!UnitOf(m) # unitByCommand[j] => Split!UnitOf(m) \in Split!UnitDependencies(unitByCommand[j])
  BY <1>8 DEF Split!UnitDependencies
<1> QED BY <1>3, <1>4, <1>5, <1>6, <1>9 DEF Split!ItemsOf, Split!Indices

LEMMA SplitInit == Split!Init => SplitInv
<1> SUFFICES ASSUME Split!Init PROVE SplitInv
  OBVIOUS
<1>1. PICK m \in 1..MaxLength : commands \in [1..m -> SplitCommands]
  BY DEF Split!Init
<1>2. \E n \in Nat : DOMAIN commands = 1..n
  BY <1>1
<1>3. /\ unitByCommand = [i \in DOMAIN commands |-> Split!UnitOf(i)]
      /\ dependencies = [u \in Split!Units |-> Split!UnitDependencies(u)]
      /\ item = [i \in DOMAIN commands |-> "waits"]
      /\ tasks = [u \in Split!Units |-> "waits"]
  BY DEF Split!Init, Split!Indices
<1>4. SplitOK
  BY <1>2, <1>3 DEF SplitOK
<1>5. UnitsOK
  BY <1>3 DEF UnitsOK, Split!ItemsOf, Split!Indices
<1>6. DependenciesOK
  BY <1>3 DEF DependenciesOK
<1> QED BY <1>4, <1>5, <1>6 DEF SplitInv

\* A step leaves the pipeline and its split alone.
LEMMA SplitKeeps ==
    ASSUME SplitOK,
           Split!Next \/ UNCHANGED <<commands, planned, unitByCommand, dependencies, item, tasks, result>>
    PROVE  /\ UNCHANGED <<commands, planned, unitByCommand, dependencies>>
           /\ Split!Units' = Split!Units /\ DOMAIN commands' = DOMAIN commands
           /\ \A u : Split!ItemsOf(u)' = Split!ItemsOf(u)
           /\ \A j : Split!CommandDependencies(j)' = Split!CommandDependencies(j)
           /\ \A i : Split!UnitOf(i)' = Split!UnitOf(i)
           /\ \A u : Split!UnitDependencies(u)' = Split!UnitDependencies(u)
<1>1. UNCHANGED <<commands, planned, unitByCommand, dependencies>>
  BY DEF Split!Next, Split!StartUnit, Split!Overflow, Split!Capture, Split!CaptureFailure,
         Split!Run, Split!Ran, Split!Finish, Split!pipeline
<1>2. Split!Units' = Split!Units /\ \A u : Split!ItemsOf(u)' = Split!ItemsOf(u)
  BY <1>1 DEF Split!Units, Split!ItemsOf, Split!Indices
<1>3. \A j : Split!CommandDependencies(j)' = Split!CommandDependencies(j)
  BY <1>1 DEF Split!CommandDependencies
<1>4. \A i : Split!UnitOf(i)' = Split!UnitOf(i)
  BY <1>1 DEF Split!UnitOf, Split!SameUnit, Split!Indices
<1>5. \A u : Split!UnitDependencies(u)' = Split!UnitDependencies(u)
  BY <1>1, <1>3, <1>4 DEF Split!UnitDependencies, Split!Indices
<1> QED BY <1>1, <1>2, <1>3, <1>4, <1>5

\* What is left to show of a step that keeps the pipeline.
LEMMA SplitStep ==
    ASSUME SplitInv,
           Split!Next \/ UNCHANGED <<commands, planned, unitByCommand, dependencies, item, tasks, result>>,
           item' \in [DOMAIN commands -> {"waits", "runs", "ran", "answered", "failed"}],
           tasks' \in [Split!Units -> {"waits", "runs", "settled", "rejected"}],
           \A u \in Split!Units :
              /\ tasks'[u] \in {"waits", "rejected"} => \A i \in Split!ItemsOf(u) : item'[i] = "waits"
              /\ tasks'[u] = "runs" => \A i \in Split!ItemsOf(u) : item'[i] \in {"waits", "runs", "ran"}
              /\ tasks'[u] = "settled" => \A i \in Split!ItemsOf(u) : item'[i] \in {"answered", "failed"}
              /\ tasks[u] = "settled" => tasks'[u] = "settled"
              /\ tasks[u] = "waits" /\ tasks'[u] = "runs" => \A v \in dependencies[u] : tasks[v] = "settled"
              /\ tasks[u] # "runs" => tasks'[u] # "settled" \/ tasks[u] = "settled"
              /\ tasks[u] = "rejected" => tasks'[u] = "rejected",
           \A j \in DOMAIN commands :
              /\ item[j] \in Split!Ended => item'[j] \in Split!Ended
              /\ item[j] = "waits" /\ item'[j] # "waits" =>
                    \A m \in Split!CommandDependencies(j) : item'[m] \in Split!Ended
    PROVE  SplitInv'
<1>1. SplitOK /\ UnitsOK /\ DependenciesOK
  BY DEF SplitInv
<1>2. /\ UNCHANGED <<commands, planned, unitByCommand, dependencies>>
      /\ Split!Units' = Split!Units /\ DOMAIN commands' = DOMAIN commands
      /\ \A u : Split!ItemsOf(u)' = Split!ItemsOf(u)
      /\ \A j : Split!CommandDependencies(j)' = Split!CommandDependencies(j)
      /\ \A i : Split!UnitOf(i)' = Split!UnitOf(i)
      /\ \A u : Split!UnitDependencies(u)' = Split!UnitDependencies(u)
  BY <1>1, SplitKeeps
<1>3. SplitOK'
  BY <1>1, <1>2 DEF SplitOK
<1>4. \A u \in Split!Units : \A v \in dependencies[u] : v \in Split!Units
  <2> SUFFICES ASSUME NEW u \in Split!Units, NEW v \in dependencies[u] PROVE v \in Split!Units
    OBVIOUS
  <2>1. v \in Split!UnitDependencies(u)
    BY <1>1 DEF SplitOK
  <2>2. PICK i \in UNION {Split!CommandDependencies(k) :
                            k \in {k \in Split!Indices : Split!UnitOf(k) = u}} : v = Split!UnitOf(i)
    BY <2>1 DEF Split!UnitDependencies
  <2>3. i \in DOMAIN commands
    BY <1>1, <2>2, UnitsCover DEF Split!Indices
  <2>4. unitByCommand[i] = v
    BY <1>1, <2>2, <2>3 DEF SplitOK
  <2> QED BY <2>3, <2>4 DEF Split!Units, Split!Indices
<1>5. ASSUME NEW u \in Split!Units, tasks'[u] \in {"runs", "settled"}, NEW v \in dependencies[u]
      PROVE  tasks'[v] = "settled"
  <2>1. v \in Split!Units
    BY <1>4
  <2>2. tasks[v] = "settled"
    BY <1>1, <1>5 DEF UnitsOK, SplitOK
  <2> QED BY <2>1, <2>2
<1>6. UnitsOK'
  BY <1>2, <1>5 DEF UnitsOK
<1>7. ASSUME NEW j \in DOMAIN commands, item'[j] # "waits", NEW m \in Split!CommandDependencies(j)
      PROVE  item'[m] \in Split!Ended
  <2>1. CASE item[j] = "waits"
    BY <1>7, <2>1
  <2>2. CASE item[j] # "waits"
    <3>1. m \in DOMAIN commands
      BY <1>1, UnitsCover
    <3>2. item[m] \in Split!Ended
      BY <1>1, <2>2 DEF DependenciesOK
    <3> QED BY <3>1, <3>2
  <2> QED BY <2>1, <2>2
<1>8. DependenciesOK'
  BY <1>2, <1>7 DEF DependenciesOK, Split!Ended
<1> QED BY <1>3, <1>6, <1>8 DEF SplitInv

LEMMA SplitTasks ==
    ASSUME SplitInv, NEW u \in Split!Units, Split!StartUnit(u) \/ Split!Overflow(u)
    PROVE  SplitInv'
<1>1. /\ tasks[u] = "waits" /\ item' = item
      /\ \/ /\ tasks' = [tasks EXCEPT ![u] = "runs"] /\ \A v \in dependencies[u] : tasks[v] = "settled"
         \/ tasks' = [tasks EXCEPT ![u] = "rejected"]
  BY DEF Split!StartUnit, Split!Overflow
<1>2. SplitOK /\ UnitsOK
  BY DEF SplitInv
<1>3. Split!Next
  BY DEF Split!Next
<1> QED BY <1>1, <1>2, <1>3, SplitStep DEF SplitOK, UnitsOK

\* What a running unit's command depends on outside of the unit has its outcome.
LEMMA UnitsSettled ==
    ASSUME SplitInv, NEW j \in DOMAIN commands, tasks[unitByCommand[j]] = "runs",
           NEW m \in Split!CommandDependencies(j), unitByCommand[m] # unitByCommand[j]
    PROVE  item[m] \in {"answered", "failed"}
<1>1. SplitOK /\ UnitsOK
  BY DEF SplitInv
<1>2. /\ m \in Split!ItemsOf(unitByCommand[m])
      /\ unitByCommand[m] \in Split!Units /\ unitByCommand[j] \in Split!Units
      /\ unitByCommand[m] \in dependencies[unitByCommand[j]]
  BY <1>1, UnitsCover
<1>3. tasks[unitByCommand[m]] = "settled"
  BY <1>1, <1>2 DEF UnitsOK
<1> QED BY <1>1, <1>2, <1>3 DEF UnitsOK

LEMMA SplitItems ==
    ASSUME SplitInv, NEW i \in DOMAIN commands, Split!Run(i) \/ Split!Ran(i)
    PROVE  SplitInv'
<1>1. SplitOK /\ UnitsOK
  BY DEF SplitInv
<1>2. Split!Next
  BY DEF Split!Next, Split!Indices
<1>3. i \in Split!ItemsOf(unitByCommand[i]) /\ unitByCommand[i] \in Split!Units
  BY DEF Split!ItemsOf, Split!Units, Split!Indices
<1>4. \A u \in Split!Units : i \in Split!ItemsOf(u) => u = unitByCommand[i]
  BY DEF Split!ItemsOf
<1>5. CASE Split!Run(i)
  <2>1. /\ tasks[unitByCommand[i]] = "runs" /\ item[i] = "waits"
        /\ \A j \in Split!CommandDependencies(i) \cap Split!ItemsOf(unitByCommand[i]) : item[j] = "ran"
        /\ item' = [item EXCEPT ![i] = "runs"] /\ tasks' = tasks
    BY <1>5 DEF Split!Run
  <2>2. ASSUME NEW m \in Split!CommandDependencies(i) PROVE item'[m] \in Split!Ended
    <3>1. m \in DOMAIN commands /\ m \in Split!ItemsOf(unitByCommand[m])
      BY <1>1, UnitsCover
    <3>2. item[m] \in {"ran", "answered", "failed"}
      BY <2>1, <3>1, UnitsSettled
    <3> QED BY <1>1, <2>1, <3>1, <3>2 DEF SplitOK, Split!Ended
  <2>3. \A u \in Split!Units : i \in Split!ItemsOf(u) => tasks[u] = "runs"
    BY <1>4, <2>1
  <2>4. \A u : Split!ItemsOf(u) \subseteq DOMAIN commands
    BY DEF Split!ItemsOf, Split!Indices
  <2>5. \A j \in DOMAIN commands : item'[j] = IF j = i THEN "runs" ELSE item[j]
    BY <1>1, <2>1 DEF SplitOK
  <2>6. item' \in [DOMAIN commands -> {"waits", "runs", "ran", "answered", "failed"}]
    BY <1>1, <2>1 DEF SplitOK
  <2> QED BY <1>1, <1>2, <2>1, <2>2, <2>3, <2>4, <2>5, <2>6, SplitStep DEF SplitOK, UnitsOK, Split!Ended
<1>6. CASE Split!Ran(i)
  <2>1. item[i] = "runs" /\ item' = [item EXCEPT ![i] = "ran"] /\ tasks' = tasks
    BY <1>6 DEF Split!Ran
  <2>2. tasks[unitByCommand[i]] = "runs"
    BY <1>1, <1>3, <2>1 DEF SplitOK, UnitsOK
  <2>3. \A u \in Split!Units : i \in Split!ItemsOf(u) => tasks[u] = "runs"
    BY <1>4, <2>2
  <2>4. \A u : Split!ItemsOf(u) \subseteq DOMAIN commands
    BY DEF Split!ItemsOf, Split!Indices
  <2>5. \A j \in DOMAIN commands : item'[j] = IF j = i THEN "ran" ELSE item[j]
    BY <1>1, <2>1 DEF SplitOK
  <2>6. item' \in [DOMAIN commands -> {"waits", "runs", "ran", "answered", "failed"}]
    BY <1>1, <2>1 DEF SplitOK
  <2> QED BY <1>1, <1>2, <2>1, <2>3, <2>4, <2>5, <2>6, SplitStep DEF SplitOK, UnitsOK, Split!Ended
<1> QED BY <1>5, <1>6

LEMMA SplitCaptures ==
    ASSUME SplitInv, NEW u \in Split!Units, Split!Capture(u) \/ Split!CaptureFailure(u)
    PROVE  SplitInv'
<1>1. SplitOK /\ UnitsOK /\ DependenciesOK
  BY DEF SplitInv
<1>2. Split!Next
  BY DEF Split!Next
<1>3. PICK ended \in {"answered", "failed"} :
         /\ tasks[u] = "runs" /\ tasks' = [tasks EXCEPT ![u] = "settled"]
         /\ item' = [i \in Split!Indices |-> IF i \in Split!ItemsOf(u) THEN ended ELSE item[i]]
  BY DEF Split!Capture, Split!CaptureFailure
<1>4. /\ \A i \in DOMAIN commands : i \in Split!ItemsOf(u) <=> unitByCommand[i] = u
      /\ \A v : Split!ItemsOf(v) \subseteq DOMAIN commands
      /\ \A v : \A i \in Split!ItemsOf(v) : unitByCommand[i] = v
  BY DEF Split!ItemsOf, Split!Indices
<1>5. \A j \in DOMAIN commands : item'[j] = IF unitByCommand[j] = u THEN ended ELSE item[j]
  BY <1>3, <1>4 DEF Split!Indices
<1>6. item' \in [DOMAIN commands -> {"waits", "runs", "ran", "answered", "failed"}]
  BY <1>1, <1>3 DEF SplitOK, Split!Indices
<1>7. ASSUME NEW j \in DOMAIN commands, item[j] = "waits", item'[j] # "waits",
             NEW m \in Split!CommandDependencies(j)
      PROVE  item'[m] \in Split!Ended
  <2>1. unitByCommand[j] = u /\ m \in DOMAIN commands
    BY <1>1, <1>5, <1>7, UnitsCover
  <2>2. CASE unitByCommand[m] = u
    BY <1>5, <2>1, <2>2 DEF Split!Ended
  <2>3. CASE unitByCommand[m] # u
    <3>1. item[m] \in {"answered", "failed"}
      BY <1>3, <2>1, <2>3, UnitsSettled
    <3> QED BY <1>5, <2>1, <2>3, <3>1 DEF Split!Ended
  <2> QED BY <2>2, <2>3
<1>8. \A j \in DOMAIN commands : item[j] \in Split!Ended => item'[j] \in Split!Ended
  BY <1>5 DEF Split!Ended
<1>9. /\ tasks' \in [Split!Units -> {"waits", "runs", "settled", "rejected"}]
      /\ \A v \in Split!Units : tasks'[v] = IF v = u THEN "settled" ELSE tasks[v]
  BY <1>1, <1>3 DEF SplitOK
<1>10. \A v \in Split!Units : \A i \in Split!ItemsOf(v) : item'[i] = IF v = u THEN ended ELSE item[i]
  BY <1>4, <1>5
<1> QED BY <1>1, <1>2, <1>3, <1>6, <1>7, <1>8, <1>9, <1>10, SplitStep DEF UnitsOK

LEMMA SplitNextInv == SplitInv /\ Split!Next => SplitInv'
<1> SUFFICES ASSUME SplitInv, Split!Next PROVE SplitInv'
  OBVIOUS
<1>1. CASE Split!Finish
  <2>1. item' = item /\ tasks' = tasks
    BY <1>1 DEF Split!Finish
  <2> QED BY <2>1, SplitStep DEF SplitInv, SplitOK, UnitsOK
<1> QED BY <1>1, SplitTasks, SplitItems, SplitCaptures DEF Split!Next, Split!Indices

\* Along the chain of its dependencies, a command that has begun comes after all it conflicts
\* with.
LEMMA SplitOrdered == SplitInv => Split!SplitKeepsKeyOrder
<1> SUFFICES ASSUME SplitInv, planned PROVE Split!SplitKeepsKeyOrder
  BY DEF Split!SplitKeepsKeyOrder
<1>1. SplitOK /\ DependenciesOK
  BY DEF SplitInv
<1>2. PICK n \in Nat : DOMAIN commands = 1..n
  BY <1>1 DEF SplitOK
<1> DEFINE Late(i, j) == i < j /\ Conflict(commands[i], commands[j]) /\ item[j] # "waits" /\ item[i] \notin Split!Ended
           Bad == {j \in 1..n : \E i \in 1..n : Late(i, j)}
<1>3. Bad = {}
  <2> SUFFICES ASSUME Bad # {} PROVE FALSE
    OBVIOUS
  <2>1. Bad \subseteq Nat
    OBVIOUS
  <2>2. PICK j \in Bad : \A l \in Bad : j <= l
    <3> HIDE DEF Bad
    <3> QED BY <2>1, LeastOf
  <2>3. PICK i \in 1..n : Late(i, j)
    BY <2>2
  <2>4. j \in 1..n /\ j \in Nat /\ i \in 1..(j - 1) /\ Conflict(commands[i], commands[j])
    BY <2>2, <2>3
  <2>5. PICK m \in FallbackDependencies(commands, j) :
           m = i \/ (m \in (i + 1)..(j - 1) /\ Conflict(commands[i], commands[m]))
    BY <2>4, PlanChains
  <2>6. m \in Split!CommandDependencies(j)
    BY <2>5, PlansAgree DEF Split!CommandDependencies
  <2>7. item[m] \in Split!Ended
    BY <1>1, <1>2, <2>3, <2>4, <2>6 DEF DependenciesOK
  <2>8. m \in (i + 1)..(j - 1) /\ Conflict(commands[i], commands[m])
    BY <2>3, <2>5, <2>7
  <2>9. m \in Bad
    <3>1. m \in 1..n /\ i < m /\ item[m] # "waits"
      BY <2>4, <2>7, <2>8 DEF Split!Ended
    <3> QED BY <2>3, <2>8, <3>1
  <2> QED BY <2>2, <2>4, <2>8, <2>9
<1>4. ASSUME NEW i \in 1..n, NEW j \in 1..n, i < j, Conflict(commands[i], commands[j]), item[j] = "runs"
      PROVE  item[i] \in Split!Ended
  <2>1. j \notin Bad
    BY <1>3
  <2> QED BY <1>4, <2>1
<1>5. \A a, b : Split!Conflict(a, b) <=> Conflict(a, b)
  BY PlansAgree
<1> HIDE DEF Bad
<1> QED BY <1>2, <1>4, <1>5 DEF Split!SplitKeepsKeyOrder, Split!Indices

---------------------------------------------------------------------------
(* AutoBatch: the calls in batches, m being the commands of the calls, p   *)
(* where they stand, pq the calls pushed, q those pending, bs the batches, *)
(* fl those in flight, t the global tail and ks the states of the keys.    *)

Earlier(pq, c, d) == \E i, j \in DOMAIN pq : i < j /\ pq[i] = c /\ pq[j] = d

\* A call that is in a batch.
InBatch(m, p, c) == m[c].kind = "batch" /\ p[c] \in {"batched", "running", "ran"}

Within(seq, c) == \E i \in DOMAIN seq : seq[i] = c

\* Lists of calls that must not be swapped.
Bound(m, s, r) ==
    \/ ~Batch!Planned(m, s) \/ ~Batch!Planned(m, r)
    \/ \E k \in BatchKeys :
          \/ k \in Batch!Written(m, s) /\ k \in Batch!Written(m, r) \cup Batch!ReadOnly(m, r)
          \/ k \in Batch!ReadOnly(m, s) /\ k \in Batch!Written(m, r)

KindsOK(m, p) ==
    /\ m \in [Batch!Calls -> BatchCommands \cup {Batch!NoCommand}]
    /\ p \in [Batch!Calls -> {"idle", "barred", "pending", "batched", "flushing", "running", "ran", "done"}]
    /\ \A c \in Batch!Calls :
        /\ p[c] = "idle" <=> m[c].kind = "none"
        /\ m[c].kind = "batch" => p[c] \in {"barred", "pending", "batched", "running", "ran", "done"}
        /\ m[c].kind \in {"fence", "block"} => p[c] \in {"barred", "flushing", "running", "done"}
        /\ m[c].kind = "helper" => p[c] \in {"running", "done"}

\* What is pending was pushed after all that is in a batch.
QueueOK(m, p, pq, q) ==
    /\ pq \in Seq(Batch!Calls) /\ q \in Seq(Batch!Calls)
    /\ \A i, j \in DOMAIN pq : pq[i] = pq[j] => i = j
    /\ \A i \in DOMAIN pq : m[pq[i]].kind = "batch" /\ p[pq[i]] # "barred"
    /\ \A c \in Batch!Calls : p[c] = "pending" \/ InBatch(m, p, c) => Within(pq, c)
    /\ \A c \in Batch!Calls : p[c] = "pending" <=> Within(q, c)
    /\ \A i, j \in DOMAIN q : i < j => Earlier(pq, q[i], q[j])
    /\ \A c, d \in Batch!Calls : InBatch(m, p, c) /\ p[d] = "pending" => Earlier(pq, c, d)

\* A batch is named by its first call, holds calls in the order they were pushed, waits for
\* earlier batches, and does not mix with another.
BatchesOK(m, p, pq, bs, fl) ==
    /\ bs \in [Batch!Calls -> [items : Seq(Batch!Calls), dependencies : SUBSET Batch!Calls]]
    /\ fl \subseteq Batch!Calls
    /\ \A b \in fl :
        /\ bs[b].items \in Seq(Batch!Calls) /\ bs[b].items # <<>> /\ b = bs[b].items[1]
        /\ \A c \in Batch!Calls : Within(bs[b].items, c) => InBatch(m, p, c)
        /\ \A i, j \in DOMAIN bs[b].items : i < j => Earlier(pq, bs[b].items[i], bs[b].items[j])
        /\ \A e \in bs[b].dependencies : e \in Batch!Calls /\ Earlier(pq, e, b)
    /\ \A c \in Batch!Calls : InBatch(m, p, c) => \E b \in fl : Within(bs[b].items, c)
    /\ \A a, b \in fl : Earlier(pq, a, b) =>
          \A c, d \in Batch!Calls : Within(bs[a].items, c) /\ Within(bs[b].items, d) => Earlier(pq, c, d)

\* A call runs when its batch waits for none and what it depends on in the batch has run.
RunsOK(m, p, bs, fl) ==
    \A b \in fl : \A j \in DOMAIN bs[b].items :
        p[bs[b].items[j]] \in {"running", "ran"} =>
            /\ bs[b].dependencies \cap fl = {}
            /\ \A i \in Batch!Before(m, bs[b].items, j) : p[bs[b].items[i]] = "ran"

\* A batch waits for what it must not overtake, or for a later batch that must not either.
ChainOK(m, pq, bs, fl) ==
    \A a, b \in fl : Earlier(pq, a, b) /\ Bound(m, bs[a].items, bs[b].items) =>
        \E e \in bs[b].dependencies \cap fl :
            e = a \/ (Earlier(pq, a, e) /\ Bound(m, bs[a].items, bs[e].items))

\* The tail is the last batch that has no plan.
TailOK(m, pq, bs, fl, t) ==
    /\ t \in fl \cup {Batch!NoOne}
    /\ t # Batch!NoOne => ~Batch!Planned(m, bs[t].items)
    /\ \A a \in fl : ~Batch!Planned(m, bs[a].items) => a = t \/ (t # Batch!NoOne /\ Earlier(pq, a, t))

Overtaken(pq, a, w) == w # Batch!NoOne /\ Earlier(pq, a, w)

\* The state of a key has its last writer, and its readers since.
KeysOK(m, pq, bs, fl, ks) ==
    /\ ks \in [BatchKeys -> [lastWrite : fl \cup {Batch!NoOne}, reads : SUBSET fl]]
    /\ \A k \in BatchKeys :
        /\ ks[k].lastWrite # Batch!NoOne =>
              /\ Batch!Planned(m, bs[ks[k].lastWrite].items)
              /\ k \in Batch!Written(m, bs[ks[k].lastWrite].items)
        /\ \A a \in fl : Batch!Planned(m, bs[a].items) =>
            /\ k \in Batch!Written(m, bs[a].items) =>
                  ks[k].lastWrite = a \/ Overtaken(pq, a, ks[k].lastWrite)
            /\ k \in Batch!ReadOnly(m, bs[a].items) =>
                  a \in ks[k].reads \/ Overtaken(pq, a, ks[k].lastWrite)

FlightOK(m, p, pq, bs, fl, t, ks) ==
    /\ BatchesOK(m, p, pq, bs, fl) /\ RunsOK(m, p, bs, fl) /\ ChainOK(m, pq, bs, fl)
    /\ TailOK(m, pq, bs, fl, t) /\ KeysOK(m, pq, bs, fl, ks)

---------------------------------------------------------------------------
\* The order in which calls were pushed, each once.
LEMMA EarlierOrders ==
    ASSUME NEW S, NEW pq \in Seq(S), \A i, j \in DOMAIN pq : pq[i] = pq[j] => i = j
    PROVE  /\ \A a, b, c : Earlier(pq, a, b) /\ Earlier(pq, b, c) => Earlier(pq, a, c)
           /\ \A a, b : Earlier(pq, a, b) => ~Earlier(pq, b, a) /\ a # b /\ Within(pq, a) /\ Within(pq, b)
           /\ \A a, b : Within(pq, a) /\ Within(pq, b) => a = b \/ Earlier(pq, a, b) \/ Earlier(pq, b, a)
<1> DEFINE n == Len(pq)
<1>1. n \in Nat /\ DOMAIN pq = 1..n
  OBVIOUS
<1> HIDE DEF n
<1>2. ASSUME NEW a, NEW b, NEW c, Earlier(pq, a, b), Earlier(pq, b, c) PROVE Earlier(pq, a, c)
  <2>1. PICK i \in DOMAIN pq, j \in DOMAIN pq : i < j /\ pq[i] = a /\ pq[j] = b
    BY <1>2 DEF Earlier
  <2>2. PICK k \in DOMAIN pq, l \in DOMAIN pq : k < l /\ pq[k] = b /\ pq[l] = c
    BY <1>2 DEF Earlier
  <2>3. j = k
    BY <2>1, <2>2
  <2>4. i < l
    BY <1>1, <2>1, <2>2, <2>3
  <2> QED BY <2>1, <2>2, <2>4 DEF Earlier
<1>3. ASSUME NEW a, NEW b, Earlier(pq, a, b)
      PROVE  ~Earlier(pq, b, a) /\ a # b /\ Within(pq, a) /\ Within(pq, b)
  <2>1. PICK i \in DOMAIN pq, j \in DOMAIN pq : i < j /\ pq[i] = a /\ pq[j] = b
    BY <1>3 DEF Earlier
  <2>2. a # b
    BY <1>1, <2>1
  <2>3. ASSUME Earlier(pq, b, a) PROVE FALSE
    <3>1. PICK k \in DOMAIN pq, l \in DOMAIN pq : k < l /\ pq[k] = b /\ pq[l] = a
      BY <2>3 DEF Earlier
    <3>2. j = k /\ i = l
      BY <2>1, <3>1
    <3> QED BY <1>1, <2>1, <3>1, <3>2
  <2> QED BY <2>1, <2>2, <2>3 DEF Within
<1>4. ASSUME NEW a, NEW b, Within(pq, a), Within(pq, b), a # b
      PROVE  Earlier(pq, a, b) \/ Earlier(pq, b, a)
  <2>1. PICK i \in DOMAIN pq, j \in DOMAIN pq : pq[i] = a /\ pq[j] = b
    BY <1>4 DEF Within
  <2>2. i < j \/ j < i
    BY <1>1, <1>4, <2>1
  <2> QED BY <2>1, <2>2 DEF Earlier
<1> QED BY <1>2, <1>3, <1>4

\* What is pushed comes after all that was.
LEMMA EarlierGrows ==
    ASSUME NEW S, NEW pq \in Seq(S), NEW c \in S
    PROVE  /\ \A a, b : Earlier(Append(pq, c), a, b) <=> Earlier(pq, a, b) \/ (Within(pq, a) /\ b = c)
           /\ \A a : Within(Append(pq, c), a) <=> Within(pq, a) \/ a = c
<1> DEFINE n == Len(pq)
           r == Append(pq, c)
<1>1. /\ n \in Nat /\ DOMAIN pq = 1..n /\ DOMAIN r = 1..(n + 1)
      /\ \A i \in 1..n : r[i] = pq[i]
      /\ r[n + 1] = c
  OBVIOUS
<1> HIDE DEF n, r
<1>2. \A i \in 1..(n + 1) : i \in 1..n \/ i = n + 1
  BY <1>1
<1>3. \A i \in 1..n : i \in 1..(n + 1) /\ i < n + 1
  BY <1>1
<1>4. n + 1 \in 1..(n + 1)
  BY <1>1
<1>5. \A a : Within(r, a) <=> Within(pq, a) \/ a = c
  BY <1>1, <1>2, <1>3, <1>4 DEF Within
<1>6. ASSUME NEW a, NEW b, Earlier(r, a, b) PROVE Earlier(pq, a, b) \/ (Within(pq, a) /\ b = c)
  <2>1. PICK i \in 1..(n + 1), j \in 1..(n + 1) : i < j /\ r[i] = a /\ r[j] = b
    BY <1>1, <1>6 DEF Earlier
  <2>2. i \in 1..n
    BY <1>1, <2>1
  <2> QED BY <1>1, <1>2, <2>1, <2>2 DEF Earlier, Within
<1>7. ASSUME NEW a, NEW b, Earlier(pq, a, b) \/ (Within(pq, a) /\ b = c) PROVE Earlier(r, a, b)
  BY <1>1, <1>3, <1>4, <1>7 DEF Earlier, Within
<1>8. Append(pq, c) = r
  BY DEF r
<1> QED BY <1>5, <1>6, <1>7, <1>8

\* The plan of a list is that of its commands.
LEMMA PlanIsOfCommands ==
    ASSUME NEW seq, NEW m, NEW l, \A i \in DOMAIN seq : l[seq[i]] = m[seq[i]]
    PROVE  /\ Batch!Planned(l, seq) <=> Batch!Planned(m, seq)
           /\ Batch!Written(l, seq) = Batch!Written(m, seq)
           /\ Batch!ReadOnly(l, seq) = Batch!ReadOnly(m, seq)
           /\ \A j : Batch!Before(l, seq, j) = Batch!Before(m, seq, j)
<1>1. Batch!CommandsOf(l, seq) = Batch!CommandsOf(m, seq)
  BY DEF Batch!CommandsOf
<1>2. Batch!Planned(l, seq) <=> Batch!Planned(m, seq)
  BY <1>1 DEF Batch!Planned
<1>3. \A j : Batch!Before(l, seq, j) = Batch!Before(m, seq, j)
  BY <1>1, <1>2 DEF Batch!Before
<1>4. Batch!Written(l, seq) = Batch!Written(m, seq)
  BY DEF Batch!Written, Batch!Range
<1>5. Batch!ReadOnly(l, seq) = Batch!ReadOnly(m, seq)
  BY <1>4 DEF Batch!ReadOnly, Batch!Range
<1> QED BY <1>2, <1>3, <1>4, <1>5

\* What happens outside of the batches leaves them alone.
LEMMA FlightKept ==
    ASSUME NEW m, NEW p, NEW pq, NEW bs, NEW fl, NEW t, NEW ks,
           NEW l, NEW r, NEW rq,
           FlightOK(m, p, pq, bs, fl, t, ks),
           \A c \in Batch!Calls : /\ InBatch(l, r, c) <=> InBatch(m, p, c)
                                  /\ InBatch(m, p, c) => l[c] = m[c] /\ r[c] = p[c],
           \A c, d \in Batch!Calls : Earlier(pq, c, d) => Earlier(rq, c, d),
           \A c, d \in Batch!Calls : InBatch(m, p, d) /\ Earlier(rq, c, d) => Earlier(pq, c, d)
    PROVE  FlightOK(l, r, rq, bs, fl, t, ks)
<1>1. /\ BatchesOK(m, p, pq, bs, fl) /\ RunsOK(m, p, bs, fl) /\ ChainOK(m, pq, bs, fl)
      /\ TailOK(m, pq, bs, fl, t) /\ KeysOK(m, pq, bs, fl, ks)
  BY DEF FlightOK
<1>2. ASSUME NEW b \in fl
      PROVE  /\ b \in Batch!Calls /\ InBatch(m, p, b)
             /\ \A i \in DOMAIN bs[b].items : /\ bs[b].items[i] \in Batch!Calls
                                              /\ InBatch(m, p, bs[b].items[i])
  <2>1. /\ bs[b].items \in Seq(Batch!Calls) /\ bs[b].items # <<>> /\ b = bs[b].items[1]
        /\ \A c \in Batch!Calls : Within(bs[b].items, c) => InBatch(m, p, c)
    BY <1>1 DEF BatchesOK
  <2>2. \A i \in DOMAIN bs[b].items : bs[b].items[i] \in Batch!Calls /\ Within(bs[b].items, bs[b].items[i])
    BY <2>1 DEF Within
  <2>3. 1 \in DOMAIN bs[b].items
    BY <2>1
  <2> QED BY <2>1, <2>2, <2>3
<1>3. ASSUME NEW b \in fl
      PROVE  /\ Batch!Planned(l, bs[b].items) <=> Batch!Planned(m, bs[b].items)
             /\ Batch!Written(l, bs[b].items) = Batch!Written(m, bs[b].items)
             /\ Batch!ReadOnly(l, bs[b].items) = Batch!ReadOnly(m, bs[b].items)
             /\ \A j : Batch!Before(l, bs[b].items, j) = Batch!Before(m, bs[b].items, j)
  <2>1. \A i \in DOMAIN bs[b].items : l[bs[b].items[i]] = m[bs[b].items[i]]
    BY <1>2
  <2> QED BY <2>1, PlanIsOfCommands
<1>4. \A a, b \in fl : Bound(l, bs[a].items, bs[b].items) <=> Bound(m, bs[a].items, bs[b].items)
  BY <1>3 DEF Bound
<1>5. \A a, b \in fl : Earlier(rq, a, b) <=> Earlier(pq, a, b)
  BY <1>2
<1>6. BatchesOK(l, r, rq, bs, fl)
  <2>1. ASSUME NEW b \in fl
        PROVE  /\ bs[b].items \in Seq(Batch!Calls) /\ bs[b].items # <<>> /\ b = bs[b].items[1]
               /\ \A c \in Batch!Calls : Within(bs[b].items, c) => InBatch(l, r, c)
               /\ \A i, j \in DOMAIN bs[b].items : i < j => Earlier(rq, bs[b].items[i], bs[b].items[j])
               /\ \A e \in bs[b].dependencies : e \in Batch!Calls /\ Earlier(rq, e, b)
    BY <1>1, <1>2 DEF BatchesOK
  <2>2. \A a, b \in fl : Earlier(rq, a, b) =>
          \A c, d \in Batch!Calls : Within(bs[a].items, c) /\ Within(bs[b].items, d) => Earlier(rq, c, d)
    BY <1>1, <1>5 DEF BatchesOK
  <2>3. /\ bs \in [Batch!Calls -> [items : Seq(Batch!Calls), dependencies : SUBSET Batch!Calls]]
        /\ fl \subseteq Batch!Calls
        /\ \A c \in Batch!Calls : InBatch(l, r, c) => \E b \in fl : Within(bs[b].items, c)
    BY <1>1 DEF BatchesOK
  <2> QED BY <2>1, <2>2, <2>3 DEF BatchesOK
<1>7. RunsOK(l, r, bs, fl)
  <2> SUFFICES ASSUME NEW b \in fl, NEW j \in DOMAIN bs[b].items, r[bs[b].items[j]] \in {"running", "ran"}
               PROVE  /\ bs[b].dependencies \cap fl = {}
                      /\ \A i \in Batch!Before(l, bs[b].items, j) : r[bs[b].items[i]] = "ran"
    BY DEF RunsOK
  <2>1. p[bs[b].items[j]] \in {"running", "ran"}
    BY <1>2
  <2>2. /\ bs[b].dependencies \cap fl = {}
        /\ \A i \in Batch!Before(m, bs[b].items, j) : p[bs[b].items[i]] = "ran"
    BY <1>1, <2>1 DEF RunsOK
  <2>3. Batch!Before(m, bs[b].items, j) \subseteq DOMAIN bs[b].items
    <3>1. bs[b].items \in Seq(Batch!Calls)
      BY <1>1 DEF BatchesOK
    <3>2. Batch!Before(m, bs[b].items, j) \subseteq 1..(j - 1)
      BY DEF Batch!Before, Batch!FallbackDependencies
    <3> QED BY <3>1, <3>2
  <2> QED BY <1>2, <1>3, <2>2, <2>3
<1>8. ChainOK(l, rq, bs, fl)
  BY <1>1, <1>4, <1>5 DEF ChainOK
<1>9. TailOK(l, rq, bs, fl, t)
  BY <1>1, <1>3, <1>5 DEF TailOK
<1>10. KeysOK(l, rq, bs, fl, ks)
  <2>1. \A k \in BatchKeys : ks[k].lastWrite \in fl \cup {Batch!NoOne}
    BY <1>1 DEF KeysOK
  <2>2. \A k \in BatchKeys : \A a \in fl : Overtaken(pq, a, ks[k].lastWrite) => Overtaken(rq, a, ks[k].lastWrite)
    BY <1>5, <2>1 DEF Overtaken
  <2> QED BY <1>1, <1>3, <2>1, <2>2 DEF KeysOK
<1> QED BY <1>6, <1>7, <1>8, <1>9, <1>10 DEF FlightOK

\* A call is pushed.
LEMMA PushKept ==
    ASSUME NEW m, NEW p, NEW pq, NEW q, NEW bs, NEW fl, NEW t, NEW ks, NEW l, NEW c \in Batch!Calls,
           KindsOK(m, p), QueueOK(m, p, pq, q), FlightOK(m, p, pq, bs, fl, t, ks),
           p[c] \in {"idle", "barred"},
           l \in [Batch!Calls -> BatchCommands \cup {Batch!NoCommand}], l[c].kind = "batch",
           \A d \in Batch!Calls : d # c => l[d] = m[d]
    PROVE  /\ KindsOK(l, [p EXCEPT ![c] = "pending"])
           /\ QueueOK(l, [p EXCEPT ![c] = "pending"], Append(pq, c), Append(q, c))
           /\ FlightOK(l, [p EXCEPT ![c] = "pending"], Append(pq, c), bs, fl, t, ks)
<1> DEFINE r == [p EXCEPT ![c] = "pending"]
           rq == Append(pq, c)
           s == Append(q, c)
<1>1. /\ p \in [Batch!Calls -> {"idle", "barred", "pending", "batched", "flushing", "running", "ran", "done"}]
      /\ r \in [Batch!Calls -> {"idle", "barred", "pending", "batched", "flushing", "running", "ran", "done"}]
      /\ \A d \in Batch!Calls : r[d] = IF d = c THEN "pending" ELSE p[d]
  BY DEF KindsOK
<1>2. pq \in Seq(Batch!Calls) /\ q \in Seq(Batch!Calls)
  BY DEF QueueOK
<1>3. /\ \A a, b : Earlier(rq, a, b) <=> Earlier(pq, a, b) \/ (Within(pq, a) /\ b = c)
      /\ \A a : Within(rq, a) <=> Within(pq, a) \/ a = c
  BY <1>2, EarlierGrows
<1>4. \A a : Within(s, a) <=> Within(q, a) \/ a = c
  BY <1>2, EarlierGrows
<1>5. rq \in Seq(Batch!Calls) /\ s \in Seq(Batch!Calls)
  BY <1>2
<1>6. ~Within(pq, c) /\ ~Within(q, c) /\ ~InBatch(m, p, c)
  <2>1. ~InBatch(m, p, c)
    BY DEF InBatch
  <2>2. ~Within(q, c)
    BY DEF QueueOK
  <2>3. ASSUME NEW i \in DOMAIN pq, pq[i] = c PROVE FALSE
    <3>1. m[c].kind = "batch" /\ p[c] # "barred"
      BY <2>3 DEF QueueOK
    <3>2. p[c] = "idle" => m[c].kind = "none"
      BY DEF KindsOK
    <3> QED BY <3>1, <3>2
  <2> QED BY <2>1, <2>2, <2>3 DEF Within
<1>7. \A d \in Batch!Calls : /\ InBatch(l, r, d) <=> InBatch(m, p, d)
                             /\ InBatch(m, p, d) => l[d] = m[d] /\ r[d] = p[d]
  BY <1>1, <1>6 DEF InBatch
<1>8. KindsOK(l, r)
  BY <1>1 DEF KindsOK
<1>9. \A d \in Batch!Calls : r[d] = "pending" <=> p[d] = "pending" \/ d = c
  BY <1>1
<1>10. \A i, j \in DOMAIN rq : rq[i] = rq[j] => i = j
  <2> DEFINE n == Len(pq)
  <2>1. /\ n \in Nat /\ DOMAIN pq = 1..n /\ DOMAIN rq = 1..(n + 1)
        /\ \A i \in 1..n : rq[i] = pq[i]
        /\ rq[n + 1] = c
    BY <1>2
  <2>2. \A i, j \in DOMAIN pq : pq[i] = pq[j] => i = j
    BY DEF QueueOK
  <2>3. \A i \in 1..n : pq[i] # c
    BY <1>6, <2>1 DEF Within
  <2> HIDE DEF n, rq
  <2>4. \A i \in 1..(n + 1) : i \in 1..n \/ i = n + 1
    BY <2>1
  <2> QED BY <2>1, <2>2, <2>3, <2>4
<1>11. \A i \in DOMAIN rq : l[rq[i]].kind = "batch" /\ r[rq[i]] # "barred"
  <2> SUFFICES ASSUME NEW i \in DOMAIN rq PROVE l[rq[i]].kind = "batch" /\ r[rq[i]] # "barred"
    OBVIOUS
  <2>1. Within(rq, rq[i]) /\ rq[i] \in Batch!Calls
    BY <1>5 DEF Within
  <2>2. CASE rq[i] = c
    BY <1>1, <2>2
  <2>3. CASE rq[i] # c
    <3>1. PICK j \in DOMAIN pq : pq[j] = rq[i]
      BY <1>3, <2>1, <2>3 DEF Within
    <3>2. m[pq[j]].kind = "batch" /\ p[pq[j]] # "barred"
      BY DEF QueueOK
    <3> QED BY <1>1, <2>1, <2>3, <3>1, <3>2
  <2> QED BY <2>2, <2>3
<1>12. \A i, j \in DOMAIN s : i < j => Earlier(rq, s[i], s[j])
  <2> SUFFICES ASSUME NEW i \in DOMAIN s, NEW j \in DOMAIN s, i < j PROVE Earlier(rq, s[i], s[j])
    OBVIOUS
  <2>1. Earlier(s, s[i], s[j])
    BY DEF Earlier
  <2>2. Earlier(q, s[i], s[j]) \/ (Within(q, s[i]) /\ s[j] = c)
    BY <1>2, <2>1, EarlierGrows
  <2>3. CASE Earlier(q, s[i], s[j])
    <3>1. Earlier(pq, s[i], s[j])
      BY <2>3 DEF Earlier, QueueOK
    <3> QED BY <1>3, <3>1
  <2>4. CASE Within(q, s[i]) /\ s[j] = c
    <3>1. s[i] \in Batch!Calls
      BY <1>5
    <3>2. p[s[i]] = "pending"
      BY <2>4, <3>1 DEF QueueOK
    <3>3. Within(pq, s[i])
      BY <3>1, <3>2 DEF QueueOK
    <3> QED BY <1>3, <2>4, <3>3
  <2> QED BY <2>2, <2>3, <2>4
<1>13. \A d \in Batch!Calls : r[d] = "pending" \/ InBatch(l, r, d) => Within(rq, d)
  BY <1>3, <1>7, <1>9 DEF QueueOK
<1>14. \A d \in Batch!Calls : r[d] = "pending" <=> Within(s, d)
  BY <1>4, <1>9 DEF QueueOK
<1>15. \A d, e \in Batch!Calls : InBatch(l, r, d) /\ r[e] = "pending" => Earlier(rq, d, e)
  BY <1>3, <1>7, <1>9 DEF QueueOK
<1>16. QueueOK(l, r, rq, s)
  BY <1>5, <1>10, <1>11, <1>12, <1>13, <1>14, <1>15 DEF QueueOK
<1>17. FlightOK(l, r, rq, bs, fl, t, ks)
  <2>1. \A d, e \in Batch!Calls : Earlier(pq, d, e) => Earlier(rq, d, e)
    BY <1>3
  <2>2. \A d, e \in Batch!Calls : InBatch(m, p, e) /\ Earlier(rq, d, e) => Earlier(pq, d, e)
    BY <1>3, <1>6
  <2> HIDE DEF r, rq
  <2> QED BY <1>7, <2>1, <2>2, FlightKept
<1> QED BY <1>8, <1>16, <1>17

\* What is called, answered or closed leaves the queue alone, or empties it.
LEMMA QueueKept ==
    ASSUME NEW m, NEW p, NEW pq, NEW q, NEW bs, NEW fl, NEW t, NEW ks, NEW l, NEW r, NEW s,
           QueueOK(m, p, pq, q), FlightOK(m, p, pq, bs, fl, t, ks),
           \A c \in Batch!Calls : /\ InBatch(l, r, c) <=> InBatch(m, p, c)
                                  /\ InBatch(m, p, c) => l[c] = m[c] /\ r[c] = p[c]
                                  /\ m[c].kind = "batch" => l[c] = m[c]
                                  /\ m[c].kind = "batch" /\ r[c] = "barred" => p[c] = "barred"
                                  /\ r[c] = "pending" => p[c] = "pending",
           \/ s = q /\ \A c \in Batch!Calls : p[c] = "pending" => r[c] = "pending"
           \/ s = <<>> /\ \A c \in Batch!Calls : r[c] # "pending"
    PROVE  QueueOK(l, r, pq, s) /\ FlightOK(l, r, pq, bs, fl, t, ks)
<1>1. FlightOK(l, r, pq, bs, fl, t, ks)
  BY FlightKept
<1>2. pq \in Seq(Batch!Calls) /\ q \in Seq(Batch!Calls)
  BY DEF QueueOK
<1>3. s \in Seq(Batch!Calls) /\ \A i, j \in DOMAIN s : i < j => Earlier(pq, s[i], s[j])
  <2>1. CASE s = q
    BY <1>2, <2>1 DEF QueueOK
  <2>2. CASE s = <<>>
    <3>1. DOMAIN s = {} /\ s \in Seq(Batch!Calls)
      BY <2>2
    <3> QED BY <3>1
  <2> QED BY <2>1, <2>2
<1>4. \A i \in DOMAIN pq : l[pq[i]].kind = "batch" /\ r[pq[i]] # "barred"
  <2> SUFFICES ASSUME NEW i \in DOMAIN pq PROVE l[pq[i]].kind = "batch" /\ r[pq[i]] # "barred"
    OBVIOUS
  <2>1. pq[i] \in Batch!Calls
    BY <1>2
  <2>2. m[pq[i]].kind = "batch" /\ p[pq[i]] # "barred"
    BY DEF QueueOK
  <2> QED BY <2>1, <2>2
<1>5. \A c \in Batch!Calls : r[c] = "pending" <=> Within(s, c)
  BY DEF QueueOK, Within
<1>6. \A c \in Batch!Calls : r[c] = "pending" \/ InBatch(l, r, c) => Within(pq, c)
  BY DEF QueueOK
<1>7. \A c, d \in Batch!Calls : InBatch(l, r, c) /\ r[d] = "pending" => Earlier(pq, c, d)
  BY DEF QueueOK
<1>8. \A i, j \in DOMAIN pq : pq[i] = pq[j] => i = j
  BY DEF QueueOK
<1> QED BY <1>1, <1>2, <1>3, <1>4, <1>5, <1>6, <1>7, <1>8 DEF QueueOK

LEMMA CallsAre ==
    /\ \A c \in Batch!Calls : c \in Nat /\ c # 0
    /\ Batch!NoOne = 0 /\ Batch!NoOne \notin Batch!Calls /\ Batch!Calls \subseteq Nat
BY PartsAssumption DEF Batch!Calls, Batch!NoOne

LEMMA KindsAre ==
    ASSUME NEW m, NEW p, KindsOK(m, p), NEW c \in Batch!Calls
    PROVE  /\ m[c].kind \in {"none", "batch", "fence", "block", "helper"}
           /\ m[c].reads \subseteq BatchKeys /\ m[c].writes \subseteq BatchKeys
           /\ p[c] = "pending" => m[c].kind = "batch"
<1>1. m[c] \in BatchCommands \/ m[c] = [kind |-> "none", reads |-> {}, writes |-> {}]
  BY DEF KindsOK, Batch!NoCommand
<1>2. m[c] \in BatchCommands =>
         m[c] \in [kind : {"batch", "fence", "block", "helper"}, reads : SUBSET BatchKeys, writes : SUBSET BatchKeys]
  BY PartsAssumption
<1>3. /\ m[c].kind \in {"none", "batch", "fence", "block", "helper"}
      /\ m[c].reads \subseteq BatchKeys /\ m[c].writes \subseteq BatchKeys
  BY <1>1, <1>2
<1> QED BY <1>3 DEF KindsOK

\* The plan of a list of calls reaches no further than the list, and its keys are known ones.
LEMMA PlanReaches ==
    ASSUME NEW m, NEW p, KindsOK(m, p), NEW seq \in Seq(Batch!Calls)
    PROVE  /\ Batch!Written(m, seq) \subseteq BatchKeys /\ Batch!ReadOnly(m, seq) \subseteq BatchKeys
           /\ \A j \in DOMAIN seq : Batch!Before(m, seq, j) \subseteq DOMAIN seq
<1>1. \A i \in DOMAIN seq : seq[i] \in Batch!Calls
  OBVIOUS
<1>2. Batch!Written(m, seq) \subseteq BatchKeys
  BY <1>1, KindsAre DEF Batch!Written, Batch!Range
<1>3. Batch!ReadOnly(m, seq) \subseteq BatchKeys
  BY <1>1, KindsAre DEF Batch!ReadOnly, Batch!Range
<1>4. ASSUME NEW j \in DOMAIN seq PROVE Batch!Before(m, seq, j) \subseteq DOMAIN seq
  <2>1. Batch!Before(m, seq, j) \subseteq 1..(j - 1)
    BY DEF Batch!Before, Batch!FallbackDependencies
  <2> QED BY <2>1
<1> QED BY <1>2, <1>3, <1>4

LEMMA WrittenOrRead ==
    ASSUME NEW m, NEW seq, NEW k, k \in Batch!ReadOnly(m, seq)
    PROVE  k \notin Batch!Written(m, seq)
BY DEF Batch!ReadOnly

Batched(p) == [c \in Batch!Calls |-> IF p[c] = "pending" THEN "batched" ELSE p[c]]

DependenciesWith(m, q, fl, t, ks) ==
    IF ~Batch!Planned(m, q) THEN fl
    ELSE ({t} \cup {ks[k].lastWrite : k \in Batch!Written(m, q) \cup Batch!ReadOnly(m, q)}
              \cup UNION {ks[k].reads : k \in Batch!Written(m, q)}) \ {Batch!NoOne}

BatchesWith(m, q, bs, fl, t, ks) ==
    [bs EXCEPT ![Head(q)] = [items |-> q, dependencies |-> DependenciesWith(m, q, fl, t, ks)]]

KeysWith(m, q, ks) ==
    [k \in BatchKeys |->
       IF ~Batch!Planned(m, q) THEN ks[k]
       ELSE IF k \in Batch!Written(m, q) THEN [lastWrite |-> Head(q), reads |-> {}]
       ELSE IF k \in Batch!ReadOnly(m, q) THEN [ks[k] EXCEPT !.reads = @ \cup {Head(q)}]
       ELSE ks[k]]

\* What is pending is flushed.
LEMMA FlushKept ==
    ASSUME NEW m, NEW p, NEW pq, NEW q, NEW bs, NEW fl, NEW t, NEW ks,
           KindsOK(m, p), QueueOK(m, p, pq, q), FlightOK(m, p, pq, bs, fl, t, ks), q # <<>>
    PROVE  /\ KindsOK(m, Batched(p)) /\ QueueOK(m, Batched(p), pq, <<>>)
           /\ FlightOK(m, Batched(p), pq, BatchesWith(m, q, bs, fl, t, ks), fl \cup {Head(q)},
                       IF Batch!Planned(m, q) THEN t ELSE Head(q), KeysWith(m, q, ks))
<1> DEFINE b == Head(q)
           D == DependenciesWith(m, q, fl, t, ks)
           r == Batched(p)
           bs2 == BatchesWith(m, q, bs, fl, t, ks)
           fl2 == fl \cup {b}
           t2 == IF Batch!Planned(m, q) THEN t ELSE b
           ks2 == KeysWith(m, q, ks)
<1> USE DEF DependenciesWith, Batched, BatchesWith, KeysWith
<1>1. /\ BatchesOK(m, p, pq, bs, fl) /\ RunsOK(m, p, bs, fl) /\ ChainOK(m, pq, bs, fl)
      /\ TailOK(m, pq, bs, fl, t) /\ KeysOK(m, pq, bs, fl, ks)
  BY DEF FlightOK
<1>2. \A c \in Batch!Calls : r[c] = IF p[c] = "pending" THEN "batched" ELSE p[c]
  OBVIOUS
<1>3. /\ q \in Seq(Batch!Calls) /\ b = q[1] /\ 1 \in DOMAIN q /\ b \in Batch!Calls /\ Within(q, b)
  <2>1. q \in Seq(Batch!Calls)
    BY DEF QueueOK
  <2>2. b = q[1] /\ 1 \in DOMAIN q /\ b \in Batch!Calls
    BY <2>1
  <2> QED BY <2>1, <2>2 DEF Within
<1>4. \A c \in Batch!Calls : p[c] = "pending" <=> Within(q, c)
  BY DEF QueueOK
<1>5. \A c \in Batch!Calls : /\ InBatch(m, r, c) <=> InBatch(m, p, c) \/ Within(q, c)
                             /\ ~(InBatch(m, p, c) /\ Within(q, c))
                             /\ InBatch(m, p, c) => r[c] = p[c]
                             /\ Within(q, c) => r[c] = "batched"
  BY <1>2, <1>4, KindsAre DEF InBatch
<1>6. KindsOK(m, r)
  <2>1. r \in [Batch!Calls -> {"idle", "barred", "pending", "batched", "flushing", "running", "ran", "done"}]
    BY DEF KindsOK
  <2>2. ASSUME NEW c \in Batch!Calls
        PROVE  /\ r[c] = "idle" <=> m[c].kind = "none"
               /\ m[c].kind = "batch" => r[c] \in {"barred", "pending", "batched", "running", "ran", "done"}
               /\ m[c].kind \in {"fence", "block"} => r[c] \in {"barred", "flushing", "running", "done"}
               /\ m[c].kind = "helper" => r[c] \in {"running", "done"}
    BY <1>2 DEF KindsOK
  <2> QED BY <2>1, <2>2 DEF KindsOK
<1>7. /\ \A c, d \in Batch!Calls : InBatch(m, p, c) /\ Within(q, d) => Earlier(pq, c, d)
      /\ \A i, j \in DOMAIN q : i < j => Earlier(pq, q[i], q[j])
      /\ \A c \in Batch!Calls : InBatch(m, r, c) => Within(pq, c)
      /\ \A i, j \in DOMAIN pq : pq[i] = pq[j] => i = j
      /\ pq \in Seq(Batch!Calls)
  BY <1>4, <1>5 DEF QueueOK
<1>8. QueueOK(m, r, pq, <<>>)
  <2>1. <<>> \in Seq(Batch!Calls) /\ \A c : ~Within(<<>>, c)
    BY DEF Within
  <2>2. \A c \in Batch!Calls : r[c] # "pending"
    BY <1>2
  <2>3. \A i \in DOMAIN pq : m[pq[i]].kind = "batch" /\ r[pq[i]] # "barred"
    <3> SUFFICES ASSUME NEW i \in DOMAIN pq PROVE m[pq[i]].kind = "batch" /\ r[pq[i]] # "barred"
      OBVIOUS
    <3>1. pq[i] \in Batch!Calls
      BY <1>7
    <3>2. m[pq[i]].kind = "batch" /\ p[pq[i]] # "barred"
      BY DEF QueueOK
    <3> QED BY <1>2, <3>1, <3>2
  <2>4. \A i, j \in DOMAIN <<>> : i < j => Earlier(pq, <<>>[i], <<>>[j])
    <3>1. DOMAIN <<>> = {}
      OBVIOUS
    <3> QED BY <3>1
  <2> QED BY <1>7, <2>1, <2>2, <2>3, <2>4 DEF QueueOK
<1>9. /\ \A x, y, z : Earlier(pq, x, y) /\ Earlier(pq, y, z) => Earlier(pq, x, z)
      /\ \A x, y : Earlier(pq, x, y) => ~Earlier(pq, y, x) /\ x # y
  BY <1>7, EarlierOrders
<1>10. ASSUME NEW a \in fl
       PROVE  /\ a \in Batch!Calls /\ InBatch(m, p, a) /\ a # b /\ bs2[a] = bs[a]
              /\ Earlier(pq, a, b) /\ ~Earlier(pq, b, a)
              /\ \A c \in Batch!Calls : Within(bs[a].items, c) => InBatch(m, p, c)
              /\ \A i \in DOMAIN bs[a].items : /\ bs[a].items[i] \in Batch!Calls
                                               /\ InBatch(m, p, bs[a].items[i])
              /\ bs[a].items \in Seq(Batch!Calls)
              /\ b \notin bs[a].dependencies
  <2>1. /\ bs[a].items \in Seq(Batch!Calls) /\ bs[a].items # <<>> /\ a = bs[a].items[1]
        /\ \A c \in Batch!Calls : Within(bs[a].items, c) => InBatch(m, p, c)
        /\ a \in Batch!Calls
        /\ \A e \in bs[a].dependencies : Earlier(pq, e, a)
    BY <1>1 DEF BatchesOK
  <2>2. \A i \in DOMAIN bs[a].items : bs[a].items[i] \in Batch!Calls /\ Within(bs[a].items, bs[a].items[i])
    BY <2>1 DEF Within
  <2>3. 1 \in DOMAIN bs[a].items
    BY <2>1
  <2>4. InBatch(m, p, a)
    BY <2>1, <2>2, <2>3
  <2>5. a # b
    BY <1>3, <1>5, <2>4
  <2>6. bs2[a] = bs[a]
    BY <2>1, <2>5, <1>1 DEF BatchesOK
  <2>7. Earlier(pq, a, b) /\ ~Earlier(pq, b, a)
    BY <1>3, <1>7, <1>9, <2>1, <2>4
  <2> QED BY <2>1, <2>2, <2>4, <2>5, <2>6, <2>7
<1>11. bs2[b].items = q /\ bs2[b].dependencies = D
  BY <1>1, <1>3 DEF BatchesOK
<1>12. Batch!Written(m, q) \subseteq BatchKeys /\ Batch!ReadOnly(m, q) \subseteq BatchKeys
  BY <1>3, PlanReaches
<1>13. \A k \in BatchKeys : ks[k].lastWrite \in fl \cup {Batch!NoOne} /\ ks[k].reads \subseteq fl
  BY <1>1 DEF KeysOK
<1>14. D \subseteq fl
  <2>1. t \in fl \cup {Batch!NoOne}
    BY <1>1 DEF TailOK
  <2> QED BY <1>12, <1>13, <2>1
<1>15. BatchesOK(m, r, pq, bs2, fl2)
  <2>1. bs2 \in [Batch!Calls -> [items : Seq(Batch!Calls), dependencies : SUBSET Batch!Calls]]
    <3>1. [items |-> q, dependencies |-> D] \in [items : Seq(Batch!Calls), dependencies : SUBSET Batch!Calls]
      BY <1>3, <1>10, <1>14
    <3>2. bs \in [Batch!Calls -> [items : Seq(Batch!Calls), dependencies : SUBSET Batch!Calls]]
      BY <1>1 DEF BatchesOK
    <3> QED BY <1>3, <3>1, <3>2
  <2>2. fl2 \subseteq Batch!Calls
    BY <1>3, <1>10
  <2>3. ASSUME NEW a \in fl2
        PROVE  /\ bs2[a].items \in Seq(Batch!Calls) /\ bs2[a].items # <<>> /\ a = bs2[a].items[1]
               /\ \A c \in Batch!Calls : Within(bs2[a].items, c) => InBatch(m, r, c)
               /\ \A i, j \in DOMAIN bs2[a].items : i < j => Earlier(pq, bs2[a].items[i], bs2[a].items[j])
               /\ \A e \in bs2[a].dependencies : e \in Batch!Calls /\ Earlier(pq, e, a)
    <3>1. CASE a = b
      <4>1. bs2[a].items = q /\ bs2[a].dependencies = D
        BY <1>11, <3>1
      <4>2. \A e \in D : e \in Batch!Calls /\ Earlier(pq, e, b)
        BY <1>10, <1>14
      <4>3. \A c \in Batch!Calls : Within(q, c) => InBatch(m, r, c)
        BY <1>5
      <4>4. q \in Seq(Batch!Calls) /\ q # <<>> /\ b = q[1]
        BY <1>3
      <4>5. \A i, j \in DOMAIN q : i < j => Earlier(pq, q[i], q[j])
        BY <1>7
      <4> QED BY ONLY <3>1, <4>1, <4>2, <4>3, <4>4, <4>5
    <3>2. CASE a \in fl
      <4>1. bs2[a] = bs[a]
        BY <1>10, <3>2
      <4> QED BY <1>1, <1>5, <3>2, <4>1 DEF BatchesOK
    <3> QED BY <3>1, <3>2
  <2>4. ASSUME NEW c \in Batch!Calls, InBatch(m, r, c) PROVE \E a \in fl2 : Within(bs2[a].items, c)
    <3>1. CASE Within(q, c)
      BY <1>11, <3>1
    <3>2. CASE InBatch(m, p, c)
      <4>1. PICK a \in fl : Within(bs[a].items, c)
        BY <1>1, <3>2 DEF BatchesOK
      <4> QED BY <1>10, <4>1
    <3> QED BY <1>5, <2>4, <3>1, <3>2
  <2>5. ASSUME NEW a \in fl2, NEW e \in fl2, Earlier(pq, a, e), NEW c \in Batch!Calls, NEW d \in Batch!Calls,
               Within(bs2[a].items, c), Within(bs2[e].items, d)
        PROVE  Earlier(pq, c, d)
    <3>1. a \in fl
      BY <1>9, <1>10, <2>5
    <3>2. bs2[a] = bs[a] /\ InBatch(m, p, c)
      BY <1>10, <2>5, <3>1
    <3>3. CASE e = b
      BY <1>7, <1>11, <2>5, <3>2, <3>3
    <3>4. CASE e \in fl
      <4>1. bs2[e] = bs[e]
        BY <1>10, <3>4
      <4> QED BY <1>1, <2>5, <3>1, <3>2, <3>4, <4>1 DEF BatchesOK
    <3> QED BY <3>3, <3>4
  <2>6. \A a, e \in fl2 : Earlier(pq, a, e) =>
          \A c, d \in Batch!Calls : Within(bs2[a].items, c) /\ Within(bs2[e].items, d) => Earlier(pq, c, d)
    BY <2>5
  <2>7. \A c \in Batch!Calls : InBatch(m, r, c) => \E a \in fl2 : Within(bs2[a].items, c)
    BY <2>4
  <2> QED BY ONLY <2>1, <2>2, <2>3, <2>6, <2>7 DEF BatchesOK
<1>16. RunsOK(m, r, bs2, fl2)
  <2> SUFFICES ASSUME NEW a \in fl2, NEW j \in DOMAIN bs2[a].items, r[bs2[a].items[j]] \in {"running", "ran"}
               PROVE  /\ bs2[a].dependencies \cap fl2 = {}
                      /\ \A i \in Batch!Before(m, bs2[a].items, j) : r[bs2[a].items[i]] = "ran"
    BY DEF RunsOK
  <2>1. a # b
    <3>1. a = b => Within(q, bs2[a].items[j]) /\ bs2[a].items[j] \in Batch!Calls
      BY <1>3, <1>11 DEF Within
    <3> QED BY <1>5, <3>1
  <2>2. a \in fl /\ bs2[a] = bs[a]
    BY <1>10, <2>1
  <2>3. p[bs[a].items[j]] \in {"running", "ran"}
    BY <1>5, <1>10, <2>2
  <2>4. /\ bs[a].dependencies \cap fl = {}
        /\ \A i \in Batch!Before(m, bs[a].items, j) : p[bs[a].items[i]] = "ran"
    BY <1>1, <2>2, <2>3 DEF RunsOK
  <2>5. Batch!Before(m, bs[a].items, j) \subseteq DOMAIN bs[a].items
    BY <1>10, <2>2, PlanReaches
  <2>6. \A i \in Batch!Before(m, bs[a].items, j) : r[bs[a].items[i]] = "ran"
    BY <1>5, <1>10, <2>2, <2>4, <2>5
  <2> QED BY <1>10, <2>2, <2>4, <2>6
<1>17. ASSUME NEW a \in fl, Bound(m, bs[a].items, q)
       PROVE  \E e \in D \cap fl : e = a \/ (Earlier(pq, a, e) /\ Bound(m, bs[a].items, bs[e].items))
  <2>1. CASE ~Batch!Planned(m, q)
    BY <2>1
  <2>2. CASE Batch!Planned(m, q) /\ ~Batch!Planned(m, bs[a].items)
    <3>1. t \in D \cap fl /\ (a = t \/ Earlier(pq, a, t))
      <4>1. t \in fl /\ (a = t \/ Earlier(pq, a, t))
        BY <1>1, <2>2 DEF TailOK
      <4>2. t # Batch!NoOne
        BY <1>10, <4>1, CallsAre
      <4> QED BY <2>2, <4>1, <4>2
    <3> QED BY <2>2, <3>1 DEF Bound
  <2>3. CASE Batch!Planned(m, q) /\ Batch!Planned(m, bs[a].items)
    <3>1. PICK k \in BatchKeys :
             \/ /\ k \in Batch!Written(m, bs[a].items)
                /\ k \in Batch!Written(m, q) \cup Batch!ReadOnly(m, q)
             \/ k \in Batch!ReadOnly(m, bs[a].items) /\ k \in Batch!Written(m, q)
      BY <1>17, <2>3 DEF Bound
    <3> DEFINE w == ks[k].lastWrite
    <3>2. w # Batch!NoOne => w \in D \cap fl
      BY <1>13, <2>3, <3>1
    <3>3. k \in Batch!Written(m, q) => ks[k].reads \subseteq D \cap fl
      <4>1. Batch!NoOne \notin fl
        BY <1>10, CallsAre
      <4> QED BY <1>13, <2>3, <4>1
    <3>4. CASE k \in Batch!ReadOnly(m, bs[a].items) /\ k \in Batch!Written(m, q) /\ a \in ks[k].reads
      BY <3>3, <3>4
    <3>5. CASE w = a
      <4>1. a # Batch!NoOne
        BY <1>10, CallsAre
      <4> QED BY <3>2, <3>5, <4>1
    <3>6. CASE Overtaken(pq, a, w)
      <4>1. w # Batch!NoOne /\ Earlier(pq, a, w)
        BY <3>6 DEF Overtaken
      <4>2. k \in Batch!Written(m, bs[w].items)
        BY <1>1, <4>1 DEF KeysOK
      <4>3. Bound(m, bs[a].items, bs[w].items)
        BY <3>1, <4>2 DEF Bound
      <4> QED BY <3>2, <4>1, <4>3
    <3>7. \/ k \in Batch!Written(m, bs[a].items) /\ (w = a \/ Overtaken(pq, a, w))
          \/ /\ k \in Batch!ReadOnly(m, bs[a].items) /\ k \in Batch!Written(m, q)
             /\ a \in ks[k].reads \/ Overtaken(pq, a, w)
      BY <1>1, <2>3, <3>1 DEF KeysOK
    <3> QED BY <3>4, <3>5, <3>6, <3>7
  <2> QED BY <2>1, <2>2, <2>3
<1>18. ChainOK(m, pq, bs2, fl2)
  <2> SUFFICES ASSUME NEW a \in fl2, NEW c \in fl2, Earlier(pq, a, c), Bound(m, bs2[a].items, bs2[c].items)
               PROVE  \E e \in bs2[c].dependencies \cap fl2 :
                         e = a \/ (Earlier(pq, a, e) /\ Bound(m, bs2[a].items, bs2[e].items))
    BY DEF ChainOK
  <2>1. a \in fl /\ bs2[a] = bs[a]
    BY <1>9, <1>10
  <2>2. CASE c = b
    <3>1. PICK e \in D \cap fl : e = a \/ (Earlier(pq, a, e) /\ Bound(m, bs[a].items, bs[e].items))
      BY <1>11, <1>17, <2>1, <2>2
    <3>2. bs2[e] = bs[e]
      BY <1>10, <3>1
    <3> QED BY <1>11, <2>1, <2>2, <3>1, <3>2
  <2>3. CASE c \in fl
    <3>1. bs2[c] = bs[c]
      BY <1>10, <2>3
    <3>2. PICK e \in bs[c].dependencies \cap fl : e = a \/ (Earlier(pq, a, e) /\ Bound(m, bs[a].items, bs[e].items))
      BY <1>1, <2>1, <2>3, <3>1 DEF ChainOK
    <3>3. bs2[e] = bs[e]
      BY <1>10, <3>2
    <3> QED BY <2>1, <3>1, <3>2, <3>3
  <2> QED BY <2>2, <2>3
<1>19. Batch!NoOne \notin fl2
  <2>1. fl2 \subseteq Batch!Calls
    BY <1>3, <1>10
  <2> QED BY <2>1, CallsAre
<1>20. TailOK(m, pq, bs2, fl2, t2)
  <2>1. CASE Batch!Planned(m, q)
    <3>1. t2 = t /\ t \in fl \cup {Batch!NoOne}
      BY <1>1, <2>1 DEF TailOK
    <3>2. t # Batch!NoOne => ~Batch!Planned(m, bs2[t].items)
      BY <1>1, <1>10, <3>1 DEF TailOK
    <3>3. ASSUME NEW a \in fl2, ~Batch!Planned(m, bs2[a].items)
          PROVE  a = t \/ (t # Batch!NoOne /\ Earlier(pq, a, t))
      <4>1. a \in fl /\ bs2[a] = bs[a]
        BY <1>10, <1>11, <2>1, <3>3
      <4> QED BY <1>1, <3>3, <4>1 DEF TailOK
    <3> QED BY <3>1, <3>2, <3>3 DEF TailOK
  <2>2. CASE ~Batch!Planned(m, q)
    <3>1. t2 = b
      BY <2>2
    <3> QED BY <1>10, <1>11, <1>19, <2>2, <3>1 DEF TailOK
  <2> QED BY <2>1, <2>2
<1>21. \A k \in BatchKeys :
          /\ ks[k] = [lastWrite |-> ks[k].lastWrite, reads |-> ks[k].reads]
          /\ \/ /\ Batch!Planned(m, q) /\ k \in Batch!Written(m, q)
                /\ ks2[k].lastWrite = b /\ ks2[k].reads = {}
             \/ /\ ~Batch!Planned(m, q) \/ k \notin Batch!Written(m, q)
                /\ ks2[k].lastWrite = ks[k].lastWrite
                /\ ks2[k].reads = IF Batch!Planned(m, q) /\ k \in Batch!ReadOnly(m, q)
                                  THEN ks[k].reads \cup {b} ELSE ks[k].reads
  BY <1>1 DEF KeysOK
<1>22. ks2 \in [BatchKeys -> [lastWrite : fl2 \cup {Batch!NoOne}, reads : SUBSET fl2]]
  <2> SUFFICES ASSUME NEW k \in BatchKeys PROVE ks2[k] \in [lastWrite : fl2 \cup {Batch!NoOne}, reads : SUBSET fl2]
    OBVIOUS
  <2>1. ks[k] \in [lastWrite : fl \cup {Batch!NoOne}, reads : SUBSET fl]
    BY <1>1 DEF KeysOK
  <2> QED BY <2>1
<1>23. KeysOK(m, pq, bs2, fl2, ks2)
  <2> SUFFICES ASSUME NEW k \in BatchKeys
               PROVE  /\ ks2[k].lastWrite # Batch!NoOne =>
                            /\ Batch!Planned(m, bs2[ks2[k].lastWrite].items)
                            /\ k \in Batch!Written(m, bs2[ks2[k].lastWrite].items)
                      /\ \A a \in fl2 : Batch!Planned(m, bs2[a].items) =>
                          /\ k \in Batch!Written(m, bs2[a].items) =>
                                ks2[k].lastWrite = a \/ Overtaken(pq, a, ks2[k].lastWrite)
                          /\ k \in Batch!ReadOnly(m, bs2[a].items) =>
                                a \in ks2[k].reads \/ Overtaken(pq, a, ks2[k].lastWrite)
    BY <1>22 DEF KeysOK
  <2>1. CASE ks2[k].lastWrite = b /\ ks2[k].reads = {} /\ Batch!Planned(m, q) /\ k \in Batch!Written(m, q)
    <3>1. \A a \in fl2 : a # b => Overtaken(pq, a, b)
      BY <1>10, <1>19 DEF Overtaken
    <3>2. k \notin Batch!ReadOnly(m, q)
      BY <2>1, WrittenOrRead
    <3> QED BY <1>11, <2>1, <3>1, <3>2
  <2>2. CASE /\ ~Batch!Planned(m, q) \/ k \notin Batch!Written(m, q)
             /\ ks2[k].lastWrite = ks[k].lastWrite
             /\ ks2[k].reads = IF Batch!Planned(m, q) /\ k \in Batch!ReadOnly(m, q)
                               THEN ks[k].reads \cup {b} ELSE ks[k].reads
    <3>1. ks[k].lastWrite # Batch!NoOne =>
             /\ Batch!Planned(m, bs2[ks[k].lastWrite].items)
             /\ k \in Batch!Written(m, bs2[ks[k].lastWrite].items)
      <4>1. ks[k].lastWrite # Batch!NoOne => bs2[ks[k].lastWrite] = bs[ks[k].lastWrite]
        BY <1>10, <1>13
      <4> QED BY <1>1, <4>1 DEF KeysOK
    <3>2. ASSUME NEW a \in fl, Batch!Planned(m, bs2[a].items)
          PROVE  /\ k \in Batch!Written(m, bs2[a].items) =>
                       ks[k].lastWrite = a \/ Overtaken(pq, a, ks[k].lastWrite)
                 /\ k \in Batch!ReadOnly(m, bs2[a].items) =>
                       a \in ks[k].reads \/ Overtaken(pq, a, ks[k].lastWrite)
      <4>1. bs2[a] = bs[a]
        BY <1>10
      <4> QED BY <1>1, <3>2, <4>1 DEF KeysOK
    <3>3. Batch!Planned(m, bs2[b].items) => /\ k \notin Batch!Written(m, bs2[b].items)
                                            /\ k \in Batch!ReadOnly(m, bs2[b].items) => b \in ks2[k].reads
      BY <1>11, <2>2
    <3>4. ks[k].reads \subseteq ks2[k].reads
      BY <2>2
    <3> QED BY <2>2, <3>1, <3>2, <3>3, <3>4
  <2> QED BY <1>21, <2>1, <2>2
<1> QED BY <1>6, <1>8, <1>15, <1>16, <1>18, <1>20, <1>23 DEF FlightOK

\* A call is in one batch, at one place.
LEMMA BatchesApart ==
    ASSUME NEW m, NEW p, NEW pq, NEW q, NEW bs, NEW fl,
           QueueOK(m, p, pq, q), BatchesOK(m, p, pq, bs, fl),
           NEW a \in fl
    PROVE  /\ a \in Batch!Calls /\ InBatch(m, p, a) /\ Within(bs[a].items, a)
           /\ \A i \in DOMAIN bs[a].items : /\ bs[a].items[i] \in Batch!Calls
                                            /\ InBatch(m, p, bs[a].items[i])
                                            /\ Within(bs[a].items, bs[a].items[i])
           /\ \A b \in fl : a = b \/ Earlier(pq, a, b) \/ Earlier(pq, b, a)
           /\ \A b \in fl : \A c \in Batch!Calls : Within(bs[a].items, c) /\ Within(bs[b].items, c) => a = b
           /\ \A i, j \in DOMAIN bs[a].items : bs[a].items[i] = bs[a].items[j] => i = j
<1>1. /\ pq \in Seq(Batch!Calls) /\ \A i, j \in DOMAIN pq : pq[i] = pq[j] => i = j
      /\ \A c \in Batch!Calls : InBatch(m, p, c) => Within(pq, c)
  BY DEF QueueOK
<1>2. /\ \A x, y : Earlier(pq, x, y) => x # y
      /\ \A x, y : Within(pq, x) /\ Within(pq, y) => x = y \/ Earlier(pq, x, y) \/ Earlier(pq, y, x)
  BY <1>1, EarlierOrders
<1>3. ASSUME NEW b \in fl
      PROVE  /\ b \in Batch!Calls /\ InBatch(m, p, b) /\ Within(bs[b].items, b)
             /\ \A i \in DOMAIN bs[b].items : /\ bs[b].items[i] \in Batch!Calls
                                              /\ InBatch(m, p, bs[b].items[i])
                                              /\ Within(bs[b].items, bs[b].items[i])
  <2>1. /\ bs[b].items \in Seq(Batch!Calls) /\ bs[b].items # <<>> /\ b = bs[b].items[1]
        /\ \A c \in Batch!Calls : Within(bs[b].items, c) => InBatch(m, p, c)
        /\ b \in Batch!Calls
    BY DEF BatchesOK
  <2>2. \A i \in DOMAIN bs[b].items : bs[b].items[i] \in Batch!Calls /\ Within(bs[b].items, bs[b].items[i])
    BY <2>1 DEF Within
  <2>3. 1 \in DOMAIN bs[b].items
    BY <2>1
  <2> QED BY <2>1, <2>2, <2>3
<1>4. \A b \in fl : a = b \/ Earlier(pq, a, b) \/ Earlier(pq, b, a)
  BY <1>1, <1>2, <1>3
<1>5. \A x, y \in fl : Earlier(pq, x, y) =>
         \A c, d \in Batch!Calls : Within(bs[x].items, c) /\ Within(bs[y].items, d) => Earlier(pq, c, d)
  BY DEF BatchesOK
<1>6. ASSUME NEW b \in fl, NEW c \in Batch!Calls, Within(bs[a].items, c), Within(bs[b].items, c) PROVE a = b
  BY <1>2, <1>4, <1>5, <1>6
<1>7. ASSUME NEW i \in DOMAIN bs[a].items, NEW j \in DOMAIN bs[a].items, bs[a].items[i] = bs[a].items[j]
      PROVE  i = j
  <2>1. /\ bs[a].items \in Seq(Batch!Calls)
        /\ \A k, l \in DOMAIN bs[a].items : k < l => Earlier(pq, bs[a].items[k], bs[a].items[l])
    BY DEF BatchesOK
  <2>2. i \in Nat /\ j \in Nat
    BY <2>1
  <2>3. ~(i < j) /\ ~(j < i)
    BY <1>2, <1>7, <2>1
  <2> QED BY <2>2, <2>3
<1> QED BY <1>3, <1>4, <1>6, <1>7

\* A call of a batch gets on.
LEMMA RunKept ==
    ASSUME NEW m, NEW p, NEW pq, NEW q, NEW bs, NEW fl, NEW t, NEW ks, NEW r,
           NEW b \in fl, NEW j \in DOMAIN bs[b].items,
           KindsOK(m, p), QueueOK(m, p, pq, q), FlightOK(m, p, pq, bs, fl, t, ks),
           \/ /\ bs[b].dependencies \cap fl = {}
              /\ p[bs[b].items[j]] = "batched"
              /\ \A i \in Batch!Before(m, bs[b].items, j) : p[bs[b].items[i]] = "ran"
              /\ r = [p EXCEPT ![bs[b].items[j]] = "running"]
           \/ /\ p[bs[b].items[j]] = "running"
              /\ r = [p EXCEPT ![bs[b].items[j]] = "ran"]
    PROVE  KindsOK(m, r) /\ QueueOK(m, r, pq, q) /\ FlightOK(m, r, pq, bs, fl, t, ks)
<1> DEFINE c == bs[b].items[j]
<1>1. /\ BatchesOK(m, p, pq, bs, fl) /\ RunsOK(m, p, bs, fl) /\ ChainOK(m, pq, bs, fl)
      /\ TailOK(m, pq, bs, fl, t) /\ KeysOK(m, pq, bs, fl, ks)
  BY DEF FlightOK
<1>2. c \in Batch!Calls /\ InBatch(m, p, c) /\ Within(bs[b].items, c)
  BY <1>1, BatchesApart
<1>3. m[c].kind = "batch"
  BY <1>2 DEF InBatch
<1>4. \/ p[c] = "batched" /\ r = [p EXCEPT ![c] = "running"]
      \/ p[c] = "running" /\ r = [p EXCEPT ![c] = "ran"]
  OBVIOUS
<1>5. p \in [Batch!Calls -> {"idle", "barred", "pending", "batched", "flushing", "running", "ran", "done"}]
  BY DEF KindsOK
<1>6. /\ r \in [Batch!Calls -> {"idle", "barred", "pending", "batched", "flushing", "running", "ran", "done"}]
      /\ \A d \in Batch!Calls : d # c => r[d] = p[d]
      /\ r[c] \in {"running", "ran"} /\ (r[c] = "running" <=> p[c] = "batched")
  <2> HIDE DEF c
  <2> QED BY <1>2, <1>4, <1>5
<1>7. \A d \in Batch!Calls : InBatch(m, r, d) <=> InBatch(m, p, d)
  <2> HIDE DEF c
  <2> QED BY <1>2, <1>3, <1>6 DEF InBatch
<1>8. KindsOK(m, r)
  <2> HIDE DEF c
  <2> QED BY <1>2, <1>3, <1>4, <1>6 DEF KindsOK
<1>9. \A d \in Batch!Calls : (r[d] = "pending" <=> p[d] = "pending") /\ (r[d] = "barred" <=> p[d] = "barred")
  <2> HIDE DEF c
  <2> QED BY <1>2, <1>4, <1>6
<1>10. QueueOK(m, r, pq, q)
  <2>1. pq \in Seq(Batch!Calls)
    BY DEF QueueOK
  <2>2. \A i \in DOMAIN pq : pq[i] \in Batch!Calls
    BY <2>1
  <2> QED BY <1>7, <1>9, <2>2 DEF QueueOK
<1>11. BatchesOK(m, r, pq, bs, fl)
  BY <1>1, <1>7 DEF BatchesOK
<1>12. RunsOK(m, r, bs, fl)
  <2> SUFFICES ASSUME NEW a \in fl, NEW k \in DOMAIN bs[a].items, r[bs[a].items[k]] \in {"running", "ran"}
               PROVE  /\ bs[a].dependencies \cap fl = {}
                      /\ \A i \in Batch!Before(m, bs[a].items, k) : r[bs[a].items[i]] = "ran"
    BY DEF RunsOK
  <2>1. bs[a].items \in Seq(Batch!Calls)
    BY <1>1 DEF BatchesOK
  <2>2. Batch!Before(m, bs[a].items, k) \subseteq DOMAIN bs[a].items
    BY <2>1, PlanReaches
  <2>3. \A i \in DOMAIN bs[a].items : bs[a].items[i] \in Batch!Calls /\ Within(bs[a].items, bs[a].items[i])
    BY <1>1, BatchesApart
  <2>4. /\ bs[a].dependencies \cap fl = {}
        /\ \A i \in Batch!Before(m, bs[a].items, k) : p[bs[a].items[i]] = "ran"
    <3>1. CASE p[bs[a].items[k]] \in {"running", "ran"}
      BY <1>1, <3>1 DEF RunsOK
    <3>2. CASE p[bs[a].items[k]] \notin {"running", "ran"}
      <4>1. bs[a].items[k] = c /\ p[c] = "batched"
        <5> HIDE DEF c
        <5> QED BY <1>4, <1>6, <2>3, <3>2
      <4>2. a = b
        BY <1>1, <1>2, <2>3, <4>1, BatchesApart
      <4>3. k = j
        BY <1>1, <4>1, <4>2, BatchesApart
      <4> QED BY <4>1, <4>2, <4>3
    <3> QED BY <3>1, <3>2
  <2>5. \A i \in Batch!Before(m, bs[a].items, k) : r[bs[a].items[i]] = "ran"
    <3> SUFFICES ASSUME NEW i \in Batch!Before(m, bs[a].items, k) PROVE r[bs[a].items[i]] = "ran"
      OBVIOUS
    <3>1. bs[a].items[i] \in Batch!Calls /\ p[bs[a].items[i]] = "ran"
      BY <2>2, <2>3, <2>4
    <3>2. bs[a].items[i] # c
      BY <3>1, <1>4
    <3> QED BY <1>6, <3>1, <3>2
  <2> QED BY <2>4, <2>5
<1> QED BY <1>1, <1>8, <1>10, <1>11, <1>12 DEF FlightOK

Settled(p, items) == [c \in Batch!Calls |-> IF Within(items, c) THEN "done" ELSE p[c]]

KeysWithout(ks, b) ==
    [k \in BatchKeys |-> [lastWrite |-> IF ks[k].lastWrite = b THEN Batch!NoOne ELSE ks[k].lastWrite,
                          reads |-> ks[k].reads \ {b}]]

\* A batch that waits for none is settled.
LEMMA SettleKept ==
    ASSUME NEW m, NEW p, NEW pq, NEW q, NEW bs, NEW fl, NEW t, NEW ks, NEW b \in fl,
           KindsOK(m, p), QueueOK(m, p, pq, q), FlightOK(m, p, pq, bs, fl, t, ks),
           bs[b].dependencies \cap fl = {}
    PROVE  /\ KindsOK(m, Settled(p, bs[b].items)) /\ QueueOK(m, Settled(p, bs[b].items), pq, q)
           /\ FlightOK(m, Settled(p, bs[b].items), pq, [bs EXCEPT ![b] = Batch!NoBatch], fl \ {b},
                       IF t = b THEN Batch!NoOne ELSE t, KeysWithout(ks, b))
<1> DEFINE r == Settled(p, bs[b].items)
           bs2 == [bs EXCEPT ![b] = Batch!NoBatch]
           fl2 == fl \ {b}
           t2 == IF t = b THEN Batch!NoOne ELSE t
           ks2 == KeysWithout(ks, b)
<1> USE DEF Settled, KeysWithout
<1>1. /\ BatchesOK(m, p, pq, bs, fl) /\ RunsOK(m, p, bs, fl) /\ ChainOK(m, pq, bs, fl)
      /\ TailOK(m, pq, bs, fl, t) /\ KeysOK(m, pq, bs, fl, ks)
  BY DEF FlightOK
<1>2. \A c \in Batch!Calls : r[c] = IF Within(bs[b].items, c) THEN "done" ELSE p[c]
  OBVIOUS
<1>3. \A c \in Batch!Calls : Within(bs[b].items, c) => InBatch(m, p, c) /\ m[c].kind = "batch"
  BY <1>1 DEF BatchesOK, InBatch
<1>4. \A c \in Batch!Calls : InBatch(m, r, c) <=> InBatch(m, p, c) /\ ~Within(bs[b].items, c)
  BY <1>2 DEF InBatch
<1>5. \A c \in Batch!Calls : (r[c] = "pending" <=> p[c] = "pending") /\ (r[c] = "barred" <=> p[c] = "barred")
  BY <1>2, <1>3 DEF InBatch
<1>6. KindsOK(m, r)
  <2>1. r \in [Batch!Calls -> {"idle", "barred", "pending", "batched", "flushing", "running", "ran", "done"}]
    BY DEF KindsOK
  <2>2. ASSUME NEW c \in Batch!Calls
        PROVE  /\ r[c] = "idle" <=> m[c].kind = "none"
               /\ m[c].kind = "batch" => r[c] \in {"barred", "pending", "batched", "running", "ran", "done"}
               /\ m[c].kind \in {"fence", "block"} => r[c] \in {"barred", "flushing", "running", "done"}
               /\ m[c].kind = "helper" => r[c] \in {"running", "done"}
    BY <1>2, <1>3 DEF KindsOK
  <2> QED BY <2>1, <2>2 DEF KindsOK
<1>7. QueueOK(m, r, pq, q)
  <2>1. pq \in Seq(Batch!Calls)
    BY DEF QueueOK
  <2>2. \A i \in DOMAIN pq : pq[i] \in Batch!Calls
    BY <2>1
  <2> QED BY <1>4, <1>5, <2>2 DEF QueueOK
<1>8. ASSUME NEW a \in fl2
      PROVE  /\ a \in fl /\ bs2[a] = bs[a] /\ a # b
             /\ \A c \in Batch!Calls : Within(bs[a].items, c) => ~Within(bs[b].items, c) /\ r[c] = p[c]
             /\ \A i \in DOMAIN bs[a].items : /\ bs[a].items[i] \in Batch!Calls
                                              /\ Within(bs[a].items, bs[a].items[i])
  <2>1. a \in fl /\ a # b /\ a \in Batch!Calls
    BY <1>1 DEF BatchesOK
  <2>2. bs2[a] = bs[a]
    BY <1>1, <2>1 DEF BatchesOK
  <2>3. \A c \in Batch!Calls : Within(bs[a].items, c) => ~Within(bs[b].items, c)
    BY <1>1, <2>1, BatchesApart
  <2>4. \A i \in DOMAIN bs[a].items : /\ bs[a].items[i] \in Batch!Calls
                                      /\ Within(bs[a].items, bs[a].items[i])
    BY <1>1, <2>1, BatchesApart
  <2> QED BY <1>2, <2>1, <2>2, <2>3, <2>4
<1>9. ASSUME NEW a \in fl2, Earlier(pq, a, b), Bound(m, bs[a].items, bs[b].items) PROVE FALSE
  <2>1. \E e \in bs[b].dependencies \cap fl :
            e = a \/ (Earlier(pq, a, e) /\ Bound(m, bs[a].items, bs[e].items))
    BY <1>1, <1>8, <1>9 DEF ChainOK
  <2> QED BY <2>1
<1>10. BatchesOK(m, r, pq, bs2, fl2)
  <2>1. bs2 \in [Batch!Calls -> [items : Seq(Batch!Calls), dependencies : SUBSET Batch!Calls]]
    <3>1. Batch!NoBatch \in [items : Seq(Batch!Calls), dependencies : SUBSET Batch!Calls]
      BY DEF Batch!NoBatch
    <3>2. bs \in [Batch!Calls -> [items : Seq(Batch!Calls), dependencies : SUBSET Batch!Calls]]
      BY <1>1 DEF BatchesOK
    <3> QED BY <3>1, <3>2
  <2>2. fl2 \subseteq Batch!Calls
    BY <1>1 DEF BatchesOK
  <2>3. ASSUME NEW a \in fl2
        PROVE  /\ bs2[a].items \in Seq(Batch!Calls) /\ bs2[a].items # <<>> /\ a = bs2[a].items[1]
               /\ \A c \in Batch!Calls : Within(bs2[a].items, c) => InBatch(m, r, c)
               /\ \A i, k \in DOMAIN bs2[a].items : i < k => Earlier(pq, bs2[a].items[i], bs2[a].items[k])
               /\ \A e \in bs2[a].dependencies : e \in Batch!Calls /\ Earlier(pq, e, a)
    <3>1. a \in fl /\ bs2[a] = bs[a]
      BY <1>8
    <3>2. \A c \in Batch!Calls : Within(bs[a].items, c) => InBatch(m, r, c)
      BY <1>1, <1>4, <1>8, <3>1 DEF BatchesOK
    <3> QED BY <1>1, <3>1, <3>2 DEF BatchesOK
  <2>4. ASSUME NEW c \in Batch!Calls, InBatch(m, r, c) PROVE \E a \in fl2 : Within(bs2[a].items, c)
    <3>1. InBatch(m, p, c) /\ ~Within(bs[b].items, c)
      BY <1>4, <2>4
    <3>2. PICK a \in fl : Within(bs[a].items, c)
      BY <1>1, <3>1 DEF BatchesOK
    <3>3. a \in fl2
      BY <3>1, <3>2
    <3> QED BY <1>8, <3>2, <3>3
  <2>5. \A c \in Batch!Calls : InBatch(m, r, c) => \E a \in fl2 : Within(bs2[a].items, c)
    BY <2>4
  <2>6. \A a, e \in fl2 : Earlier(pq, a, e) =>
          \A c, d \in Batch!Calls : Within(bs2[a].items, c) /\ Within(bs2[e].items, d) => Earlier(pq, c, d)
    BY <1>1, <1>8 DEF BatchesOK
  <2> QED BY ONLY <2>1, <2>2, <2>3, <2>5, <2>6 DEF BatchesOK
<1>11. RunsOK(m, r, bs2, fl2)
  <2> SUFFICES ASSUME NEW a \in fl2, NEW k \in DOMAIN bs2[a].items, r[bs2[a].items[k]] \in {"running", "ran"}
               PROVE  /\ bs2[a].dependencies \cap fl2 = {}
                      /\ \A i \in Batch!Before(m, bs2[a].items, k) : r[bs2[a].items[i]] = "ran"
    BY DEF RunsOK
  <2>1. a \in fl /\ bs2[a] = bs[a]
    BY <1>8
  <2>2. p[bs[a].items[k]] \in {"running", "ran"}
    BY <1>8, <2>1
  <2>3. /\ bs[a].dependencies \cap fl = {}
        /\ \A i \in Batch!Before(m, bs[a].items, k) : p[bs[a].items[i]] = "ran"
    BY <1>1, <2>1, <2>2 DEF RunsOK
  <2>4. Batch!Before(m, bs[a].items, k) \subseteq DOMAIN bs[a].items
    <3>1. bs[a].items \in Seq(Batch!Calls)
      BY <1>1, <2>1 DEF BatchesOK
    <3> QED BY <2>1, <3>1, PlanReaches
  <2>5. \A i \in Batch!Before(m, bs[a].items, k) : r[bs[a].items[i]] = "ran"
    BY <1>8, <2>3, <2>4
  <2> QED BY <2>1, <2>3, <2>5
<1>12. ChainOK(m, pq, bs2, fl2)
  <2> SUFFICES ASSUME NEW a \in fl2, NEW c \in fl2, Earlier(pq, a, c), Bound(m, bs2[a].items, bs2[c].items)
               PROVE  \E e \in bs2[c].dependencies \cap fl2 :
                         e = a \/ (Earlier(pq, a, e) /\ Bound(m, bs2[a].items, bs2[e].items))
    BY DEF ChainOK
  <2>1. a \in fl /\ c \in fl /\ bs2[a] = bs[a] /\ bs2[c] = bs[c] /\ a # b
    BY <1>8
  <2>2. PICK e \in bs[c].dependencies \cap fl : e = a \/ (Earlier(pq, a, e) /\ Bound(m, bs[a].items, bs[e].items))
    BY <1>1, <2>1 DEF ChainOK
  <2>3. e # b
    BY <1>9, <2>1, <2>2
  <2>4. e \in fl2 /\ bs2[e] = bs[e]
    BY <1>8, <2>2, <2>3
  <2> QED BY <2>1, <2>2, <2>4
<1>13. TailOK(m, pq, bs2, fl2, t2)
  <2>1. t2 \in fl2 \cup {Batch!NoOne}
    BY <1>1 DEF TailOK
  <2>2. t2 # Batch!NoOne => t2 = t /\ t \in fl2
    BY <2>1
  <2>3. t2 # Batch!NoOne => ~Batch!Planned(m, bs2[t2].items)
    BY <1>1, <1>8, <2>2 DEF TailOK
  <2>4. ASSUME NEW a \in fl2, ~Batch!Planned(m, bs2[a].items)
        PROVE  a = t2 \/ (t2 # Batch!NoOne /\ Earlier(pq, a, t2))
    <3>1. a \in fl /\ bs2[a] = bs[a] /\ a # b
      BY <1>8
    <3>2. a = t \/ (t # Batch!NoOne /\ Earlier(pq, a, t))
      BY <1>1, <2>4, <3>1 DEF TailOK
    <3>3. CASE t = b
      <4>1. Bound(m, bs[a].items, bs[b].items)
        BY <2>4, <3>1 DEF Bound
      <4> QED BY <1>9, <3>1, <3>2, <3>3, <4>1
    <3> QED BY <3>2, <3>3
  <2> QED BY <2>1, <2>3, <2>4 DEF TailOK
<1>14. KeysOK(m, pq, bs2, fl2, ks2)
  <2>1. ASSUME NEW k \in BatchKeys
        PROVE  /\ ks[k].lastWrite \in fl \cup {Batch!NoOne} /\ ks[k].reads \subseteq fl
               /\ ks2[k].lastWrite = IF ks[k].lastWrite = b THEN Batch!NoOne ELSE ks[k].lastWrite
               /\ ks2[k].reads = ks[k].reads \ {b}
               /\ ks2[k] \in [lastWrite : fl2 \cup {Batch!NoOne}, reads : SUBSET fl2]
    <3>1. ks[k].lastWrite \in fl \cup {Batch!NoOne} /\ ks[k].reads \subseteq fl
      BY <1>1 DEF KeysOK
    <3>2. ks2[k] = [lastWrite |-> IF ks[k].lastWrite = b THEN Batch!NoOne ELSE ks[k].lastWrite,
                    reads |-> ks[k].reads \ {b}]
      OBVIOUS
    <3> QED BY <3>1, <3>2
  <2>2. ks2 \in [BatchKeys -> [lastWrite : fl2 \cup {Batch!NoOne}, reads : SUBSET fl2]]
    BY <2>1
  <2>3. ASSUME NEW k \in BatchKeys, ks2[k].lastWrite # Batch!NoOne
        PROVE  /\ Batch!Planned(m, bs2[ks2[k].lastWrite].items)
               /\ k \in Batch!Written(m, bs2[ks2[k].lastWrite].items)
    <3>1. ks2[k].lastWrite = ks[k].lastWrite /\ ks[k].lastWrite \in fl2
      BY <2>1, <2>3
    <3> QED BY <1>1, <1>8, <2>3, <3>1 DEF KeysOK
  <2>4. ASSUME NEW k \in BatchKeys, NEW a \in fl2, Batch!Planned(m, bs2[a].items)
        PROVE  /\ k \in Batch!Written(m, bs2[a].items) =>
                     ks2[k].lastWrite = a \/ Overtaken(pq, a, ks2[k].lastWrite)
               /\ k \in Batch!ReadOnly(m, bs2[a].items) =>
                     a \in ks2[k].reads \/ Overtaken(pq, a, ks2[k].lastWrite)
    <3>1. a \in fl /\ bs2[a] = bs[a] /\ a # b
      BY <1>8
    <3>2. /\ k \in Batch!Written(m, bs[a].items) =>
                ks[k].lastWrite = a \/ Overtaken(pq, a, ks[k].lastWrite)
          /\ k \in Batch!ReadOnly(m, bs[a].items) =>
                a \in ks[k].reads \/ Overtaken(pq, a, ks[k].lastWrite)
      BY <1>1, <2>4, <3>1 DEF KeysOK
    <3>3. ASSUME Overtaken(pq, a, ks[k].lastWrite),
                 k \in Batch!Written(m, bs[a].items) \cup Batch!ReadOnly(m, bs[a].items)
          PROVE  ks[k].lastWrite # b
      <4> SUFFICES ASSUME ks[k].lastWrite = b PROVE FALSE
        OBVIOUS
      <4>1. Earlier(pq, a, b) /\ b # Batch!NoOne
        BY <3>3 DEF Overtaken
      <4>2. k \in Batch!Written(m, bs[b].items)
        BY <1>1, <4>1 DEF KeysOK
      <4>3. Bound(m, bs[a].items, bs[b].items)
        BY <3>3, <4>2 DEF Bound
      <4> QED BY <1>9, <4>1, <4>3
    <3> QED BY <2>1, <3>1, <3>2, <3>3 DEF Overtaken
  <2> QED BY <2>2, <2>3, <2>4 DEF KeysOK
<1> QED BY <1>6, <1>7, <1>10, <1>11, <1>12, <1>13, <1>14 DEF FlightOK

\* A command that runs has been overtaken by none of those it conflicts with.
LEMMA BatchesOrdered ==
    ASSUME NEW m, NEW p, NEW pq, NEW q, NEW bs, NEW fl, NEW t, NEW ks,
           KindsOK(m, p), QueueOK(m, p, pq, q), FlightOK(m, p, pq, bs, fl, t, ks),
           NEW i \in DOMAIN pq, NEW j \in DOMAIN pq, i < j,
           Conflict(m[pq[i]], m[pq[j]]), p[pq[j]] = "running"
    PROVE  p[pq[i]] \in {"ran", "done"}
<1> DEFINE c == pq[i]
           d == pq[j]
<1>1. /\ BatchesOK(m, p, pq, bs, fl) /\ RunsOK(m, p, bs, fl) /\ ChainOK(m, pq, bs, fl)
  BY DEF FlightOK
<1>2. /\ pq \in Seq(Batch!Calls)
      /\ \A k, l \in DOMAIN pq : pq[k] = pq[l] => k = l
      /\ m[c].kind = "batch" /\ m[d].kind = "batch" /\ p[c] # "barred"
      /\ c \in Batch!Calls /\ d \in Batch!Calls
  <2>1. pq \in Seq(Batch!Calls)
    BY DEF QueueOK
  <2> QED BY <2>1 DEF QueueOK
<1>3. Earlier(pq, c, d)
  BY DEF Earlier
<1>4. \A x, y : Earlier(pq, x, y) => ~Earlier(pq, y, x) /\ x # y
  BY <1>2, EarlierOrders
<1>5. InBatch(m, p, d)
  BY <1>2 DEF InBatch
<1>6. p[c] # "pending"
  BY <1>2, <1>3, <1>4, <1>5 DEF QueueOK
<1>7. p[c] = "done" \/ InBatch(m, p, c)
  BY <1>2, <1>6 DEF KindsOK, InBatch
<1> SUFFICES ASSUME InBatch(m, p, c) PROVE p[c] = "ran"
  BY <1>7
<1>8. PICK a \in fl, b \in fl : Within(bs[a].items, c) /\ Within(bs[b].items, d)
  BY <1>1, <1>2, <1>5 DEF BatchesOK
<1>9. PICK x \in DOMAIN bs[a].items, y \in DOMAIN bs[b].items : bs[a].items[x] = c /\ bs[b].items[y] = d
  BY <1>8 DEF Within
<1>10. bs[b].dependencies \cap fl = {} /\ \A k \in Batch!Before(m, bs[b].items, y) : p[bs[b].items[k]] = "ran"
  BY <1>1, <1>9 DEF RunsOK
<1>11. ~Earlier(pq, b, a)
  <2>1. Earlier(pq, b, a) => Earlier(pq, d, c)
    BY <1>1, <1>2, <1>8 DEF BatchesOK
  <2> QED BY <1>3, <1>4, <2>1
<1>12. ~Earlier(pq, a, b)
  <2> SUFFICES ASSUME Earlier(pq, a, b) PROVE FALSE
    OBVIOUS
  <2>1. PICK k : \/ k \in m[c].writes /\ k \in m[d].reads \cup m[d].writes
                 \/ k \in m[d].writes /\ k \in m[c].reads \cup m[c].writes
    BY DEF Conflict, Accesses
  <2>2. /\ m[c].writes \subseteq Batch!Written(m, bs[a].items)
        /\ m[c].reads \subseteq Batch!Written(m, bs[a].items) \cup Batch!ReadOnly(m, bs[a].items)
        /\ m[d].writes \subseteq Batch!Written(m, bs[b].items)
        /\ m[d].reads \subseteq Batch!Written(m, bs[b].items) \cup Batch!ReadOnly(m, bs[b].items)
    <3>1. c \in Batch!Range(bs[a].items) /\ d \in Batch!Range(bs[b].items)
      BY <1>9 DEF Batch!Range
    <3> HIDE DEF c, d
    <3> QED BY <3>1 DEF Batch!Written, Batch!ReadOnly
  <2>3. k \in BatchKeys
    BY <1>2, <2>1, KindsAre
  <2>4. Bound(m, bs[a].items, bs[b].items)
    <3> HIDE DEF c, d
    <3> QED BY <2>1, <2>2, <2>3 DEF Bound
  <2>5. \E e \in bs[b].dependencies \cap fl : TRUE
    BY <1>1, <2>4 DEF ChainOK
  <2> QED BY <1>10, <2>5
<1>13. a = b
  BY <1>1, <1>11, <1>12, BatchesApart
<1> DEFINE seq == bs[b].items
           cs == Batch!CommandsOf(m, seq)
<1>14. /\ seq \in Seq(Batch!Calls) /\ \A k, l \in DOMAIN seq : k < l => Earlier(pq, seq[k], seq[l])
  BY <1>1 DEF BatchesOK
<1>15. x \in 1..(y - 1) /\ y \in 1..Len(seq) /\ Len(seq) \in Nat /\ DOMAIN seq = 1..Len(seq)
  <2>1. x \in 1..Len(seq) /\ y \in 1..Len(seq) /\ Len(seq) \in Nat /\ DOMAIN seq = 1..Len(seq)
    BY <1>9, <1>13, <1>14
  <2>2. x # y
    BY <1>3, <1>4, <1>9, <1>13
  <2>3. ~(y < x)
    BY <1>3, <1>4, <1>9, <1>13, <1>14
  <2> QED BY <2>1, <2>2, <2>3
<1>16. \A k \in 1..Len(seq) : cs[k] = m[seq[k]]
  BY <1>15 DEF Batch!CommandsOf
<1>17. CASE ~Batch!Planned(m, seq)
  <2>1. x \in Batch!Before(m, seq, y)
    BY <1>15, <1>17 DEF Batch!Before
  <2> QED BY <1>9, <1>10, <1>13, <2>1
<1>18. CASE Batch!Planned(m, seq)
  <2> DEFINE Bad == {k \in 1..Len(seq) : /\ p[seq[k]] \in {"running", "ran"}
                                         /\ \E l \in 1..(k - 1) : Conflict(cs[l], cs[k]) /\ p[seq[l]] # "ran"}
  <2>1. Bad = {}
    <3> SUFFICES ASSUME Bad # {} PROVE FALSE
      OBVIOUS
    <3>1. Bad \subseteq Nat
      OBVIOUS
    <3>2. PICK k \in Bad : \A n \in Bad : k <= n
      <4> HIDE DEF Bad
      <4> QED BY <3>1, LeastOf
    <3>3. k \in 1..Len(seq) /\ k \in Nat /\ p[seq[k]] \in {"running", "ran"}
      BY <3>2
    <3>4. PICK l \in 1..(k - 1) : Conflict(cs[l], cs[k]) /\ p[seq[l]] # "ran"
      BY <3>2
    <3>5. PICK n \in FallbackDependencies(cs, k) : n = l \/ (n \in (l + 1)..(k - 1) /\ Conflict(cs[l], cs[n]))
      <4> HIDE DEF cs
      <4> QED BY <3>3, <3>4, PlanChains
    <3>6. n \in Batch!Before(m, seq, k)
      BY <1>18, <3>5, PlansAgree DEF Batch!Before
    <3>7. p[seq[n]] = "ran"
      BY <1>1, <1>15, <3>3, <3>6 DEF RunsOK
    <3>8. n \in (l + 1)..(k - 1) /\ Conflict(cs[l], cs[n])
      BY <3>4, <3>5, <3>7
    <3>9. n \in Bad
      <4>1. n \in 1..Len(seq) /\ l \in 1..(n - 1)
        BY <1>15, <3>3, <3>4, <3>8
      <4> QED BY <3>4, <3>7, <3>8, <4>1
    <3> QED BY <3>2, <3>3, <3>8, <3>9
  <2>2. p[seq[y]] = "running" /\ Conflict(cs[x], cs[y])
    <3>1. x \in 1..Len(seq)
      BY <1>15
    <3>2. cs[x] = m[c] /\ cs[y] = m[d]
      BY <1>9, <1>13, <1>15, <1>16, <3>1
    <3> QED BY <1>9, <1>13, <3>2
  <2>3. y \notin Bad
    BY <2>1
  <2>4. p[seq[x]] = "ran"
    <3> HIDE DEF cs
    <3> QED BY <1>15, <2>2, <2>3
  <2> QED BY <1>9, <1>13, <2>4
<1> QED BY <1>17, <1>18

---------------------------------------------------------------------------
(* AutoBatch: fences and their barriers.                                   *)

QueuesOK == /\ KindsOK(cmd, pc) /\ QueueOK(cmd, pc, pushed, pending)
            /\ FlightOK(cmd, pc, pushed, batches, inFlightBatches, globalBatchTail, batchKeyStates)

IsFence(c) == cmd[c].kind \in {"fence", "block"}

\* A fence or a blocking command that has its barrier up.
Raised(c) == /\ IsFence(c)
             /\ pc[c] \in {"barred", "flushing"} \/ (cmd[c].kind = "fence" /\ pc[c] = "running")

IdleOK == \A c, d \in Batch!Calls : c < d /\ pc[d] # "idle" => pc[c] # "idle"

\* orderingBarrier is the last barrier that is up.
BarrierOK ==
    /\ orderingBarrier \in Batch!Calls \cup {Batch!NoOne}
    /\ orderingBarrier # Batch!NoOne => Raised(orderingBarrier)
    /\ \A c \in Batch!Calls : Raised(c) => c <= orderingBarrier

\* A call behind a barrier that is up awaits the last one before it.
AwaitOK ==
    /\ barrier \in [Batch!Calls -> Batch!Calls \cup {Batch!NoOne}]
    /\ \A c \in Batch!Calls :
        /\ barrier[c] # Batch!NoOne => pc[c] = "barred" /\ barrier[c] < c /\ Raised(barrier[c])
        /\ \A d \in Batch!Calls : Raised(d) /\ d < c =>
               cmd[c].kind = "helper" \/ pc[c] = "idle" \/ (pc[c] = "barred" /\ d <= barrier[c])

\* Those whose barrier was released are resumed in the order of their calls.
MicroOK ==
    /\ microtasks \in Seq(Batch!Calls)
    /\ \A c \in Batch!Calls : Within(microtasks, c) <=> pc[c] = "barred" /\ barrier[c] = Batch!NoOne
    /\ \A i, j \in DOMAIN microtasks : i < j => microtasks[i] < microtasks[j]

\* A fence that has flushed has every call before it in a batch, and waits for it.
FlushedOK ==
    \A c, d \in Batch!Calls : c < d /\ IsFence(d) /\ cmd[c].kind = "batch" =>
        /\ pc[d] = "flushing" => pc[c] = "done" \/ InBatch(cmd, pc, c)
        /\ pc[d] \in {"running", "done"} => pc[c] = "done"

ClosedOK ==
    /\ closed \in BOOLEAN /\ executorClosed \in BOOLEAN
    /\ closed => pending = <<>>
    /\ executorClosed => /\ closed
                         /\ \A c \in Batch!Calls : /\ pc[c] \in {"idle", "barred", "done"}
                                                   /\ pc[c] = "barred" => cmd[c].kind = "batch"

FencesOK == IdleOK /\ BarrierOK /\ AwaitOK /\ MicroOK /\ FlushedOK

BatchInv == QueuesOK /\ FencesOK /\ ClosedOK

LEMMA BatchInit == Batch!Init => BatchInv
<1> SUFFICES ASSUME Batch!Init PROVE BatchInv
  OBVIOUS
<1>1. /\ cmd = [c \in Batch!Calls |-> Batch!NoCommand] /\ pc = [c \in Batch!Calls |-> "idle"]
      /\ barrier = [c \in Batch!Calls |-> Batch!NoOne] /\ microtasks = <<>>
      /\ orderingBarrier = Batch!NoOne /\ pending = <<>> /\ pushed = <<>>
      /\ batches = [b \in Batch!Calls |-> Batch!NoBatch] /\ inFlightBatches = {}
      /\ globalBatchTail = Batch!NoOne /\ batchKeyStates = [k \in BatchKeys |-> Batch!NoAccess]
      /\ closed = FALSE /\ executorClosed = FALSE
  BY DEF Batch!Init
<1>2. \A c \in Batch!Calls : cmd[c].kind = "none" /\ pc[c] = "idle" /\ barrier[c] = Batch!NoOne
  BY <1>1 DEF Batch!NoCommand
<1>3. KindsOK(cmd, pc)
  BY <1>1, <1>2 DEF KindsOK
<1>4. /\ <<>> \in Seq(Batch!Calls) /\ DOMAIN <<>> = {} /\ \A c : ~Within(<<>>, c)
      /\ \A c, d : ~Earlier(<<>>, c, d)
  <2>1. DOMAIN <<>> = {} /\ <<>> \in Seq(Batch!Calls)
    OBVIOUS
  <2> QED BY <2>1 DEF Within, Earlier
<1>5. \A c \in Batch!Calls : ~InBatch(cmd, pc, c)
  BY <1>2 DEF InBatch
<1>6. QueueOK(cmd, pc, pushed, pending)
  <2>1. pushed = <<>> /\ pending = <<>>
    BY <1>1
  <2> QED BY <1>2, <1>4, <1>5, <2>1 DEF QueueOK
<1>7. BatchesOK(cmd, pc, pushed, batches, inFlightBatches)
  <2>1. Batch!NoBatch \in [items : Seq(Batch!Calls), dependencies : SUBSET Batch!Calls]
    BY DEF Batch!NoBatch
  <2>2. batches \in [Batch!Calls -> [items : Seq(Batch!Calls), dependencies : SUBSET Batch!Calls]]
    BY <1>1, <2>1
  <2> QED BY <1>1, <1>5, <2>2 DEF BatchesOK
<1>8. /\ RunsOK(cmd, pc, batches, inFlightBatches) /\ ChainOK(cmd, pushed, batches, inFlightBatches)
      /\ TailOK(cmd, pushed, batches, inFlightBatches, globalBatchTail)
  BY <1>1 DEF RunsOK, ChainOK, TailOK
<1>9. KeysOK(cmd, pushed, batches, inFlightBatches, batchKeyStates)
  <2>1. Batch!NoAccess \in [lastWrite : {Batch!NoOne}, reads : SUBSET {}] /\ Batch!NoAccess.lastWrite = Batch!NoOne
    BY DEF Batch!NoAccess
  <2> QED BY <1>1, <2>1 DEF KeysOK
<1>10. \A c \in Batch!Calls : ~Raised(c) /\ ~IsFence(c)
  BY <1>2 DEF Raised, IsFence
<1>11. BarrierOK /\ AwaitOK /\ IdleOK /\ FlushedOK
  BY <1>1, <1>2, <1>10 DEF BarrierOK, AwaitOK, IdleOK, FlushedOK
<1>12. MicroOK
  <2>1. microtasks = <<>>
    BY <1>1
  <2> QED BY <1>2, <1>4, <2>1 DEF MicroOK
<1>13. ClosedOK
  BY <1>1 DEF ClosedOK
<1> QED BY <1>3, <1>6, <1>7, <1>8, <1>9, <1>11, <1>12, <1>13 DEF BatchInv, QueuesOK, FencesOK, FlightOK

---------------------------------------------------------------------------
(* The queues.                                                             *)

\* flushNow with the queue q, of calls that stand at p, the others at o.
LEMMA Flushes ==
    ASSUME NEW m, NEW p, NEW pq, NEW q, NEW bs, NEW fl, NEW t, NEW ks, NEW o, NEW r,
           KindsOK(m, p), QueueOK(m, p, pq, q), FlightOK(m, p, pq, bs, fl, t, ks),
           \A c \in Batch!Calls : ~Within(q, c) => o[c] = p[c],
           r = [c \in Batch!Calls |-> IF c \in Batch!Range(q) THEN "batched" ELSE o[c]]
    PROVE  r = Batched(p) /\ (q = <<>> => r = p)
<1>1. \A c \in Batch!Calls : (p[c] = "pending" <=> c \in Batch!Range(q)) /\ (c \notin Batch!Range(q) => o[c] = p[c])
  BY DEF QueueOK, Within, Batch!Range
<1>2. r = [c \in Batch!Calls |-> IF p[c] = "pending" THEN "batched" ELSE p[c]]
  BY <1>1
<1>3. ASSUME q = <<>> PROVE r = p
  <2>1. \A c \in Batch!Calls : c \notin Batch!Range(q)
    BY <1>3 DEF Batch!Range
  <2> QED BY <1>1, <1>2, <2>1 DEF KindsOK
<1> QED BY <1>2, <1>3 DEF Batched

\* The effect of flushNow on the queues.
LEMMA FlushesNow ==
    ASSUME QueuesOK, UNCHANGED <<cmd, pushed>>, Batch!FlushNow(cmd, pending, pc)
    PROVE  /\ QueuesOK' /\ pending' = <<>>
           /\ \A c \in Batch!Calls : pc'[c] = IF pc[c] = "pending" THEN "batched" ELSE pc[c]
<1>1. /\ KindsOK(cmd, pc) /\ QueueOK(cmd, pc, pushed, pending)
      /\ FlightOK(cmd, pc, pushed, batches, inFlightBatches, globalBatchTail, batchKeyStates)
  BY DEF QueuesOK
<1>2. pc' = [c \in Batch!Calls |-> IF c \in Batch!Range(pending) THEN "batched" ELSE pc[c]]
  BY DEF Batch!FlushNow
<1>3. pc' = Batched(pc) /\ (pending = <<>> => pc' = pc)
  <2>1. \A c \in Batch!Calls : ~Within(pending, c) => pc[c] = pc[c]
    OBVIOUS
  <2> QED BY <1>1, <1>2, <2>1, Flushes
<1>4. pending' = <<>>
  BY DEF Batch!FlushNow
<1>5. CASE pending = <<>>
  <2>1. UNCHANGED <<batches, inFlightBatches, globalBatchTail, batchKeyStates>>
    BY <1>5 DEF Batch!FlushNow, Batch!keyed
  <2>2. UNCHANGED <<cmd, pc, pushed, pending, batches, inFlightBatches, globalBatchTail, batchKeyStates>>
    BY <1>3, <1>4, <1>5, <2>1
  <2>3. QueuesOK'
    BY <1>1, <2>2 DEF QueuesOK
  <2> QED BY <1>3, <1>4, <2>3 DEF Batched
<1>6. CASE pending # <<>>
  <2>1. /\ batches' = BatchesWith(cmd, pending, batches, inFlightBatches, globalBatchTail, batchKeyStates)
        /\ inFlightBatches' = inFlightBatches \cup {Head(pending)}
        /\ globalBatchTail' = IF Batch!Planned(cmd, pending) THEN globalBatchTail ELSE Head(pending)
        /\ batchKeyStates' = KeysWith(cmd, pending, batchKeyStates)
    BY <1>6 DEF Batch!FlushNow, Batch!keyed, Batch!BatchDependencies, BatchesWith, DependenciesWith, KeysWith
  <2>2. /\ KindsOK(cmd, pc') /\ QueueOK(cmd, pc', pushed, pending')
        /\ FlightOK(cmd, pc', pushed, batches', inFlightBatches', globalBatchTail', batchKeyStates')
    BY <1>1, <1>3, <1>4, <1>6, <2>1, FlushKept
  <2> QED BY <1>3, <1>4, <2>2 DEF QueuesOK, Batched
<1> QED BY <1>5, <1>6

\* The effect of a push on the queues.
LEMMA Pushes ==
    ASSUME QueuesOK, NEW c \in Batch!Calls, pc[c] \in {"idle", "barred"},
           cmd' \in [Batch!Calls -> BatchCommands \cup {Batch!NoCommand}], cmd'[c].kind = "batch",
           \A d \in Batch!Calls : d # c => cmd'[d] = cmd[d],
           pushed' = Append(pushed, c),
           \/ /\ pending' = Append(pending, c) /\ pc' = [pc EXCEPT ![c] = "pending"]
              /\ UNCHANGED <<batches, inFlightBatches, globalBatchTail, batchKeyStates>>
           \/ /\ pending' = <<>>
              /\ pc' = [d \in Batch!Calls |-> IF d \in Batch!Range(Append(pending, c)) THEN "batched" ELSE pc[d]]
              /\ batches' = BatchesWith(cmd', Append(pending, c), batches, inFlightBatches, globalBatchTail,
                                        batchKeyStates)
              /\ inFlightBatches' = inFlightBatches \cup {Head(Append(pending, c))}
              /\ globalBatchTail' = IF Batch!Planned(cmd', Append(pending, c)) THEN globalBatchTail
                                    ELSE Head(Append(pending, c))
              /\ batchKeyStates' = KeysWith(cmd', Append(pending, c), batchKeyStates)
    PROVE  /\ QueuesOK' /\ pc'[c] \in {"pending", "batched"}
           /\ \A d \in Batch!Calls : d # c => pc'[d] = pc[d] \/ (pc[d] = "pending" /\ pc'[d] = "batched")
<1> DEFINE p == [pc EXCEPT ![c] = "pending"]
           pq == Append(pushed, c)
           q == Append(pending, c)
<1>1. /\ KindsOK(cmd, pc) /\ QueueOK(cmd, pc, pushed, pending)
      /\ FlightOK(cmd, pc, pushed, batches, inFlightBatches, globalBatchTail, batchKeyStates)
  BY DEF QueuesOK
<1>2. /\ KindsOK(cmd', p) /\ QueueOK(cmd', p, pq, q)
      /\ FlightOK(cmd', p, pq, batches, inFlightBatches, globalBatchTail, batchKeyStates)
  BY <1>1, PushKept
<1>3. p[c] = "pending" /\ \A d \in Batch!Calls : d # c => p[d] = pc[d]
  BY <1>1 DEF KindsOK
<1>4. q # <<>> /\ Within(q, c)
  <2>1. pending \in Seq(Batch!Calls)
    BY <1>1 DEF QueueOK
  <2>2. Within(q, c)
    BY <2>1, EarlierGrows
  <2> QED BY <2>1, <2>2
<1>5. CASE pending' = q /\ pc' = p /\ UNCHANGED <<batches, inFlightBatches, globalBatchTail, batchKeyStates>>
  <2>1. QueuesOK'
    BY <1>2, <1>5 DEF QueuesOK
  <2> QED BY <1>3, <1>5, <2>1
<1>6. CASE /\ pending' = <<>>
           /\ pc' = [d \in Batch!Calls |-> IF d \in Batch!Range(q) THEN "batched" ELSE pc[d]]
           /\ batches' = BatchesWith(cmd', q, batches, inFlightBatches, globalBatchTail, batchKeyStates)
           /\ inFlightBatches' = inFlightBatches \cup {Head(q)}
           /\ globalBatchTail' = IF Batch!Planned(cmd', q) THEN globalBatchTail ELSE Head(q)
           /\ batchKeyStates' = KeysWith(cmd', q, batchKeyStates)
  <2>1. \A d \in Batch!Calls : ~Within(q, d) => pc[d] = p[d]
    BY <1>3, <1>4
  <2> HIDE DEF p, q, pq
  <2>2. pc' = Batched(p)
    BY <1>2, <1>6, <2>1, Flushes
  <2>3. /\ KindsOK(cmd', pc') /\ QueueOK(cmd', pc', pq, pending')
        /\ FlightOK(cmd', pc', pq, batches', inFlightBatches', globalBatchTail', batchKeyStates')
    <3>1. /\ KindsOK(cmd', Batched(p)) /\ QueueOK(cmd', Batched(p), pq, <<>>)
          /\ FlightOK(cmd', Batched(p), pq,
                      BatchesWith(cmd', q, batches, inFlightBatches, globalBatchTail, batchKeyStates),
                      inFlightBatches \cup {Head(q)},
                      IF Batch!Planned(cmd', q) THEN globalBatchTail ELSE Head(q), KeysWith(cmd', q, batchKeyStates))
      BY ONLY <1>2, <1>4, FlushKept
    <3> QED BY <1>6, <2>2, <3>1
  <2>4. QueuesOK'
    BY <2>3 DEF QueuesOK, pq
  <2>5. \A d \in Batch!Calls : pc'[d] = IF p[d] = "pending" THEN "batched" ELSE p[d]
    BY <2>2 DEF Batched
  <2> QED BY <1>3, <2>4, <2>5
<1> QED BY <1>5, <1>6

\* What moves on without a barrier leaves the fences as they are.
LEMMA FencesKept ==
    ASSUME FencesOK, KindsOK(cmd, pc), KindsOK(cmd, pc'), UNCHANGED <<cmd, barrier, microtasks, orderingBarrier>>,
           \A c \in Batch!Calls :
              \/ pc'[c] = pc[c]
              \/ /\ pc[c] \in {"pending", "batched", "running", "ran"}
                 /\ pc'[c] \in {"batched", "running", "ran", "done"}
                 /\ cmd[c].kind # "fence"
                 /\ InBatch(cmd, pc, c) => InBatch(cmd, pc', c) \/ pc'[c] = "done"
    PROVE  FencesOK'
<1>1. \A c \in Batch!Calls : /\ pc'[c] = "idle" <=> pc[c] = "idle"
                             /\ pc'[c] = "barred" <=> pc[c] = "barred"
                             /\ pc'[c] = "flushing" <=> pc[c] = "flushing"
                             /\ cmd[c].kind = "fence" => pc'[c] = pc[c]
                             /\ pc[c] = "done" => pc'[c] = "done"
                             /\ IsFence(c)' <=> IsFence(c)
  BY DEF IsFence
<1>2. \A c \in Batch!Calls : Raised(c)' <=> Raised(c)
  BY <1>1 DEF Raised, IsFence
<1>3. IdleOK'
  BY <1>1 DEF FencesOK, IdleOK
<1>4. BarrierOK'
  BY <1>2 DEF FencesOK, BarrierOK
<1>5. AwaitOK'
  <2>1. AwaitOK
    BY DEF FencesOK
  <2>2. \A c \in Batch!Calls : barrier[c] # Batch!NoOne => barrier[c] \in Batch!Calls
    BY <2>1 DEF AwaitOK
  <2> QED BY <1>1, <1>2, <2>1, <2>2 DEF AwaitOK
<1>6. MicroOK'
  BY <1>1 DEF FencesOK, MicroOK
<1>7. \A d \in Batch!Calls : IsFence(d) /\ pc'[d] \in {"running", "done"} => pc[d] \in {"running", "done"}
  BY DEF IsFence, KindsOK
<1>8. FlushedOK'
  <2>1. FlushedOK
    BY DEF FencesOK
  <2> SUFFICES ASSUME NEW c \in Batch!Calls, NEW d \in Batch!Calls, c < d, IsFence(d), cmd[c].kind = "batch"
               PROVE  /\ pc'[d] = "flushing" => pc'[c] = "done" \/ InBatch(cmd, pc', c)
                      /\ pc'[d] \in {"running", "done"} => pc'[c] = "done"
    BY <1>1 DEF FlushedOK
  <2>2. CASE pc'[d] = "flushing"
    <3>1. pc[c] = "done" \/ InBatch(cmd, pc, c)
      BY <1>1, <2>1, <2>2 DEF FlushedOK
    <3> QED BY <1>1, <2>2, <3>1 DEF InBatch
  <2>3. CASE pc'[d] \in {"running", "done"}
    <3>1. pc[c] = "done"
      BY <1>7, <2>1, <2>3 DEF FlushedOK
    <3> QED BY <1>1, <2>3, <3>1
  <2>4. CASE pc'[d] \notin {"running", "done", "flushing"}
    BY <2>4
  <2> QED BY <2>2, <2>3, <2>4
<1> QED BY <1>3, <1>4, <1>5, <1>6, <1>8 DEF FencesOK

\* What stays closed.
LEMMA ClosedKept ==
    ASSUME ClosedOK, UNCHANGED <<closed, executorClosed, cmd>>, closed => pending' = <<>>,
           executorClosed => \A c \in Batch!Calls : pc'[c] = pc[c]
    PROVE  ClosedOK'
BY DEF ClosedOK

LEMMA BatchFlushes == BatchInv /\ Batch!ScheduledFlush => BatchInv'
<1> SUFFICES ASSUME BatchInv, Batch!ScheduledFlush PROVE BatchInv'
  OBVIOUS
<1>1. /\ UNCHANGED <<cmd, barrier, microtasks, orderingBarrier, closed, executorClosed, pushed>>
      /\ Batch!FlushNow(cmd, pending, pc)
  BY DEF Batch!ScheduledFlush
<1>2. QueuesOK /\ FencesOK /\ ClosedOK
  BY DEF BatchInv
<1>3. /\ QueuesOK' /\ pending' = <<>>
      /\ \A c \in Batch!Calls : pc'[c] = IF pc[c] = "pending" THEN "batched" ELSE pc[c]
  BY <1>1, <1>2, FlushesNow
<1>4. KindsOK(cmd, pc) /\ KindsOK(cmd, pc')
  BY <1>1, <1>2, <1>3 DEF QueuesOK
<1>5. \A c \in Batch!Calls : pc[c] = "pending" => cmd[c].kind = "batch"
  BY <1>4, KindsAre
<1>6. FencesOK'
  BY <1>1, <1>2, <1>3, <1>4, <1>5, FencesKept DEF InBatch
<1>7. ClosedOK'
  <2>1. executorClosed => \A c \in Batch!Calls : pc[c] # "pending"
    BY <1>2 DEF ClosedOK
  <2> QED BY <1>1, <1>2, <1>3, <2>1, ClosedKept
<1> QED BY <1>3, <1>6, <1>7 DEF BatchInv

\* A batch in flight has a call in it, and the executor is open.
LEMMA FlightIsOpen ==
    ASSUME BatchInv, NEW b \in inFlightBatches
    PROVE  ~executorClosed
<1>1. QueueOK(cmd, pc, pushed, pending) /\ BatchesOK(cmd, pc, pushed, batches, inFlightBatches)
  BY DEF BatchInv, QueuesOK, FlightOK
<1>2. b \in Batch!Calls /\ InBatch(cmd, pc, b)
  BY <1>1, BatchesApart
<1> QED BY <1>2 DEF BatchInv, ClosedOK, InBatch

LEMMA BatchRuns == ASSUME BatchInv, NEW b \in Batch!Calls, Batch!Run(b) \/ Batch!Ran(b) PROVE BatchInv'
<1>1. UNCHANGED <<cmd, barrier, microtasks, orderingBarrier, pending, batches, inFlightBatches, globalBatchTail,
                  batchKeyStates, closed, executorClosed, pushed>>
  BY DEF Batch!Run, Batch!Ran, Batch!keyed
<1>2. QueuesOK /\ FencesOK /\ ClosedOK
  BY DEF BatchInv
<1>3. b \in inFlightBatches
  BY DEF Batch!Run, Batch!Ran, Batch!Dispatched
<1>4. PICK j \in DOMAIN batches[b].items :
         \/ /\ batches[b].dependencies \cap inFlightBatches = {}
            /\ pc[batches[b].items[j]] = "batched"
            /\ \A i \in Batch!Before(cmd, batches[b].items, j) : pc[batches[b].items[i]] = "ran"
            /\ pc' = [pc EXCEPT ![batches[b].items[j]] = "running"]
         \/ /\ pc[batches[b].items[j]] = "running"
            /\ pc' = [pc EXCEPT ![batches[b].items[j]] = "ran"]
  BY DEF Batch!Run, Batch!Ran, Batch!Dispatched, Batch!Range
<1>5. /\ KindsOK(cmd, pc') /\ QueueOK(cmd, pc', pushed, pending)
      /\ FlightOK(cmd, pc', pushed, batches, inFlightBatches, globalBatchTail, batchKeyStates)
  BY <1>2, <1>3, <1>4, RunKept DEF QueuesOK
<1>6. QueuesOK'
  BY <1>1, <1>5 DEF QueuesOK
<1> DEFINE c == batches[b].items[j]
<1>7. c \in Batch!Calls /\ InBatch(cmd, pc, c)
  BY <1>2, <1>3, BatchesApart DEF QueuesOK, FlightOK
<1>8. \A d \in Batch!Calls : d # c => pc'[d] = pc[d]
  BY <1>2, <1>4 DEF QueuesOK, KindsOK
<1>9. pc[c] \in {"batched", "running"} /\ pc'[c] \in {"running", "ran"} /\ cmd[c].kind = "batch"
  BY <1>2, <1>4, <1>7 DEF QueuesOK, KindsOK, InBatch
<1>10. FencesOK'
  <2>1. KindsOK(cmd, pc)
    BY <1>2 DEF QueuesOK
  <2>2. InBatch(cmd, pc', c)
    BY <1>9 DEF InBatch
  <2> HIDE DEF c
  <2> QED BY <1>1, <1>2, <1>5, <1>8, <1>9, <2>1, <2>2, FencesKept
<1>11. ClosedOK'
  <2>1. ~executorClosed
    BY <1>3, FlightIsOpen
  <2>2. closed => pending' = <<>>
    BY <1>1, <1>2 DEF ClosedOK
  <2> QED BY <1>1, <1>2, <2>1, <2>2, ClosedKept
<1> QED BY <1>6, <1>10, <1>11 DEF BatchInv

LEMMA BatchSettles == ASSUME BatchInv, NEW b \in Batch!Calls, Batch!Return(b) \/ Batch!Fail(b) PROVE BatchInv'
<1>1. /\ b \in inFlightBatches /\ batches[b].dependencies \cap inFlightBatches = {} /\ Batch!Settle(b)
  BY DEF Batch!Return, Batch!Fail, Batch!Dispatched
<1>2. UNCHANGED <<cmd, barrier, microtasks, orderingBarrier, pending, closed, executorClosed, pushed>>
  BY <1>1 DEF Batch!Settle
<1>3. QueuesOK /\ FencesOK /\ ClosedOK
  BY DEF BatchInv
<1>4. /\ pc' = Settled(pc, batches[b].items)
      /\ batches' = [batches EXCEPT ![b] = Batch!NoBatch]
      /\ inFlightBatches' = inFlightBatches \ {b}
      /\ globalBatchTail' = IF globalBatchTail = b THEN Batch!NoOne ELSE globalBatchTail
      /\ batchKeyStates' = KeysWithout(batchKeyStates, b)
  <2>1. \A c \in Batch!Calls : c \in Batch!Range(batches[b].items) <=> Within(batches[b].items, c)
    BY DEF Batch!Range, Within
  <2> QED BY <1>1, <2>1 DEF Batch!Settle, Settled, KeysWithout
<1>5. /\ KindsOK(cmd, pc) /\ QueueOK(cmd, pc, pushed, pending)
      /\ FlightOK(cmd, pc, pushed, batches, inFlightBatches, globalBatchTail, batchKeyStates)
  BY <1>3 DEF QueuesOK
<1>6. /\ KindsOK(cmd, pc') /\ QueueOK(cmd, pc', pushed, pending)
      /\ FlightOK(cmd, pc', pushed, batches', inFlightBatches', globalBatchTail', batchKeyStates')
  BY <1>1, <1>4, <1>5, SettleKept
<1>7. QueuesOK'
  BY <1>2, <1>6 DEF QueuesOK
<1>8. \A c \in Batch!Calls : pc'[c] = IF Within(batches[b].items, c) THEN "done" ELSE pc[c]
  BY <1>4 DEF Settled
<1>9. \A c \in Batch!Calls : Within(batches[b].items, c) => InBatch(cmd, pc, c)
  BY <1>1, <1>5 DEF FlightOK, BatchesOK
<1>10. FencesOK'
  BY <1>2, <1>3, <1>5, <1>6, <1>8, <1>9, FencesKept DEF InBatch
<1>11. ClosedOK'
  <2>1. ~executorClosed
    BY <1>1, FlightIsOpen
  <2>2. closed => pending' = <<>>
    BY <1>2, <1>3 DEF ClosedOK
  <2> QED BY <1>2, <1>3, <2>1, <2>2, ClosedKept
<1> QED BY <1>7, <1>10, <1>11 DEF BatchInv

LEMMA BatchCloses == BatchInv /\ (Batch!Close \/ Batch!CloseExecutor) => BatchInv'
<1> SUFFICES ASSUME BatchInv, Batch!Close \/ Batch!CloseExecutor PROVE BatchInv'
  OBVIOUS
<1>1. UNCHANGED <<cmd, barrier, microtasks, orderingBarrier, batches, inFlightBatches, globalBatchTail,
                  batchKeyStates, pushed>>
  BY DEF Batch!Close, Batch!CloseExecutor, Batch!keyed
<1>2. /\ KindsOK(cmd, pc) /\ QueueOK(cmd, pc, pushed, pending)
      /\ FlightOK(cmd, pc, pushed, batches, inFlightBatches, globalBatchTail, batchKeyStates)
      /\ FencesOK /\ ClosedOK
  BY DEF BatchInv, QueuesOK
<1>3. ASSUME Batch!Close
      PROVE  /\ closed' = TRUE /\ pending' = <<>> /\ executorClosed' = executorClosed /\ ~closed
             /\ pc' \in [Batch!Calls -> {"idle", "barred", "pending", "batched", "flushing", "running", "ran", "done"}]
             /\ \A c \in Batch!Calls : pc'[c] = IF pc[c] = "pending" THEN "done" ELSE pc[c]
  <2>1. \A c \in Batch!Calls : c \in Batch!Range(pending) <=> pc[c] = "pending"
    BY <1>2 DEF Batch!Range, QueueOK, Within
  <2>2. pc' = [c \in Batch!Calls |-> IF c \in Batch!Range(pending) THEN "done" ELSE pc[c]]
    BY <1>3 DEF Batch!Close
  <2>3. pc' \in [Batch!Calls -> {"idle", "barred", "pending", "batched", "flushing", "running", "ran", "done"}]
    BY <1>2, <2>2 DEF KindsOK
  <2> QED BY <1>3, <2>1, <2>2, <2>3 DEF Batch!Close
<1>4. ASSUME Batch!CloseExecutor
      PROVE  /\ closed' = closed /\ closed /\ executorClosed' = TRUE /\ pending' = pending
             /\ orderingBarrier = Batch!NoOne /\ inFlightBatches = {}
             /\ \A c \in Batch!Calls : cmd[c].kind = "helper" => pc[c] = "done"
             /\ pc' \in [Batch!Calls -> {"idle", "barred", "pending", "batched", "flushing", "running", "ran", "done"}]
             /\ \A c \in Batch!Calls : pc'[c] = IF cmd[c].kind = "block" /\ pc[c] = "running" THEN "done" ELSE pc[c]
  BY <1>2, <1>4 DEF Batch!CloseExecutor, KindsOK
<1>5. \A c \in Batch!Calls :
         \/ pc'[c] = pc[c]
         \/ pc[c] = "pending" /\ pc'[c] = "done" /\ cmd[c].kind = "batch"
         \/ pc[c] = "running" /\ pc'[c] = "done" /\ cmd[c].kind = "block"
  BY <1>2, <1>3, <1>4, KindsAre
<1>6. KindsOK(cmd, pc')
  <2>1. pc' \in [Batch!Calls -> {"idle", "barred", "pending", "batched", "flushing", "running", "ran", "done"}]
    BY <1>3, <1>4
  <2> QED BY <1>2, <1>5, <2>1 DEF KindsOK
<1>7. /\ QueueOK(cmd, pc', pushed, pending')
      /\ FlightOK(cmd, pc', pushed, batches, inFlightBatches, globalBatchTail, batchKeyStates)
  <2>1. \A c \in Batch!Calls : /\ InBatch(cmd, pc', c) <=> InBatch(cmd, pc, c)
                               /\ InBatch(cmd, pc, c) => cmd[c] = cmd[c] /\ pc'[c] = pc[c]
                               /\ cmd[c].kind = "batch" => cmd[c] = cmd[c]
                               /\ cmd[c].kind = "batch" /\ pc'[c] = "barred" => pc[c] = "barred"
                               /\ pc'[c] = "pending" => pc[c] = "pending"
    BY <1>5 DEF InBatch
  <2>2. \/ pending' = pending /\ \A c \in Batch!Calls : pc[c] = "pending" => pc'[c] = "pending"
        \/ pending' = <<>> /\ \A c \in Batch!Calls : pc'[c] # "pending"
    BY <1>3, <1>4
  <2> QED BY <1>2, <2>1, <2>2, QueueKept
<1>8. QueuesOK'
  BY <1>1, <1>6, <1>7 DEF QueuesOK
<1>9. FencesOK'
  BY <1>1, <1>2, <1>5, <1>6, FencesKept DEF InBatch
<1>10. CASE Batch!Close
  <2>1. ~executorClosed
    BY <1>2, <1>3, <1>10 DEF ClosedOK
  <2>2. ClosedOK'
    BY <1>2, <1>3, <1>10, <2>1 DEF ClosedOK
  <2> QED BY <1>8, <1>9, <2>2 DEF BatchInv
<1>11. CASE Batch!CloseExecutor
  <2>1. \A c \in Batch!Calls : ~Raised(c)
    BY <1>2, <1>4, <1>11, CallsAre DEF FencesOK, BarrierOK
  <2>2. \A c \in Batch!Calls : ~InBatch(cmd, pc, c)
    BY <1>2, <1>4, <1>11 DEF FlightOK, BatchesOK
  <2>3. \A c \in Batch!Calls : pc[c] # "pending"
    <3>1. pending = <<>>
      BY <1>2, <1>4, <1>11 DEF ClosedOK
    <3>2. \A c : ~Within(pending, c)
      BY <3>1 DEF Within
    <3> QED BY <1>2, <3>2 DEF QueueOK
  <2>4. ASSUME NEW c \in Batch!Calls
        PROVE  pc'[c] \in {"idle", "barred", "done"} /\ (pc'[c] = "barred" => cmd[c].kind = "batch")
    <3>1. cmd[c].kind \in {"none", "batch", "fence", "block", "helper"}
      BY <1>2, KindsAre
    <3>2. pc'[c] = IF cmd[c].kind = "block" /\ pc[c] = "running" THEN "done" ELSE pc[c]
      BY <1>4, <1>11
    <3>3. CASE cmd[c].kind \in {"none", "helper"}
      BY <1>2, <1>4, <1>11, <3>2, <3>3 DEF KindsOK
    <3>4. CASE cmd[c].kind = "batch"
      BY <1>2, <2>2, <2>3, <3>2, <3>4 DEF KindsOK, InBatch
    <3>5. CASE cmd[c].kind \in {"fence", "block"}
      BY <1>2, <2>1, <3>2, <3>5 DEF KindsOK, Raised, IsFence
    <3> QED BY <3>1, <3>3, <3>4, <3>5
  <2>5. ClosedOK'
    BY <1>1, <1>2, <1>4, <1>11, <2>4 DEF ClosedOK
  <2> QED BY <1>8, <1>9, <2>5 DEF BatchInv
<1> QED BY <1>10, <1>11

\* What the new state says of one call only.
FenceStep(c) == /\ KindsOK(cmd, pc) /\ KindsOK(cmd', pc') /\ FencesOK
                /\ \A d \in Batch!Calls : d # c => /\ cmd'[d] = cmd[d]
                                                   /\ pc'[d] = pc[d] \/ (pc[d] = "pending" /\ pc'[d] = "batched")

LEMMA OthersKept ==
    ASSUME NEW c \in Batch!Calls, FenceStep(c)
    PROVE  \A d \in Batch!Calls : d # c =>
              /\ cmd'[d] = cmd[d]
              /\ IsFence(d)' <=> IsFence(d)
              /\ Raised(d)' <=> Raised(d)
              /\ pc'[d] = "idle" <=> pc[d] = "idle"
              /\ pc'[d] = "barred" <=> pc[d] = "barred"
              /\ pc'[d] = "flushing" <=> pc[d] = "flushing"
              /\ pc'[d] \in {"running", "done"} <=> pc[d] \in {"running", "done"}
              /\ pc'[d] = "done" <=> pc[d] = "done"
              /\ InBatch(cmd, pc, d) => InBatch(cmd', pc', d)
              /\ IsFence(d) => pc'[d] = pc[d]
<1> SUFFICES ASSUME NEW d \in Batch!Calls, d # c
             PROVE  /\ cmd'[d] = cmd[d]
                    /\ IsFence(d)' <=> IsFence(d)
                    /\ Raised(d)' <=> Raised(d)
                    /\ pc'[d] = "idle" <=> pc[d] = "idle"
                    /\ pc'[d] = "barred" <=> pc[d] = "barred"
                    /\ pc'[d] = "flushing" <=> pc[d] = "flushing"
                    /\ pc'[d] \in {"running", "done"} <=> pc[d] \in {"running", "done"}
                    /\ pc'[d] = "done" <=> pc[d] = "done"
                    /\ InBatch(cmd, pc, d) => InBatch(cmd', pc', d)
                    /\ IsFence(d) => pc'[d] = pc[d]
  OBVIOUS
<1>1. /\ KindsOK(cmd, pc) /\ cmd'[d] = cmd[d]
      /\ pc'[d] = pc[d] \/ (pc[d] = "pending" /\ pc'[d] = "batched")
  BY DEF FenceStep
<1>2. pc[d] = "pending" => cmd[d].kind = "batch"
  BY <1>1, KindsAre
<1> QED BY <1>1, <1>2 DEF IsFence, Raised, InBatch

\* A call is made.
LEMMA FencesCalled ==
    ASSUME NEW c \in Batch!Calls, FenceStep(c),
           pc[c] = "idle", \A d \in Batch!Calls : d < c => pc[d] # "idle",
           \/ /\ cmd'[c].kind = "helper" /\ pc'[c] = "running"
              /\ UNCHANGED <<barrier, microtasks, orderingBarrier>>
           \/ /\ cmd'[c].kind = "batch" /\ pc'[c] \in {"pending", "batched"} /\ orderingBarrier = Batch!NoOne
              /\ UNCHANGED <<barrier, microtasks, orderingBarrier>>
           \/ /\ cmd'[c].kind \in {"fence", "block"} /\ pc'[c] = "barred" /\ orderingBarrier' = c
              /\ barrier' = [barrier EXCEPT ![c] = orderingBarrier]
              /\ microtasks' = IF orderingBarrier = Batch!NoOne THEN Append(microtasks, c) ELSE microtasks
           \/ /\ cmd'[c].kind = "batch" /\ pc'[c] = "barred" /\ orderingBarrier # Batch!NoOne
              /\ barrier' = [barrier EXCEPT ![c] = orderingBarrier]
              /\ UNCHANGED <<microtasks, orderingBarrier>>
    PROVE  FencesOK'
<1>1. IdleOK /\ BarrierOK /\ AwaitOK /\ MicroOK /\ FlushedOK /\ KindsOK(cmd, pc) /\ KindsOK(cmd', pc')
  BY DEF FenceStep, FencesOK
<1>2. /\ \A d \in Batch!Calls : d \in Nat /\ d # 0
      /\ Batch!NoOne = 0 /\ Batch!NoOne \notin Batch!Calls
  BY CallsAre
<1>3. \A d \in Batch!Calls : d < c \/ d = c \/ c < d
  BY <1>2
<1>4. \A d \in Batch!Calls : c < d => pc[d] = "idle"
  BY <1>1 DEF IdleOK
<1>5. \A d \in Batch!Calls : d # c => /\ cmd'[d] = cmd[d]
                                      /\ IsFence(d)' <=> IsFence(d)
                                      /\ Raised(d)' <=> Raised(d)
                                      /\ pc'[d] = "idle" <=> pc[d] = "idle"
                                      /\ pc'[d] = "barred" <=> pc[d] = "barred"
                                      /\ pc'[d] = "flushing" <=> pc[d] = "flushing"
                                      /\ pc'[d] \in {"running", "done"} <=> pc[d] \in {"running", "done"}
                                      /\ pc'[d] = "done" <=> pc[d] = "done"
                                      /\ InBatch(cmd, pc, d) => InBatch(cmd', pc', d)
  BY OthersKept
<1>6. ~Raised(c) /\ \A d \in Batch!Calls : Raised(d) => d < c
  <2>1. \A d \in Batch!Calls : Raised(d) => pc[d] # "idle"
    BY <1>1 DEF Raised, KindsOK
  <2> QED BY <1>3, <1>4, <2>1
<1>7. pc'[c] # "idle" /\ pc'[c] # "flushing"
  OBVIOUS
<1>8. IdleOK'
  BY <1>1, <1>2, <1>3, <1>4, <1>5, <1>7 DEF IdleOK
<1>9. orderingBarrier \in Batch!Calls \cup {Batch!NoOne}
      /\ (orderingBarrier # Batch!NoOne => orderingBarrier < c /\ Raised(orderingBarrier))
      /\ \A d \in Batch!Calls : Raised(d) => d <= orderingBarrier
  BY <1>1, <1>6 DEF BarrierOK
<1>10. Raised(c)' <=> cmd'[c].kind \in {"fence", "block"}
  BY DEF Raised, IsFence
<1>11. BarrierOK'
  <2>1. CASE cmd'[c].kind \in {"fence", "block"}
    <3>1. orderingBarrier' = c
      BY <2>1
    <3>2. \A d \in Batch!Calls : Raised(d)' => d <= c
      BY <1>2, <1>5, <1>6
    <3> QED BY <1>10, <2>1, <3>1, <3>2 DEF BarrierOK
  <2>2. CASE cmd'[c].kind \notin {"fence", "block"}
    <3>1. orderingBarrier' = orderingBarrier
      BY <2>2
    <3> QED BY <1>2, <1>5, <1>6, <1>9, <1>10, <2>2, <3>1 DEF BarrierOK
  <2> QED BY <2>1, <2>2
<1>12. barrier[c] = Batch!NoOne
  BY <1>1 DEF AwaitOK
<1>13. /\ barrier' \in [Batch!Calls -> Batch!Calls \cup {Batch!NoOne}]
       /\ \A d \in Batch!Calls : d # c => barrier'[d] = barrier[d]
       /\ barrier'[c] \in {Batch!NoOne, orderingBarrier}
       /\ pc'[c] = "barred" => barrier'[c] = orderingBarrier
       /\ pc'[c] # "barred" => barrier'[c] = Batch!NoOne
  <2>1. barrier \in [Batch!Calls -> Batch!Calls \cup {Batch!NoOne}]
    BY <1>1 DEF AwaitOK
  <2>2. CASE barrier' = barrier /\ pc'[c] # "barred"
    BY <1>12, <2>1, <2>2
  <2>3. CASE barrier' = [barrier EXCEPT ![c] = orderingBarrier] /\ pc'[c] = "barred"
    BY <1>9, <2>1, <2>3
  <2> QED BY <2>2, <2>3
<1>14. AwaitOK'
  <2>1. ASSUME NEW d \in Batch!Calls, barrier'[d] # Batch!NoOne
        PROVE  pc'[d] = "barred" /\ barrier'[d] < d /\ Raised(barrier[d])' 
    <3>1. CASE d = c
      <4>1. pc'[c] = "barred" /\ barrier'[c] = orderingBarrier /\ orderingBarrier # Batch!NoOne
        BY <1>13, <2>1, <3>1
      <4>2. orderingBarrier < c /\ Raised(orderingBarrier) /\ orderingBarrier \in Batch!Calls /\ orderingBarrier # c
        BY <1>6, <1>9, <4>1
      <4> QED BY <1>5, <3>1, <4>1, <4>2 DEF Raised, IsFence
    <3>2. CASE d # c
      <4>1. barrier'[d] = barrier[d] /\ pc[d] = "barred" /\ barrier[d] < d /\ Raised(barrier[d])
            /\ barrier[d] \in Batch!Calls
        BY <1>1, <1>13, <2>1, <3>2 DEF AwaitOK
      <4>2. barrier[d] # c
        BY <1>6, <4>1
      <4> QED BY <1>5, <3>2, <4>1, <4>2 DEF Raised, IsFence
    <3> QED BY <3>1, <3>2
  <2>2. ASSUME NEW d \in Batch!Calls, NEW x \in Batch!Calls, Raised(d)', d < x
        PROVE  cmd'[x].kind = "helper" \/ pc'[x] = "idle" \/ (pc'[x] = "barred" /\ d <= barrier'[x])
    <3>1. CASE x = c
      <4>1. d # c /\ Raised(d)
        BY <1>2, <1>5, <2>2, <3>1
      <4>2. d <= orderingBarrier /\ orderingBarrier # Batch!NoOne
        BY <1>2, <1>9, <4>1
      <4>3. cmd'[c].kind = "helper" \/ pc'[c] = "barred"
        BY <4>2
      <4> QED BY <1>13, <3>1, <4>2, <4>3
    <3>2. CASE x # c /\ d = c
      BY <1>4, <1>5, <2>2, <3>2
    <3>3. CASE x # c /\ d # c
      <4>1. Raised(d)
        BY <1>5, <2>2, <3>3
      <4>2. cmd[x].kind = "helper" \/ pc[x] = "idle" \/ (pc[x] = "barred" /\ d <= barrier[x])
        BY <1>1, <2>2, <4>1 DEF AwaitOK
      <4> QED BY <1>5, <1>13, <3>3, <4>2
    <3> QED BY <3>1, <3>2, <3>3
  <2> QED BY <1>13, <2>1, <2>2 DEF AwaitOK
<1>15. MicroOK'
  <2>1. /\ microtasks \in Seq(Batch!Calls)
        /\ \A d \in Batch!Calls : Within(microtasks, d) <=> pc[d] = "barred" /\ barrier[d] = Batch!NoOne
        /\ \A i, j \in DOMAIN microtasks : i < j => microtasks[i] < microtasks[j]
    BY <1>1 DEF MicroOK
  <2>2. ~Within(microtasks, c)
    BY <2>1
  <2>3. CASE microtasks' = Append(microtasks, c) /\ pc'[c] = "barred" /\ orderingBarrier = Batch!NoOne
    <3>1. barrier'[c] = Batch!NoOne
      BY <1>13, <2>3
    <3>2. \A d : Within(microtasks', d) <=> Within(microtasks, d) \/ d = c
      BY <2>1, <2>3, EarlierGrows
    <3>3. \A d \in Batch!Calls : Within(microtasks', d) <=> pc'[d] = "barred" /\ barrier'[d] = Batch!NoOne
      BY <1>5, <1>13, <2>1, <2>3, <3>1, <3>2
    <3>4. \A i \in DOMAIN microtasks : microtasks[i] < c
      <4>1. \A i \in DOMAIN microtasks : microtasks[i] \in Batch!Calls /\ Within(microtasks, microtasks[i])
        BY <2>1 DEF Within
      <4> QED BY <1>3, <1>4, <2>1, <2>2, <4>1
    <3>5. \A i, j \in DOMAIN microtasks' : i < j => microtasks'[i] < microtasks'[j]
      BY <2>1, <2>3, <3>4
    <3>6. microtasks' \in Seq(Batch!Calls)
      BY <2>1, <2>3
    <3> QED BY <3>3, <3>5, <3>6 DEF MicroOK
  <2>4. CASE microtasks' = microtasks /\ (pc'[c] # "barred" \/ orderingBarrier # Batch!NoOne)
    <3>1. ~(pc'[c] = "barred" /\ barrier'[c] = Batch!NoOne)
      BY <1>13, <2>4
    <3>2. \A d \in Batch!Calls : Within(microtasks', d) <=> pc'[d] = "barred" /\ barrier'[d] = Batch!NoOne
      BY <1>5, <1>13, <2>1, <2>2, <2>4, <3>1
    <3> QED BY <2>1, <2>4, <3>2 DEF MicroOK
  <2> QED BY <2>3, <2>4
<1>16. FlushedOK'
  <2> SUFFICES ASSUME NEW x \in Batch!Calls, NEW d \in Batch!Calls, x < d, IsFence(d)', cmd'[x].kind = "batch"
               PROVE  /\ pc'[d] = "flushing" => pc'[x] = "done" \/ InBatch(cmd', pc', x)
                      /\ pc'[d] \in {"running", "done"} => pc'[x] = "done"
    BY DEF FlushedOK
  <2>1. CASE d = c
    <3>1. pc'[c] = "barred"
      BY <2>1 DEF IsFence
    <3> QED BY <2>1, <3>1
  <2>2. CASE x = c /\ d # c
    <3>1. pc[d] = "idle"
      BY <1>4, <2>2
    <3> QED BY <1>5, <2>2, <3>1
  <2>3. CASE x # c /\ d # c
    <3>1. /\ pc[d] = "flushing" => pc[x] = "done" \/ InBatch(cmd, pc, x)
          /\ pc[d] \in {"running", "done"} => pc[x] = "done"
      BY <1>1, <1>5, <2>3 DEF FlushedOK
    <3> QED BY <1>5, <2>3, <3>1
  <2> QED BY <2>1, <2>2, <2>3
<1> QED BY <1>8, <1>11, <1>14, <1>15, <1>16 DEF FencesOK

\* No barrier is up before a call that awaits none, and none behind which it waits.
LEMMA HeadIsFirst ==
    ASSUME FencesOK, KindsOK(cmd, pc), NEW f \in Batch!Calls, IsFence(f) \/ pc[f] = "barred",
           pc[f] # "idle", pc[f] = "barred" => barrier[f] = Batch!NoOne
    PROVE  \A d \in Batch!Calls : Raised(d) => ~(d < f)
<1>1. AwaitOK /\ KindsOK(cmd, pc)
  BY DEF FencesOK
<1>2. cmd[f].kind # "helper"
  BY <1>1 DEF KindsOK, IsFence
<1>3. ASSUME NEW d \in Batch!Calls, Raised(d), d < f PROVE FALSE
  <2>1. pc[f] = "barred" /\ d <= barrier[f]
    BY <1>1, <1>2, <1>3 DEF AwaitOK
  <2> QED BY <2>1, CallsAre
<1> QED BY <1>3

\* A call whose await has ended is resumed.
LEMMA FencesResumed ==
    ASSUME microtasks # <<>>, NEW c \in Batch!Calls, c = Head(microtasks), FenceStep(c),
           microtasks' = Tail(microtasks), UNCHANGED <<cmd, barrier, orderingBarrier>>,
           \/ cmd[c].kind = "batch" /\ pc'[c] \in {"done", "pending", "batched"}
           \/ /\ cmd[c].kind # "batch" /\ pc'[c] = "flushing"
              /\ \A d \in Batch!Calls : pc'[d] # "pending"
    PROVE  FencesOK'
<1>1. /\ IdleOK /\ BarrierOK /\ AwaitOK /\ MicroOK /\ FlushedOK /\ KindsOK(cmd, pc) /\ KindsOK(cmd', pc')
      /\ FencesOK
  BY DEF FenceStep, FencesOK
<1>2. /\ \A d \in Batch!Calls : d \in Nat /\ d # 0
      /\ Batch!NoOne = 0 /\ Batch!NoOne \notin Batch!Calls
  BY CallsAre
<1>3. /\ microtasks \in Seq(Batch!Calls)
      /\ \A d \in Batch!Calls : Within(microtasks, d) <=> pc[d] = "barred" /\ barrier[d] = Batch!NoOne
      /\ \A i, j \in DOMAIN microtasks : i < j => microtasks[i] < microtasks[j]
  BY <1>1 DEF MicroOK
<1>4. /\ DOMAIN microtasks = 1..Len(microtasks) /\ Len(microtasks) \in Nat /\ 1 \in DOMAIN microtasks
      /\ microtasks[1] = c
      /\ microtasks' \in Seq(Batch!Calls) /\ DOMAIN microtasks' = 1..(Len(microtasks) - 1)
      /\ \A i \in 1..(Len(microtasks) - 1) : microtasks'[i] = microtasks[i + 1]
  BY <1>3
<1>5. pc[c] = "barred" /\ barrier[c] = Batch!NoOne
  BY <1>3, <1>4 DEF Within
<1>6. \A d \in Batch!Calls : Raised(d) => ~(d < c)
  BY <1>1, <1>5, HeadIsFirst
<1>7. \A d \in Batch!Calls : d # c => /\ IsFence(d)' <=> IsFence(d)
                                      /\ Raised(d)' <=> Raised(d)
                                      /\ pc'[d] = "idle" <=> pc[d] = "idle"
                                      /\ pc'[d] = "barred" <=> pc[d] = "barred"
                                      /\ pc'[d] = "flushing" <=> pc[d] = "flushing"
                                      /\ pc'[d] \in {"running", "done"} <=> pc[d] \in {"running", "done"}
                                      /\ pc'[d] = "done" <=> pc[d] = "done"
                                      /\ InBatch(cmd, pc, d) => InBatch(cmd', pc', d)
  BY OthersKept
<1>8. (Raised(c)' <=> Raised(c)) /\ (IsFence(c)' <=> IsFence(c)) /\ pc'[c] # "barred" /\ pc'[c] # "idle"
  <2>1. cmd'[c] = cmd[c] /\ cmd[c].kind \in {"batch", "fence", "block"}
    BY <1>1, <1>5, KindsAre DEF KindsOK
  <2> QED BY <1>5, <2>1 DEF Raised, IsFence
<1>9. \A d \in Batch!Calls : Raised(d)' <=> Raised(d)
  BY <1>7, <1>8
<1>10. IdleOK'
  BY <1>1, <1>5, <1>7, <1>8 DEF IdleOK
<1>11. BarrierOK'
  BY <1>1, <1>9 DEF BarrierOK
<1>12. AwaitOK'
  <2>1. \A d \in Batch!Calls : barrier[d] # Batch!NoOne => barrier[d] \in Batch!Calls
    BY <1>1 DEF AwaitOK
  <2>2. ASSUME NEW d \in Batch!Calls, barrier[d] # Batch!NoOne
        PROVE  pc'[d] = "barred" /\ barrier[d] < d /\ Raised(barrier[d])'
    <3>1. d # c /\ pc[d] = "barred" /\ barrier[d] < d /\ Raised(barrier[d])
      BY <1>1, <1>5, <2>2 DEF AwaitOK
    <3> QED BY <1>7, <1>9, <2>1, <2>2, <3>1
  <2>3. ASSUME NEW d \in Batch!Calls, NEW x \in Batch!Calls, Raised(d), d < x
        PROVE  cmd[x].kind = "helper" \/ pc'[x] = "idle" \/ (pc'[x] = "barred" /\ d <= barrier[x])
    <3>1. x # c
      BY <1>6, <2>3
    <3>2. cmd[x].kind = "helper" \/ pc[x] = "idle" \/ (pc[x] = "barred" /\ d <= barrier[x])
      BY <1>1, <2>3 DEF AwaitOK
    <3> QED BY <1>7, <3>1, <3>2
  <2>4. barrier \in [Batch!Calls -> Batch!Calls \cup {Batch!NoOne}]
    BY <1>1 DEF AwaitOK
  <2> QED BY <1>9, <2>2, <2>3, <2>4 DEF AwaitOK
<1>13. MicroOK'
  <2>1. ASSUME NEW d \in Batch!Calls PROVE Within(microtasks', d) <=> Within(microtasks, d) /\ d # c
    <3>1. ASSUME Within(microtasks', d) PROVE Within(microtasks, d) /\ d # c
      <4>1. PICK i \in 1..(Len(microtasks) - 1) : microtasks[i + 1] = d
        BY <1>4, <3>1 DEF Within
      <4>2. i + 1 \in DOMAIN microtasks /\ 1 < i + 1
        BY <1>4
      <4>3. c < d
        BY <1>3, <1>4, <4>1, <4>2
      <4> QED BY <1>2, <4>1, <4>2, <4>3 DEF Within
    <3>2. ASSUME Within(microtasks, d), d # c PROVE Within(microtasks', d)
      <4>1. PICK i \in 1..Len(microtasks) : microtasks[i] = d
        BY <1>4, <3>2 DEF Within
      <4>2. i - 1 \in 1..(Len(microtasks) - 1) /\ (i - 1) + 1 = i
        BY <1>4, <3>2, <4>1
      <4>3. microtasks'[i - 1] = d
        BY <1>4, <4>1, <4>2
      <4> QED BY <1>4, <4>2, <4>3 DEF Within
    <3> QED BY <3>1, <3>2
  <2>2. \A d \in Batch!Calls : Within(microtasks', d) <=> pc'[d] = "barred" /\ barrier'[d] = Batch!NoOne
    BY <1>3, <1>7, <1>8, <2>1
  <2>3. \A i, j \in DOMAIN microtasks' : i < j => microtasks'[i] < microtasks'[j]
    BY <1>3, <1>4
  <2> QED BY <1>4, <2>2, <2>3 DEF MicroOK
<1>14. FlushedOK'
  <2> SUFFICES ASSUME NEW x \in Batch!Calls, NEW d \in Batch!Calls, x < d, IsFence(d)', cmd'[x].kind = "batch"
               PROVE  /\ pc'[d] = "flushing" => pc'[x] = "done" \/ InBatch(cmd', pc', x)
                      /\ pc'[d] \in {"running", "done"} => pc'[x] = "done"
    BY DEF FlushedOK
  <2>1. CASE d # c
    <3>1. /\ pc[d] = "flushing" => pc[x] = "done" \/ InBatch(cmd, pc, x)
          /\ pc[d] \in {"running", "done"} => pc[x] = "done"
      BY <1>1, <1>7, <2>1 DEF FlushedOK
    <3>2. pc[x] = "done" \/ InBatch(cmd, pc, x) => x # c
      BY <1>5 DEF InBatch
    <3> QED BY <1>7, <2>1, <3>1, <3>2
  <2>2. CASE d = c
    <3>1. pc'[c] = "flushing" /\ \A y \in Batch!Calls : pc'[y] # "pending"
      BY <2>2 DEF IsFence
    <3>2. x # c
      BY <1>2, <2>2
    <3>3. pc'[x] # "barred"
      <4> SUFFICES ASSUME pc[x] = "barred" PROVE FALSE
        BY <1>7, <3>2
      <4>1. CASE barrier[x] = Batch!NoOne
        <5>1. PICK i \in 1..Len(microtasks) : microtasks[i] = x
          BY <1>3, <1>4, <4>1 DEF Within
        <5>2. 1 < i
          BY <1>4, <3>2, <5>1
        <5>3. c < x
          BY <1>3, <1>4, <5>1, <5>2
        <5> QED BY <1>2, <2>2, <5>3
      <4>2. CASE barrier[x] # Batch!NoOne
        <5>1. barrier[x] \in Batch!Calls /\ barrier[x] < x /\ Raised(barrier[x])
          BY <1>1, <4>2 DEF AwaitOK
        <5>2. barrier[x] < c
          BY <1>2, <2>2, <5>1
        <5> QED BY <1>6, <5>1, <5>2
      <4> QED BY <4>1, <4>2
    <3>4. pc'[x] \in {"batched", "running", "ran", "done"}
      BY <1>1, <3>1, <3>3 DEF KindsOK
    <3> QED BY <2>2, <3>1, <3>4 DEF InBatch
  <2> QED BY <2>1, <2>2
<1> QED BY <1>10, <1>11, <1>12, <1>13, <1>14 DEF FencesOK

\* The calls that await a barrier, in the order they were made.
LEMMA OrderIsOfSet ==
    ASSUME NEW calls, NEW seq \in Batch!InOrder(calls), NEW S, calls \subseteq S, Cardinality(calls) \in Nat
    PROVE  /\ seq \in Seq(S) /\ \A d : Within(seq, d) <=> d \in calls
           /\ \A i, j \in DOMAIN seq : i < j => seq[i] < seq[j]
<1>1. /\ seq \in [1..Cardinality(calls) -> calls]
      /\ \A d \in calls : \E i \in DOMAIN seq : seq[i] = d
      /\ \A i, j \in DOMAIN seq : i < j => seq[i] < seq[j]
  <2>1. Batch!Cardinality(calls) = Cardinality(calls)
    BY DEF Batch!Cardinality, Cardinality
  <2> QED BY <2>1 DEF Batch!InOrder
<1>2. seq \in Seq(S)
  <2>1. seq \in Seq(calls)
    BY <1>1
  <2> QED BY <1>1, <2>1
<1> QED BY <1>1, <1>2 DEF Within

\* Fence f starts, or settles without having its barrier taken down.
LEMMA FencesStart ==
    ASSUME NEW f \in Batch!Calls, FenceStep(f), UNCHANGED <<cmd, barrier, microtasks, orderingBarrier>>,
           IsFence(f), pc[f] = "flushing", pc'[f] = "running", Raised(f)',
           \A x \in Batch!Calls : x < f /\ cmd[x].kind = "batch" => pc[x] = "done"
    PROVE  FencesOK'
<1>1. IdleOK /\ BarrierOK /\ AwaitOK /\ MicroOK /\ FlushedOK /\ KindsOK(cmd, pc) /\ KindsOK(cmd', pc')
  BY DEF FenceStep, FencesOK
<1>2. \A d \in Batch!Calls : /\ IsFence(d)' <=> IsFence(d)
                             /\ Raised(d)' <=> Raised(d)
                             /\ pc'[d] = "idle" <=> pc[d] = "idle"
                             /\ pc'[d] = "barred" <=> pc[d] = "barred"
                             /\ d # f /\ pc'[d] = "flushing" => pc[d] = "flushing"
                             /\ d # f /\ pc'[d] \in {"running", "done"} => pc[d] \in {"running", "done"}
                             /\ d # f /\ pc[d] = "done" => pc'[d] = "done"
                             /\ d # f /\ InBatch(cmd, pc, d) => InBatch(cmd', pc', d)
  <2>1. (IsFence(f)' <=> IsFence(f)) /\ (Raised(f)' <=> Raised(f))
    BY DEF Raised, IsFence
  <2> QED BY <2>1, OthersKept
<1>3. IdleOK' /\ BarrierOK'
  BY <1>1, <1>2 DEF IdleOK, BarrierOK
<1>4. AwaitOK'
  <2>1. \A d \in Batch!Calls : barrier[d] # Batch!NoOne => barrier[d] \in Batch!Calls
    BY <1>1 DEF AwaitOK
  <2> QED BY <1>1, <1>2, <2>1 DEF AwaitOK
<1>5. MicroOK'
  BY <1>1, <1>2 DEF MicroOK
<1>6. FlushedOK'
  <2> SUFFICES ASSUME NEW x \in Batch!Calls, NEW d \in Batch!Calls, x < d, IsFence(d)', cmd'[x].kind = "batch"
               PROVE  /\ pc'[d] = "flushing" => pc'[x] = "done" \/ InBatch(cmd', pc', x)
                      /\ pc'[d] \in {"running", "done"} => pc'[x] = "done"
    BY DEF FlushedOK
  <2>1. x # f /\ cmd[x].kind = "batch"
    BY DEF IsFence
  <2>2. CASE d = f
    BY <1>2, <2>1, <2>2
  <2>3. CASE d # f
    <3>1. /\ pc[d] = "flushing" => pc[x] = "done" \/ InBatch(cmd, pc, x)
          /\ pc[d] \in {"running", "done"} => pc[x] = "done"
      BY <1>1, <1>2, <2>1 DEF FlushedOK
    <3> QED BY <1>2, <2>1, <2>3, <3>1
  <2> QED BY <2>2, <2>3
<1> QED BY <1>3, <1>4, <1>5, <1>6 DEF FencesOK

\* Fence f takes its barrier down.
LEMMA FencesReleased ==
    ASSUME NEW f \in Batch!Calls, FenceStep(f), UNCHANGED cmd, Batch!Release(f),
           Raised(f), pc[f] \in {"flushing", "running"}, pc'[f] \in {"running", "done"}, ~Raised(f)',
           \A x \in Batch!Calls : x < f /\ cmd[x].kind = "batch" => pc[x] = "done"
    PROVE  FencesOK'
<1>1. /\ IdleOK /\ BarrierOK /\ AwaitOK /\ MicroOK /\ FlushedOK /\ KindsOK(cmd, pc) /\ KindsOK(cmd', pc')
      /\ FencesOK
  BY DEF FenceStep, FencesOK
<1>2. /\ \A d \in Batch!Calls : d \in Nat /\ d # 0
      /\ Batch!NoOne = 0 /\ Batch!NoOne \notin Batch!Calls
  BY CallsAre
<1>3. IsFence(f)
  BY DEF Raised
<1>4. \A d \in Batch!Calls : Raised(d) => ~(d < f)
  BY <1>1, <1>3, HeadIsFirst
<1>5. \A d \in Batch!Calls : /\ IsFence(d)' <=> IsFence(d)
                             /\ Raised(d)' <=> Raised(d) /\ d # f
                             /\ pc'[d] = "idle" <=> pc[d] = "idle"
                             /\ pc'[d] = "barred" <=> pc[d] = "barred"
                             /\ d # f /\ pc'[d] = "flushing" => pc[d] = "flushing"
                             /\ d # f /\ pc'[d] \in {"running", "done"} => pc[d] \in {"running", "done"}
                             /\ d # f /\ pc[d] = "done" => pc'[d] = "done"
                             /\ d # f /\ InBatch(cmd, pc, d) => InBatch(cmd', pc', d)
  <2>1. IsFence(f)' <=> IsFence(f)
    BY DEF IsFence
  <2> QED BY <2>1, OthersKept
<1> DEFINE awaiting == {d \in Batch!Calls : pc[d] = "barred" /\ barrier[d] = f}
<1>6. /\ \A d \in Batch!Calls : barrier'[d] = IF d \in awaiting THEN Batch!NoOne ELSE barrier[d]
      /\ barrier' = [d \in Batch!Calls |-> IF d \in awaiting THEN Batch!NoOne ELSE barrier[d]]
      /\ orderingBarrier' = IF orderingBarrier = f THEN Batch!NoOne ELSE orderingBarrier
  BY DEF Batch!Release
<1>7. PICK resumed \in Batch!InOrder(awaiting) : microtasks' = microtasks \o resumed
  BY DEF Batch!Release
<1>8. \A d \in Batch!Calls : barrier[d] # Batch!NoOne =>
           pc[d] = "barred" /\ barrier[d] \in Batch!Calls /\ barrier[d] < d /\ Raised(barrier[d])
  BY <1>1 DEF AwaitOK
<1>9. \A d \in awaiting : d \in Batch!Calls /\ f < d
  BY <1>2, <1>8
<1>10. IdleOK'
  BY <1>1, <1>5 DEF IdleOK
<1>11. BarrierOK'
  <2>1. CASE orderingBarrier = f
    <3>1. orderingBarrier' = Batch!NoOne
      BY <1>6, <2>1
    <3>2. ASSUME NEW d \in Batch!Calls, Raised(d)' PROVE FALSE
      <4>1. Raised(d) /\ d # f /\ d <= f
        BY <1>1, <1>5, <2>1, <3>2 DEF BarrierOK
      <4>2. d < f
        BY <1>2, <4>1
      <4> QED BY <1>4, <4>1, <4>2
    <3> QED BY <3>1, <3>2 DEF BarrierOK
  <2>2. CASE orderingBarrier # f
    <3>1. orderingBarrier' = orderingBarrier
      BY <1>6, <2>2
    <3> QED BY <1>1, <1>5, <2>2, <3>1 DEF BarrierOK
  <2> QED BY <2>1, <2>2
<1>12. barrier' \in [Batch!Calls -> Batch!Calls \cup {Batch!NoOne}]
  <2>1. barrier \in [Batch!Calls -> Batch!Calls \cup {Batch!NoOne}]
    BY <1>1 DEF AwaitOK
  <2> QED BY <1>6, <2>1
<1>13. AwaitOK'
  <2>1. ASSUME NEW d \in Batch!Calls, barrier'[d] # Batch!NoOne
        PROVE  /\ barrier'[d] = barrier[d] /\ pc'[d] = "barred" /\ barrier[d] < d /\ barrier[d] \in Batch!Calls
               /\ Raised(barrier[d])'
    <3>1. barrier'[d] = barrier[d] /\ d \notin awaiting
      BY <1>6, <2>1
    <3>2. pc[d] = "barred" /\ barrier[d] \in Batch!Calls /\ barrier[d] < d /\ Raised(barrier[d]) /\ barrier[d] # f
      BY <1>8, <2>1, <3>1
    <3>4. \A e \in Batch!Calls : Raised(e) /\ e # f => e # f /\ cmd'[e].kind \in {"fence", "block"}
             /\ (pc'[e] \in {"barred", "flushing"} \/ (cmd'[e].kind = "fence" /\ pc'[e] = "running"))
      BY <1>5 DEF Raised, IsFence
    <3>5. Raised(barrier[d])'
      BY <3>1, <3>2, <3>4 DEF Raised, IsFence
    <3> QED BY <1>5, <3>1, <3>2, <3>5
  <2>2. ASSUME NEW d \in Batch!Calls, NEW x \in Batch!Calls, Raised(d)', d < x
        PROVE  cmd'[x].kind = "helper" \/ pc'[x] = "idle" \/ (pc'[x] = "barred" /\ d <= barrier'[x])
    <3>1. Raised(d) /\ d # f /\ ~(d < f)
      BY <1>4, <1>5, <2>2
    <3>2. cmd[x].kind = "helper" \/ pc[x] = "idle" \/ (pc[x] = "barred" /\ d <= barrier[x])
      BY <1>1, <2>2, <3>1 DEF AwaitOK
    <3>3. CASE pc[x] = "barred" /\ d <= barrier[x]
      <4>1. barrier[x] # f
        BY <1>2, <3>1, <3>3
      <4> QED BY <1>5, <1>6, <3>3, <4>1
    <3> QED BY <1>5, <3>2, <3>3
  <2> QED BY <1>12, <2>1, <2>2 DEF AwaitOK
<1>14. MicroOK'
  <2>1. /\ microtasks \in Seq(Batch!Calls)
        /\ \A d \in Batch!Calls : Within(microtasks, d) <=> pc[d] = "barred" /\ barrier[d] = Batch!NoOne
        /\ \A i, j \in DOMAIN microtasks : i < j => microtasks[i] < microtasks[j]
    BY <1>1 DEF MicroOK
  <2>2. Cardinality(awaiting) \in Nat
    <3>1. IsFiniteSet(Batch!Calls)
      BY PartsAssumption, FS_Interval DEF Batch!Calls
    <3>2. IsFiniteSet(awaiting)
      BY <3>1, FS_Subset
    <3> QED BY <3>2, FS_CardinalityType
  <2>3. awaiting \subseteq Batch!Calls
    OBVIOUS
  <2>4. ASSUME NEW i \in DOMAIN microtasks PROVE microtasks[i] \in Batch!Calls /\ microtasks[i] < f
    <3>1. microtasks[i] \in Batch!Calls /\ Within(microtasks, microtasks[i])
      BY <2>1 DEF Within
    <3>2. pc[microtasks[i]] = "barred" /\ barrier[microtasks[i]] = Batch!NoOne
      BY <2>1, <3>1
    <3>3. \A d \in Batch!Calls : Raised(d) => ~(d < microtasks[i])
      BY <1>1, <3>1, <3>2, HeadIsFirst
    <3>4. microtasks[i] # f
      BY <3>2
    <3> QED BY <1>2, <3>1, <3>3, <3>4
  <2> HIDE DEF awaiting
  <2>5. /\ resumed \in Seq(Batch!Calls) /\ \A d : Within(resumed, d) <=> d \in awaiting
        /\ \A i, j \in DOMAIN resumed : i < j => resumed[i] < resumed[j]
    BY <2>2, <2>3, OrderIsOfSet
  <2>6. /\ microtasks' \in Seq(Batch!Calls)
        /\ DOMAIN microtasks' = 1..(Len(microtasks) + Len(resumed))
        /\ Len(microtasks) \in Nat /\ Len(resumed) \in Nat
        /\ DOMAIN microtasks = 1..Len(microtasks) /\ DOMAIN resumed = 1..Len(resumed)
        /\ \A i \in 1..(Len(microtasks) + Len(resumed)) :
              microtasks'[i] = IF i <= Len(microtasks) THEN microtasks[i] ELSE resumed[i - Len(microtasks)]
    BY <1>7, <2>1, <2>5
  <2>7. ASSUME NEW d \in Batch!Calls PROVE Within(microtasks', d) <=> Within(microtasks, d) \/ d \in awaiting
    <3>1. ASSUME Within(microtasks', d) PROVE Within(microtasks, d) \/ Within(resumed, d)
      <4>1. PICK i \in 1..(Len(microtasks) + Len(resumed)) : microtasks'[i] = d
        BY <2>6, <3>1 DEF Within
      <4>2. CASE i <= Len(microtasks)
        BY <2>6, <4>1, <4>2 DEF Within
      <4>3. CASE ~(i <= Len(microtasks))
        <5>1. i - Len(microtasks) \in 1..Len(resumed)
          BY <2>6, <4>3
        <5> QED BY <2>6, <4>1, <4>3, <5>1 DEF Within
      <4> QED BY <4>2, <4>3
    <3>2. ASSUME Within(microtasks, d) PROVE Within(microtasks', d)
      <4>1. PICK i \in 1..Len(microtasks) : microtasks[i] = d
        BY <2>6, <3>2 DEF Within
      <4>2. i \in 1..(Len(microtasks) + Len(resumed)) /\ i <= Len(microtasks)
        BY <2>6
      <4> QED BY <2>6, <4>1, <4>2 DEF Within
    <3>3. ASSUME Within(resumed, d) PROVE Within(microtasks', d)
      <4>1. PICK i \in 1..Len(resumed) : resumed[i] = d
        BY <2>6, <3>3 DEF Within
      <4>2. /\ Len(microtasks) + i \in 1..(Len(microtasks) + Len(resumed)) /\ ~(Len(microtasks) + i <= Len(microtasks))
            /\ (Len(microtasks) + i) - Len(microtasks) = i
        BY <2>6
      <4> QED BY <2>6, <4>1, <4>2 DEF Within
    <3> QED BY <2>5, <3>1, <3>2, <3>3
  <2>8. \A d \in Batch!Calls : Within(microtasks', d) <=> pc'[d] = "barred" /\ barrier'[d] = Batch!NoOne
    BY <1>5, <1>6, <2>1, <2>7 DEF awaiting
  <2>9. ASSUME NEW i \in DOMAIN microtasks', NEW j \in DOMAIN microtasks', i < j
        PROVE  microtasks'[i] < microtasks'[j]
    <3>1. CASE j <= Len(microtasks)
      BY <2>1, <2>6, <2>9, <3>1
    <3>2. CASE ~(i <= Len(microtasks))
      <4>1. /\ i - Len(microtasks) \in 1..Len(resumed) /\ j - Len(microtasks) \in 1..Len(resumed)
            /\ i - Len(microtasks) < j - Len(microtasks) /\ ~(j <= Len(microtasks))
        BY <2>6, <2>9, <3>2
      <4> QED BY <2>5, <2>6, <3>2, <4>1
    <3>3. CASE i <= Len(microtasks) /\ ~(j <= Len(microtasks))
      <4>1. j - Len(microtasks) \in 1..Len(resumed) /\ i \in 1..Len(microtasks)
        BY <2>6, <3>3
      <4>2. microtasks'[i] \in Batch!Calls /\ microtasks'[i] < f
        BY <2>4, <2>6, <3>3, <4>1
      <4>3. microtasks'[j] = resumed[j - Len(microtasks)] /\ Within(resumed, resumed[j - Len(microtasks)])
        BY <2>6, <3>3, <4>1 DEF Within
      <4>4. microtasks'[j] \in Batch!Calls /\ f < microtasks'[j]
        BY <1>9, <2>5, <4>3
      <4> QED BY <1>2, <4>2, <4>4
    <3> QED BY <2>6, <3>1, <3>2, <3>3
  <2> QED BY <2>6, <2>8, <2>9 DEF MicroOK
<1>15. FlushedOK'
  <2> SUFFICES ASSUME NEW x \in Batch!Calls, NEW d \in Batch!Calls, x < d, IsFence(d)', cmd'[x].kind = "batch"
               PROVE  /\ pc'[d] = "flushing" => pc'[x] = "done" \/ InBatch(cmd', pc', x)
                      /\ pc'[d] \in {"running", "done"} => pc'[x] = "done"
    BY DEF FlushedOK
  <2>1. x # f /\ cmd[x].kind = "batch"
    BY <1>3 DEF IsFence
  <2>2. CASE d = f
    BY <1>5, <2>1, <2>2
  <2>3. CASE d # f
    <3>1. /\ pc[d] = "flushing" => pc[x] = "done" \/ InBatch(cmd, pc, x)
          /\ pc[d] \in {"running", "done"} => pc[x] = "done"
      BY <1>1, <1>5, <2>1 DEF FlushedOK
    <3> QED BY <1>5, <2>1, <2>3, <3>1
  <2> QED BY <2>2, <2>3
<1> QED BY <1>10, <1>11, <1>13, <1>14, <1>15 DEF FencesOK

---------------------------------------------------------------------------
(* The actions.                                                            *)

\* A call that is not in the queue or in a batch moves.
LEMMA AsideKept ==
    ASSUME QueuesOK, NEW c \in Batch!Calls,
           UNCHANGED <<pending, batches, inFlightBatches, globalBatchTail, batchKeyStates, pushed>>,
           KindsOK(cmd', pc'), \A d \in Batch!Calls : d # c => cmd'[d] = cmd[d] /\ pc'[d] = pc[d],
           \/ cmd[c].kind = "none" /\ pc'[c] \in {"running", "barred"} /\ (cmd'[c].kind = "batch" => pc'[c] = "barred")
           \/ cmd[c].kind \in {"fence", "block", "helper"} /\ cmd'[c] = cmd[c]
           \/ cmd[c].kind = "batch" /\ cmd'[c] = cmd[c] /\ pc[c] = "barred" /\ pc'[c] = "done"
    PROVE  QueuesOK'
<1>1. /\ KindsOK(cmd, pc) /\ QueueOK(cmd, pc, pushed, pending)
      /\ FlightOK(cmd, pc, pushed, batches, inFlightBatches, globalBatchTail, batchKeyStates)
  BY DEF QueuesOK
<1>2. pc[c] # "pending" /\ pc'[c] # "pending" /\ ~InBatch(cmd, pc, c) /\ ~InBatch(cmd', pc', c)
      /\ (cmd[c].kind = "batch" => cmd'[c] = cmd[c] /\ pc'[c] # "barred")
  BY <1>1 DEF KindsOK, InBatch
<1>3. \A d \in Batch!Calls : /\ InBatch(cmd', pc', d) <=> InBatch(cmd, pc, d)
                             /\ InBatch(cmd, pc, d) => cmd'[d] = cmd[d] /\ pc'[d] = pc[d]
                             /\ cmd[d].kind = "batch" => cmd'[d] = cmd[d]
                             /\ cmd[d].kind = "batch" /\ pc'[d] = "barred" => pc[d] = "barred"
                             /\ pc'[d] = "pending" => pc[d] = "pending"
  BY <1>2 DEF InBatch
<1>4. \A d \in Batch!Calls : pc[d] = "pending" => pc'[d] = "pending"
  BY <1>2
<1>5. /\ QueueOK(cmd', pc', pushed, pending)
      /\ FlightOK(cmd', pc', pushed, batches, inFlightBatches, globalBatchTail, batchKeyStates)
  BY <1>1, <1>3, <1>4, QueueKept
<1> QED BY <1>5 DEF QueuesOK

LEMMA BatchInvokes == ASSUME BatchInv, NEW c \in Batch!Calls, Batch!Invoke(c) PROVE BatchInv'
<1>1. /\ pc[c] = "idle" /\ ~closed
      /\ UNCHANGED <<pending, batches, inFlightBatches, globalBatchTail, batchKeyStates, closed, executorClosed, pushed>>
  BY DEF Batch!Invoke, Batch!keyed
<1>2. \A d \in Batch!Calls : d < c => pc[d] # "idle"
  BY PartsAssumption DEF Batch!Invoke, Batch!Calls
<1>3. QueuesOK /\ FencesOK /\ ClosedOK /\ KindsOK(cmd, pc)
  BY DEF BatchInv, QueuesOK
<1>4. PICK command \in BatchCommands :
        /\ cmd' = [cmd EXCEPT ![c] = command]
        /\ \/ /\ command.kind = "helper"
              /\ pc' = [pc EXCEPT ![c] = "running"]
              /\ UNCHANGED <<barrier, microtasks, orderingBarrier>>
           \/ /\ command.kind \in {"fence", "block"}
              /\ pc' = [pc EXCEPT ![c] = "barred"]
              /\ orderingBarrier' = c
              /\ barrier' = [barrier EXCEPT ![c] = orderingBarrier]
              /\ microtasks' = IF orderingBarrier = Batch!NoOne THEN Append(microtasks, c) ELSE microtasks
           \/ /\ command.kind = "batch" /\ orderingBarrier # Batch!NoOne
              /\ pc' = [pc EXCEPT ![c] = "barred"]
              /\ barrier' = [barrier EXCEPT ![c] = orderingBarrier]
              /\ UNCHANGED <<microtasks, orderingBarrier>>
  BY DEF Batch!Invoke
<1>5. /\ cmd' \in [Batch!Calls -> BatchCommands \cup {Batch!NoCommand}] /\ cmd'[c] = command
      /\ \A d \in Batch!Calls : d # c => cmd'[d] = cmd[d]
  BY <1>3, <1>4 DEF KindsOK
<1>6. /\ pc' \in [Batch!Calls -> {"idle", "barred", "pending", "batched", "flushing", "running", "ran", "done"}]
      /\ \A d \in Batch!Calls : d # c => pc'[d] = pc[d]
      /\ pc'[c] = IF command.kind = "helper" THEN "running" ELSE "barred"
      /\ command.kind \in {"batch", "fence", "block", "helper"}
  BY <1>3, <1>4 DEF KindsOK
<1>7. KindsOK(cmd', pc')
  <2>1. ASSUME NEW d \in Batch!Calls
        PROVE  /\ pc'[d] = "idle" <=> cmd'[d].kind = "none"
               /\ cmd'[d].kind = "batch" => pc'[d] \in {"barred", "pending", "batched", "running", "ran", "done"}
               /\ cmd'[d].kind \in {"fence", "block"} => pc'[d] \in {"barred", "flushing", "running", "done"}
               /\ cmd'[d].kind = "helper" => pc'[d] \in {"running", "done"}
    <3>1. CASE d = c
      BY <1>5, <1>6, <3>1
    <3>2. CASE d # c
      BY <1>3, <1>5, <1>6, <3>2 DEF KindsOK
    <3> QED BY <3>1, <3>2
  <2> QED BY <1>5, <1>6, <2>1 DEF KindsOK
<1>8. QueuesOK'
  <2>1. cmd[c].kind = "none"
    BY <1>1, <1>3 DEF KindsOK
  <2>2. pc'[c] \in {"running", "barred"} /\ (cmd'[c].kind = "batch" => pc'[c] = "barred")
    BY <1>5, <1>6
  <2> QED BY <1>1, <1>3, <1>5, <1>6, <1>7, <2>1, <2>2, AsideKept
<1>9. FencesOK'
  <2>1. FenceStep(c)
    BY <1>3, <1>5, <1>6, <1>7 DEF FenceStep
  <2>2. \/ /\ cmd'[c].kind = "helper" /\ pc'[c] = "running"
           /\ UNCHANGED <<barrier, microtasks, orderingBarrier>>
        \/ /\ cmd'[c].kind \in {"fence", "block"} /\ pc'[c] = "barred" /\ orderingBarrier' = c
           /\ barrier' = [barrier EXCEPT ![c] = orderingBarrier]
           /\ microtasks' = IF orderingBarrier = Batch!NoOne THEN Append(microtasks, c) ELSE microtasks
        \/ /\ cmd'[c].kind = "batch" /\ pc'[c] = "barred" /\ orderingBarrier # Batch!NoOne
           /\ barrier' = [barrier EXCEPT ![c] = orderingBarrier]
           /\ UNCHANGED <<microtasks, orderingBarrier>>
    BY <1>4, <1>5, <1>6
  <2> QED BY <1>1, <1>2, <2>1, <2>2, FencesCalled
<1>10. ClosedOK'
  BY <1>1, <1>3 DEF ClosedOK
<1> QED BY <1>8, <1>9, <1>10 DEF BatchInv

LEMMA PushesNow ==
    ASSUME QueuesOK, NEW c \in Batch!Calls, pc[c] \in {"idle", "barred"}, Batch!Push(cmd', c),
           cmd' \in [Batch!Calls -> BatchCommands \cup {Batch!NoCommand}], cmd'[c].kind = "batch",
           \A d \in Batch!Calls : d # c => cmd'[d] = cmd[d]
    PROVE  /\ QueuesOK' /\ pc'[c] \in {"pending", "batched"}
           /\ \A d \in Batch!Calls : d # c => pc'[d] = pc[d] \/ (pc[d] = "pending" /\ pc'[d] = "batched")
<1>1. pushed' = Append(pushed, c)
  BY DEF Batch!Push
<1>2. pending \in Seq(Batch!Calls)
  BY DEF QueuesOK, QueueOK
<1>3. CASE Len(pending) + 1 >= MaxCommands
  <2> DEFINE q == Append(pending, c)
  <2>1. q # <<>>
    BY <1>2
  <2>2. Batch!FlushNow(cmd', q, pc)
    BY <1>3 DEF Batch!Push
  <2> HIDE DEF q
  <2>3. /\ pending' = <<>>
        /\ pc' = [d \in Batch!Calls |-> IF d \in Batch!Range(q) THEN "batched" ELSE pc[d]]
    BY <2>2 DEF Batch!FlushNow
  <2>4. /\ batches' = BatchesWith(cmd', q, batches, inFlightBatches, globalBatchTail, batchKeyStates)
        /\ inFlightBatches' = inFlightBatches \cup {Head(q)}
        /\ globalBatchTail' = IF Batch!Planned(cmd', q) THEN globalBatchTail ELSE Head(q)
        /\ batchKeyStates' = KeysWith(cmd', q, batchKeyStates)
    BY <2>1, <2>2 DEF Batch!FlushNow, Batch!BatchDependencies, BatchesWith, DependenciesWith, KeysWith
  <2> QED BY <1>1, <2>3, <2>4, Pushes DEF q
<1>4. CASE ~(Len(pending) + 1 >= MaxCommands)
  <2>1. /\ pending' = Append(pending, c) /\ pc' = [pc EXCEPT ![c] = "pending"]
        /\ UNCHANGED <<batches, inFlightBatches, globalBatchTail, batchKeyStates>>
    BY <1>4 DEF Batch!Push, Batch!keyed
  <2> QED BY <1>1, <2>1, Pushes
<1> QED BY <1>3, <1>4

LEMMA BatchPushes == ASSUME BatchInv, NEW c \in Batch!Calls, Batch!InvokeBatched(c) PROVE BatchInv'
<1>1. /\ pc[c] = "idle" /\ ~closed /\ orderingBarrier = Batch!NoOne
      /\ UNCHANGED <<barrier, microtasks, orderingBarrier, closed, executorClosed>>
  BY DEF Batch!InvokeBatched
<1>2. \A d \in Batch!Calls : d < c => pc[d] # "idle"
  BY PartsAssumption DEF Batch!InvokeBatched, Batch!Calls
<1>3. QueuesOK /\ FencesOK /\ ClosedOK /\ KindsOK(cmd, pc)
  BY DEF BatchInv, QueuesOK
<1>4. PICK command \in BatchCommands : /\ command.kind = "batch"
                                       /\ cmd' = [cmd EXCEPT ![c] = command]
                                       /\ Batch!Push([cmd EXCEPT ![c] = command], c)
  BY DEF Batch!InvokeBatched
<1>5. /\ cmd' \in [Batch!Calls -> BatchCommands \cup {Batch!NoCommand}] /\ cmd'[c] = command
      /\ \A d \in Batch!Calls : d # c => cmd'[d] = cmd[d]
  BY <1>3, <1>4 DEF KindsOK
<1>6. Batch!Push(cmd', c)
  BY <1>4
<1>7. /\ QueuesOK' /\ pc'[c] \in {"pending", "batched"}
      /\ \A d \in Batch!Calls : d # c => pc'[d] = pc[d] \/ (pc[d] = "pending" /\ pc'[d] = "batched")
  BY <1>1, <1>3, <1>4, <1>5, <1>6, PushesNow
<1>8. FencesOK'
  <2>1. FenceStep(c)
    BY <1>3, <1>5, <1>7 DEF FenceStep, QueuesOK
  <2>2. cmd'[c].kind = "batch"
    BY <1>4, <1>5
  <2> QED BY <1>1, <1>2, <1>7, <2>1, <2>2, FencesCalled
<1>9. ClosedOK'
  BY <1>1, <1>3 DEF ClosedOK
<1> QED BY <1>7, <1>8, <1>9 DEF BatchInv

LEMMA BatchResumes == BatchInv /\ Batch!Resume => BatchInv'
<1> SUFFICES ASSUME BatchInv, Batch!Resume PROVE BatchInv'
  OBVIOUS
<1> DEFINE c == Head(microtasks)
<1>1. /\ microtasks # <<>> /\ microtasks' = Tail(microtasks)
      /\ UNCHANGED <<cmd, barrier, orderingBarrier, closed, executorClosed>>
  BY DEF Batch!Resume
<1>2. QueuesOK /\ FencesOK /\ ClosedOK /\ KindsOK(cmd, pc)
  BY DEF BatchInv, QueuesOK
<1>3. c \in Batch!Calls /\ pc[c] = "barred"
  <2>1. /\ microtasks \in Seq(Batch!Calls)
        /\ \A d \in Batch!Calls : Within(microtasks, d) => pc[d] = "barred"
    BY <1>2 DEF FencesOK, MicroOK
  <2>2. 1 \in DOMAIN microtasks /\ microtasks[1] = c /\ c \in Batch!Calls
    BY <1>1, <2>1
  <2> QED BY <2>1, <2>2 DEF Within
<1>4. cmd[c].kind \in {"batch", "fence", "block"}
  BY <1>2, <1>3, KindsAre DEF KindsOK
<1>5. \/ /\ cmd[c].kind = "batch" /\ closed /\ pc' = [pc EXCEPT ![c] = "done"]
         /\ UNCHANGED <<pending, batches, inFlightBatches, globalBatchTail, batchKeyStates, pushed>>
      \/ cmd[c].kind = "batch" /\ ~closed /\ Batch!Push(cmd, c)
      \/ /\ cmd[c].kind # "batch" /\ Batch!FlushNow(cmd, pending, [pc EXCEPT ![c] = "flushing"])
         /\ UNCHANGED pushed
  BY DEF Batch!Resume, Batch!keyed
<1>6. executorClosed => closed /\ cmd[c].kind = "batch"
  BY <1>2, <1>3 DEF ClosedOK
<1> DEFINE Moved == \A d \in Batch!Calls : d # c => pc'[d] = pc[d] \/ (pc[d] = "pending" /\ pc'[d] = "batched")
<1> HIDE DEF c
<1>7. ASSUME QueuesOK', Moved,
             \/ cmd[c].kind = "batch" /\ pc'[c] \in {"done", "pending", "batched"}
             \/ /\ cmd[c].kind # "batch" /\ pc'[c] = "flushing"
                /\ \A d \in Batch!Calls : pc'[d] # "pending"
      PROVE  FencesOK'
  <2>1. FenceStep(c)
    BY <1>1, <1>2, <1>7 DEF FenceStep, QueuesOK
  <2> QED BY <1>1, <1>3, <1>7, <2>1, FencesResumed DEF c
<1>8. CASE /\ cmd[c].kind = "batch" /\ closed /\ pc' = [pc EXCEPT ![c] = "done"]
           /\ UNCHANGED <<pending, batches, inFlightBatches, globalBatchTail, batchKeyStates, pushed>>
  <2>1. /\ pc'[c] = "done" /\ \A d \in Batch!Calls : d # c => pc'[d] = pc[d]
        /\ pc' \in [Batch!Calls -> {"idle", "barred", "pending", "batched", "flushing", "running", "ran", "done"}]
    BY <1>2, <1>3, <1>8 DEF KindsOK
  <2>2. KindsOK(cmd, pc')
    <3>1. ASSUME NEW d \in Batch!Calls
          PROVE  /\ pc'[d] = "idle" <=> cmd[d].kind = "none"
                 /\ cmd[d].kind = "batch" => pc'[d] \in {"barred", "pending", "batched", "running", "ran", "done"}
                 /\ cmd[d].kind \in {"fence", "block"} => pc'[d] \in {"barred", "flushing", "running", "done"}
                 /\ cmd[d].kind = "helper" => pc'[d] \in {"running", "done"}
      <4>1. CASE d = c
        BY <1>8, <2>1, <4>1
      <4>2. CASE d # c
        BY <1>2, <2>1, <4>2 DEF KindsOK
      <4> QED BY <4>1, <4>2
    <3> QED BY <1>2, <2>1, <3>1 DEF KindsOK
  <2>3. KindsOK(cmd', pc')
    BY <1>1, <2>2
  <2>4. QueuesOK'
    BY <1>1, <1>2, <1>3, <1>8, <2>1, <2>3, AsideKept
  <2>5. FencesOK'
    BY <1>7, <1>8, <2>1, <2>4
  <2>6. ClosedOK'
    BY <1>1, <1>2, <1>8, <2>1 DEF ClosedOK
  <2> QED BY <2>4, <2>5, <2>6 DEF BatchInv
<1>9. CASE cmd[c].kind = "batch" /\ ~closed /\ Batch!Push(cmd, c)
  <2>1. /\ cmd' \in [Batch!Calls -> BatchCommands \cup {Batch!NoCommand}] /\ cmd'[c].kind = "batch"
        /\ \A d \in Batch!Calls : d # c => cmd'[d] = cmd[d]
        /\ Batch!Push(cmd', c)
    BY <1>1, <1>2, <1>9 DEF KindsOK
  <2>2. QueuesOK' /\ pc'[c] \in {"pending", "batched"} /\ Moved
    BY <1>2, <1>3, <2>1, PushesNow
  <2>3. FencesOK'
    BY <1>7, <1>9, <2>2
  <2>4. ClosedOK'
    BY <1>1, <1>2, <1>9 DEF ClosedOK
  <2> QED BY <2>2, <2>3, <2>4 DEF BatchInv
<1>10. CASE /\ cmd[c].kind # "batch" /\ Batch!FlushNow(cmd, pending, [pc EXCEPT ![c] = "flushing"])
            /\ UNCHANGED pushed
  <2> DEFINE p == [pc EXCEPT ![c] = "flushing"]
  <2>1. /\ p[c] = "flushing" /\ \A d \in Batch!Calls : d # c => p[d] = pc[d]
        /\ p \in [Batch!Calls -> {"idle", "barred", "pending", "batched", "flushing", "running", "ran", "done"}]
    BY <1>2, <1>3 DEF KindsOK
  <2>2. Batch!FlushNow(cmd, pending, p)
    BY <1>10
  <2> HIDE DEF p
  <2>3. KindsOK(cmd, p)
    <3>1. ASSUME NEW d \in Batch!Calls
          PROVE  /\ p[d] = "idle" <=> cmd[d].kind = "none"
                 /\ cmd[d].kind = "batch" => p[d] \in {"barred", "pending", "batched", "running", "ran", "done"}
                 /\ cmd[d].kind \in {"fence", "block"} => p[d] \in {"barred", "flushing", "running", "done"}
                 /\ cmd[d].kind = "helper" => p[d] \in {"running", "done"}
      <4>1. CASE d = c
        BY <1>4, <1>10, <2>1, <4>1
      <4>2. CASE d # c
        BY <1>2, <2>1, <4>2 DEF KindsOK
      <4> QED BY <4>1, <4>2
    <3> QED BY <1>2, <2>1, <3>1 DEF KindsOK
  <2>4. /\ QueueOK(cmd, p, pushed, pending)
        /\ FlightOK(cmd, p, pushed, batches, inFlightBatches, globalBatchTail, batchKeyStates)
    <3>1. /\ QueueOK(cmd, pc, pushed, pending)
          /\ FlightOK(cmd, pc, pushed, batches, inFlightBatches, globalBatchTail, batchKeyStates)
      BY <1>2 DEF QueuesOK
    <3>2. \A d \in Batch!Calls : /\ InBatch(cmd, p, d) <=> InBatch(cmd, pc, d)
                                 /\ InBatch(cmd, pc, d) => cmd[d] = cmd[d] /\ p[d] = pc[d]
                                 /\ cmd[d].kind = "batch" => cmd[d] = cmd[d]
                                 /\ cmd[d].kind = "batch" /\ p[d] = "barred" => pc[d] = "barred"
                                 /\ p[d] = "pending" => pc[d] = "pending"
      BY <1>10, <2>1 DEF InBatch
    <3>3. \A d \in Batch!Calls : pc[d] = "pending" => p[d] = "pending"
      BY <1>3, <2>1
    <3> QED BY <3>1, <3>2, <3>3, QueueKept
  <2>5. pc' = Batched(p) /\ (pending = <<>> => pc' = p) /\ pending' = <<>>
    <3>1. pc' = [d \in Batch!Calls |-> IF d \in Batch!Range(pending) THEN "batched" ELSE p[d]] /\ pending' = <<>>
      BY <2>2 DEF Batch!FlushNow
    <3>2. \A d \in Batch!Calls : ~Within(pending, d) => p[d] = p[d]
      OBVIOUS
    <3> QED BY <2>3, <2>4, <3>1, <3>2, Flushes
  <2>6. QueuesOK'
    <3>1. CASE pending = <<>>
      <4>1. UNCHANGED <<batches, inFlightBatches, globalBatchTail, batchKeyStates>>
        BY <2>2, <3>1 DEF Batch!FlushNow, Batch!keyed
      <4>2. pc' = p /\ UNCHANGED <<cmd, pushed, pending>>
        BY <1>1, <1>10, <2>5, <3>1
      <4> QED BY <2>3, <2>4, <4>1, <4>2 DEF QueuesOK
    <3>2. CASE pending # <<>>
      <4>1. /\ batches' = BatchesWith(cmd, pending, batches, inFlightBatches, globalBatchTail, batchKeyStates)
            /\ inFlightBatches' = inFlightBatches \cup {Head(pending)}
            /\ globalBatchTail' = IF Batch!Planned(cmd, pending) THEN globalBatchTail ELSE Head(pending)
            /\ batchKeyStates' = KeysWith(cmd, pending, batchKeyStates)
        BY <2>2, <3>2 DEF Batch!FlushNow, Batch!BatchDependencies, BatchesWith, DependenciesWith, KeysWith
      <4>2. /\ KindsOK(cmd, Batched(p)) /\ QueueOK(cmd, Batched(p), pushed, <<>>)
            /\ FlightOK(cmd, Batched(p), pushed,
                        BatchesWith(cmd, pending, batches, inFlightBatches, globalBatchTail, batchKeyStates),
                        inFlightBatches \cup {Head(pending)},
                        IF Batch!Planned(cmd, pending) THEN globalBatchTail ELSE Head(pending),
                        KeysWith(cmd, pending, batchKeyStates))
        BY ONLY <2>3, <2>4, <3>2, FlushKept
      <4>3. UNCHANGED <<cmd, pushed>>
        BY <1>1, <1>10
      <4> QED BY <2>5, <4>1, <4>2, <4>3 DEF QueuesOK
    <3> QED BY <3>1, <3>2
  <2>7. \A d \in Batch!Calls : pc'[d] = IF p[d] = "pending" THEN "batched" ELSE p[d]
    BY <2>5 DEF Batched
  <2>8. Moved /\ pc'[c] = "flushing" /\ \A d \in Batch!Calls : pc'[d] # "pending"
    BY <1>3, <2>1, <2>7
  <2>9. FencesOK'
    BY <1>7, <1>10, <2>6, <2>8
  <2>10. ClosedOK'
    BY <1>1, <1>2, <1>6, <1>10, <2>5 DEF ClosedOK
  <2> QED BY <2>6, <2>9, <2>10 DEF BatchInv
<1> QED BY <1>5, <1>8, <1>9, <1>10

\* A fence, a blocking command or a helper goes on, or settles.
LEMMA AsideMoves ==
    ASSUME BatchInv, NEW f \in Batch!Calls, NEW v \in {"running", "done"},
           cmd[f].kind \in {"fence", "block", "helper"}, pc[f] \in {"flushing", "running"},
           pc' = [pc EXCEPT ![f] = v],
           UNCHANGED <<cmd, pending, batches, inFlightBatches, globalBatchTail, batchKeyStates, closed,
                       executorClosed, pushed>>
    PROVE  QueuesOK' /\ FenceStep(f) /\ ClosedOK' /\ pc'[f] = v
<1>1. QueuesOK /\ FencesOK /\ ClosedOK /\ KindsOK(cmd, pc)
  BY DEF BatchInv, QueuesOK
<1>2. /\ pc'[f] = v /\ \A d \in Batch!Calls : d # f => pc'[d] = pc[d]
      /\ pc' \in [Batch!Calls -> {"idle", "barred", "pending", "batched", "flushing", "running", "ran", "done"}]
  BY <1>1 DEF KindsOK
<1>3. KindsOK(cmd', pc')
  <2>1. ASSUME NEW d \in Batch!Calls
        PROVE  /\ pc'[d] = "idle" <=> cmd[d].kind = "none"
               /\ cmd[d].kind = "batch" => pc'[d] \in {"barred", "pending", "batched", "running", "ran", "done"}
               /\ cmd[d].kind \in {"fence", "block"} => pc'[d] \in {"barred", "flushing", "running", "done"}
               /\ cmd[d].kind = "helper" => pc'[d] \in {"running", "done"}
    <3>1. CASE d = f
      BY <1>2, <3>1
    <3>2. CASE d # f
      BY <1>1, <1>2, <3>2 DEF KindsOK
    <3> QED BY <3>1, <3>2
  <2>2. KindsOK(cmd, pc')
    BY <1>1, <1>2, <2>1 DEF KindsOK
  <2> QED BY <2>2
<1>4. QueuesOK'
  BY <1>1, <1>2, <1>3, AsideKept
<1>5. ClosedOK'
  BY <1>1 DEF ClosedOK
<1> QED BY <1>1, <1>2, <1>3, <1>4, <1>5 DEF FenceStep

LEMMA BatchStarts == ASSUME BatchInv, NEW f \in Batch!Calls, Batch!StartFence(f) PROVE BatchInv'
<1>1. /\ pc[f] = "flushing" /\ inFlightBatches = {}
      /\ pc' = [pc EXCEPT ![f] = IF cmd[f].kind = "block" /\ closed THEN "done" ELSE "running"]
      /\ UNCHANGED <<cmd, pending, batches, inFlightBatches, globalBatchTail, batchKeyStates, closed,
                     executorClosed, pushed>>
      /\ cmd[f].kind = "block" => Batch!Release(f)
      /\ cmd[f].kind # "block" => UNCHANGED <<barrier, microtasks, orderingBarrier>>
  BY DEF Batch!StartFence, Batch!keyed
<1>2. QueuesOK /\ FencesOK /\ ClosedOK /\ KindsOK(cmd, pc)
  BY DEF BatchInv, QueuesOK
<1>3. cmd[f].kind \in {"fence", "block"}
  BY <1>1, <1>2, KindsAre DEF KindsOK
<1>4. \A x \in Batch!Calls : x < f /\ cmd[x].kind = "batch" => pc[x] = "done"
  <2>1. \A x \in Batch!Calls : ~InBatch(cmd, pc, x)
    BY <1>1, <1>2 DEF QueuesOK, FlightOK, BatchesOK
  <2> QED BY <1>1, <1>2, <1>3, <2>1 DEF FencesOK, FlushedOK, IsFence
<1> DEFINE v == IF cmd[f].kind = "block" /\ closed THEN "done" ELSE "running"
<1>5. v \in {"running", "done"} /\ pc' = [pc EXCEPT ![f] = v]
  BY <1>1
<1>6. QueuesOK' /\ FenceStep(f) /\ ClosedOK' /\ pc'[f] = v
  <2> HIDE DEF v
  <2> QED BY <1>1, <1>3, <1>5, AsideMoves
<1>7. FencesOK'
  <2>1. CASE cmd[f].kind = "fence"
    <3>1. pc'[f] = "running"
      BY <1>6, <2>1
    <3>2. IsFence(f) /\ Raised(f)'
      BY <1>1, <2>1, <3>1 DEF IsFence, Raised
    <3> QED BY <1>1, <1>4, <1>6, <2>1, <3>1, <3>2, FencesStart
  <2>2. CASE cmd[f].kind = "block"
    <3>1. Raised(f) /\ ~Raised(f)' /\ pc'[f] \in {"running", "done"}
      BY <1>1, <1>5, <1>6, <2>2 DEF IsFence, Raised
    <3> QED BY <1>1, <1>4, <1>6, <2>2, <3>1, FencesReleased
  <2> QED BY <1>3, <2>1, <2>2
<1> QED BY <1>6, <1>7 DEF BatchInv

LEMMA BatchAnswers == ASSUME BatchInv, NEW c \in Batch!Calls, Batch!Answer(c) PROVE BatchInv'
<1>1. /\ pc[c] = "running" /\ cmd[c].kind # "batch" /\ pc' = [pc EXCEPT ![c] = "done"]
      /\ UNCHANGED <<cmd, pending, batches, inFlightBatches, globalBatchTail, batchKeyStates, closed,
                     executorClosed, pushed>>
      /\ cmd[c].kind = "fence" => Batch!Release(c)
      /\ cmd[c].kind # "fence" => UNCHANGED <<barrier, microtasks, orderingBarrier>>
  BY DEF Batch!Answer, Batch!keyed
<1>2. QueuesOK /\ FencesOK /\ ClosedOK /\ KindsOK(cmd, pc)
  BY DEF BatchInv, QueuesOK
<1>3. cmd[c].kind \in {"fence", "block", "helper"}
  BY <1>1, <1>2, KindsAre DEF KindsOK
<1>4. QueuesOK' /\ FenceStep(c) /\ ClosedOK' /\ pc'[c] = "done"
  BY <1>1, <1>3, AsideMoves
<1>5. FencesOK'
  <2>1. CASE cmd[c].kind = "fence"
    <3>1. Raised(c) /\ ~Raised(c)'
      BY <1>1, <1>4, <2>1 DEF IsFence, Raised
    <3>2. \A x \in Batch!Calls : x < c /\ cmd[x].kind = "batch" => pc[x] = "done"
      BY <1>1, <1>2, <2>1 DEF FencesOK, FlushedOK, IsFence
    <3> QED BY <1>1, <1>4, <2>1, <3>1, <3>2, FencesReleased
  <2>2. CASE cmd[c].kind # "fence"
    <3>1. KindsOK(cmd, pc')
      BY <1>1, <1>4 DEF FenceStep
    <3>2. \A d \in Batch!Calls : d # c => pc'[d] = pc[d]
      BY <1>1, <1>2 DEF KindsOK
    <3> QED BY <1>1, <1>2, <1>4, <2>2, <3>1, <3>2, FencesKept
  <2> QED BY <2>1, <2>2
<1> QED BY <1>4, <1>5 DEF BatchInv

LEMMA BatchNextInv == BatchInv /\ Batch!Next => BatchInv'
<1> SUFFICES ASSUME BatchInv, Batch!Next PROVE BatchInv'
  OBVIOUS
<1>1. ASSUME NEW c \in Batch!Calls, Batch!Invoke(c) PROVE BatchInv'
  BY <1>1, BatchInvokes
<1>2. ASSUME NEW c \in Batch!Calls, Batch!InvokeBatched(c) PROVE BatchInv'
  BY <1>2, BatchPushes
<1>3. ASSUME NEW c \in Batch!Calls, Batch!StartFence(c) PROVE BatchInv'
  BY <1>3, BatchStarts
<1>4. ASSUME NEW c \in Batch!Calls, Batch!Answer(c) PROVE BatchInv'
  BY <1>4, BatchAnswers
<1>5. ASSUME NEW b \in Batch!Calls, Batch!Run(b) \/ Batch!Ran(b) PROVE BatchInv'
  BY <1>5, BatchRuns
<1>6. ASSUME NEW b \in Batch!Calls, Batch!Return(b) \/ Batch!Fail(b) PROVE BatchInv'
  BY <1>6, BatchSettles
<1>7. CASE Batch!ScheduledFlush
  BY <1>7, BatchFlushes
<1>8. CASE Batch!Resume
  BY <1>8, BatchResumes
<1>9. CASE Batch!Close \/ Batch!CloseExecutor
  BY <1>9, BatchCloses
<1> QED BY <1>1, <1>2, <1>3, <1>4, <1>5, <1>6, <1>7, <1>8, <1>9 DEF Batch!Next

\* A fence runs after everything called before it; what comes after waits for it.
LEMMA BatchKeepsOrder == BatchInv => Batch!KeyOrder
<1> SUFFICES ASSUME BatchInv PROVE Batch!KeyOrder
  OBVIOUS
<1>1. /\ KindsOK(cmd, pc) /\ QueueOK(cmd, pc, pushed, pending)
      /\ FlightOK(cmd, pc, pushed, batches, inFlightBatches, globalBatchTail, batchKeyStates)
      /\ IdleOK /\ AwaitOK /\ FlushedOK
  BY DEF BatchInv, QueuesOK, FencesOK
<1>2. ASSUME NEW i \in DOMAIN pushed, NEW j \in DOMAIN pushed, i < j,
             Batch!Conflict(cmd[pushed[i]], cmd[pushed[j]]), pc[pushed[j]] = "running"
      PROVE  pc[pushed[i]] \in {"ran", "done"}
  <2>1. Conflict(cmd[pushed[i]], cmd[pushed[j]])
    BY <1>2, PlansAgree
  <2> QED BY <1>1, <1>2, <2>1, BatchesOrdered
<1>3. ASSUME NEW c \in Batch!Calls, NEW d \in Batch!Calls, c < d, pc[d] = "running",
             {cmd[c].kind, cmd[d].kind} \cap {"fence", "block"} # {}, "helper" \notin {cmd[c].kind, cmd[d].kind}
      PROVE  pc[c] = "done" \/ (cmd[c].kind = "block" /\ pc[c] = "running")
  <2>1. pc[c] # "idle"
    BY <1>1, <1>3 DEF IdleOK
  <2>2. cmd[c].kind \in {"batch", "fence", "block"} /\ cmd[d].kind \in {"batch", "fence", "block"}
    BY <1>1, <1>3, <2>1, KindsAre DEF KindsOK
  <2>3. ~Raised(c)
    <3> SUFFICES ASSUME Raised(c) PROVE FALSE
      OBVIOUS
    <3> QED BY <1>1, <1>3 DEF AwaitOK
  <2>4. CASE cmd[c].kind = "batch"
    <3>1. IsFence(d)
      BY <1>3, <2>2, <2>4 DEF IsFence
    <3> QED BY <1>1, <1>3, <2>4, <3>1 DEF FlushedOK
  <2>5. CASE cmd[c].kind \in {"fence", "block"}
    BY <1>1, <2>3, <2>5 DEF Raised, IsFence, KindsOK
  <2> QED BY <2>2, <2>4, <2>5
<1> QED BY <1>2, <1>3 DEF Batch!KeyOrder

LEMMA BatchClosedLast == BatchInv => Batch!ExecutorClosedLast
BY DEF BatchInv, ClosedOK, Batch!ExecutorClosedLast

---------------------------------------------------------------------------
(* NativeBootstrap.  What may be left behind at each await, and what is    *)
(* known of the server there.                                              *)

BootTypeOK ==
    /\ option \in BootOptions
    /\ socket \in {"none", "connecting", "open", "destroyed"}
    /\ dialTimer \in BOOLEAN /\ dialListener \in BOOLEAN /\ onAbort \in BOOLEAN
    /\ aborted \in BOOLEAN /\ adapterClosed \in BOOLEAN /\ draining \in BOOLEAN
    /\ heartbeat \in BOOLEAN /\ granted \in BOOLEAN
    /\ request \in {"none", "STARTUP", "AUTH"} /\ answer \in {"none", "failed", "answered"}
    /\ requestFrameBytes \in Nat /\ negotiatedFrameBytes \in Nat
    /\ phase \in {"dial", "begin", "startup", "auth", "finish", "resolved", "rejected"}
    /\ hello \in Hellos \cup {Boot!Nothing}

\* The dial's timer and listener live as long as the dial; the listener of the bootstrap from
\* the first request to the end.
ListenersOK ==
    /\ dialTimer <=> phase = "dial" /\ socket = "connecting"
    /\ dialListener <=> phase = "dial" /\ socket = "connecting"
    /\ onAbort <=> phase \in {"startup", "auth", "finish"}

\* An awaited request is pending or has its answer; a socket is destroyed with its adapter.
AwaitsOK ==
    /\ phase = "dial" => socket \in {"none", "connecting"}
    /\ phase = "begin" => socket = "open"
    /\ phase \in {"startup", "auth", "finish", "resolved"} =>
           socket = IF adapterClosed THEN "destroyed" ELSE "open"
    /\ phase = "rejected" => socket \in {"none", "destroyed"}
    /\ phase \in {"dial", "begin"} => ~adapterClosed
    /\ phase # "resolved" => ~heartbeat
    /\ phase \in {"startup", "auth"} => (request = "none" <=> answer # "none")
    /\ phase = "startup" => request # "AUTH"
    /\ phase = "auth" => request # "STARTUP"
    /\ phase \notin {"startup", "auth"} => request = "none"

\* What the answers have told, at each step.
ServerOK ==
    /\ phase = "startup" /\ answer = "answered" =>
           hello \in Hellos /\ (granted <=> hello.authRequired = "no")
    /\ phase \in {"auth", "finish", "resolved"} =>
           /\ Boot!Compatible(hello)
           /\ hello.authRequired = "yes" => option.password
    /\ phase = "auth" /\ answer = "answered" => granted
    /\ phase \in {"finish", "resolved"} /\ option.password => granted

FrameLimitsOK ==
    /\ ~granted \/ phase \in {"dial", "begin", "startup"} => requestFrameBytes <= Unauthenticated
    /\ requestFrameBytes <= negotiatedFrameBytes /\ negotiatedFrameBytes <= option.frameBytes

BootInv == BootTypeOK /\ ListenersOK /\ AwaitsOK /\ ServerOK /\ FrameLimitsOK

LEMMA Negotiates ==
    ASSUME BootTypeOK, NEW h \in Hellos
    PROVE  /\ Boot!NegotiatedBy(h) \in Nat
           /\ negotiatedFrameBytes <= option.frameBytes => Boot!NegotiatedBy(h) <= option.frameBytes
<1> DEFINE levels == {k \in DOMAIN h.limits : h.limits[k] # 0}
<1>1. h.limits \in Seq(Nat)
  BY PartsAssumption
<1>2. levels \subseteq Nat
  BY <1>1
<1>3. CASE levels = {}
  <2>1. Boot!FrameBytesOf(h) = 0
    BY <1>3 DEF Boot!FrameBytesOf
  <2> QED BY <2>1 DEF Boot!NegotiatedBy, BootTypeOK
<1>4. CASE levels # {}
  <2> DEFINE k == CHOOSE i \in levels : \A l \in levels : i <= l
  <2>1. k \in levels
    <3>1. levels \subseteq Nat /\ levels # {}
      BY <1>2, <1>4
    <3> HIDE DEF levels
    <3>2. \E i \in levels : \A l \in levels : i <= l
      BY <3>1, LeastOf
    <3> QED BY <3>2
  <2>2. Boot!FrameBytesOf(h) = h.limits[k]
    BY <1>4 DEF Boot!FrameBytesOf
  <2> HIDE DEF k
  <2>3. h.limits[k] \in Nat
    BY <1>1, <2>1
  <2>4. option.frameBytes \in Nat /\ negotiatedFrameBytes \in Nat
    BY PartsAssumption DEF BootTypeOK
  <2> QED BY <2>2, <2>3, <2>4 DEF Boot!NegotiatedBy, Boot!LesserOf
<1> QED BY <1>3, <1>4

LEMMA BootInit == Boot!Init => BootInv
<1> SUFFICES ASSUME Boot!Init PROVE BootInv
  OBVIOUS
<1> USE DEF Boot!Init
<1>1. option.frameBytes \in Nat /\ Unauthenticated \in Nat
  BY PartsAssumption
<1>2. BootTypeOK
  BY <1>1 DEF BootTypeOK, Boot!LesserOf
<1>3. FrameLimitsOK
  BY <1>1 DEF FrameLimitsOK, Boot!LesserOf
<1> QED BY <1>2, <1>3 DEF BootInv, ListenersOK, AwaitsOK, ServerOK

LEMMA BootDials == BootInv /\ (Boot!Dial \/ Boot!Connected \/ Boot!DialFails) => BootInv'
<1> SUFFICES ASSUME BootInv, Boot!Dial \/ Boot!Connected \/ Boot!DialFails PROVE BootInv'
  OBVIOUS
<1>1. BootTypeOK /\ ListenersOK /\ AwaitsOK /\ ServerOK /\ FrameLimitsOK
  BY DEF BootInv
<1>2. CASE Boot!Dial
  <2> USE DEF Boot!Dial, Boot!Cleanup, Boot!dial, Boot!frameLimits
  <2>1. BootTypeOK'
    BY <1>1, <1>2 DEF BootTypeOK
  <2>2. ListenersOK' /\ AwaitsOK'
    BY <1>1, <1>2 DEF BootTypeOK, ListenersOK, AwaitsOK
  <2>3. ServerOK' /\ FrameLimitsOK'
    BY <1>1, <1>2 DEF BootTypeOK, AwaitsOK, ServerOK, FrameLimitsOK, Boot!Compatible
  <2> QED BY <2>1, <2>2, <2>3 DEF BootInv
<1>3. CASE Boot!Connected
  <2> USE DEF Boot!Connected, Boot!Cleanup, Boot!dial, Boot!frameLimits
  <2>1. BootTypeOK'
    BY <1>1, <1>3 DEF BootTypeOK
  <2>2. ListenersOK' /\ AwaitsOK'
    BY <1>1, <1>3 DEF BootTypeOK, ListenersOK, AwaitsOK
  <2>3. ServerOK' /\ FrameLimitsOK'
    BY <1>1, <1>3 DEF BootTypeOK, AwaitsOK, ServerOK, FrameLimitsOK, Boot!Compatible
  <2> QED BY <2>1, <2>2, <2>3 DEF BootInv
<1>4. CASE Boot!DialFails
  <2> USE DEF Boot!DialFails, Boot!Cleanup, Boot!dial, Boot!frameLimits
  <2>1. BootTypeOK'
    BY <1>1, <1>4 DEF BootTypeOK
  <2>2. ListenersOK' /\ AwaitsOK'
    BY <1>1, <1>4 DEF BootTypeOK, ListenersOK, AwaitsOK
  <2>3. ServerOK' /\ FrameLimitsOK'
    BY <1>1, <1>4 DEF BootTypeOK, AwaitsOK, ServerOK, FrameLimitsOK, Boot!Compatible
  <2> QED BY <2>1, <2>2, <2>3 DEF BootInv
<1> QED BY <1>2, <1>3, <1>4

LEMMA BootAnswer == BootInv /\ (Boot!Answer \/ Boot!TimesOut) => BootInv'
<1> SUFFICES ASSUME BootInv, Boot!Answer \/ Boot!TimesOut PROVE BootInv'
  OBVIOUS
<1>1. UNCHANGED <<option, dialTimer, dialListener, onAbort, aborted, phase, requestFrameBytes, negotiatedFrameBytes>>
  BY DEF Boot!Answer, Boot!TimesOut, Boot!dial, Boot!frameLimits
<1>2. phase \in {"startup", "auth"}
  BY DEF BootInv, BootTypeOK, AwaitsOK, Boot!Answer, Boot!TimesOut
<1>3. request # "none" /\ request' = "none" /\ answer' \in {"failed", "answered"}
  BY DEF Boot!Answer, Boot!TimesOut
<1>4. /\ socket' = IF adapterClosed' THEN "destroyed" ELSE "open"
      /\ ~heartbeat' /\ heartbeat' \in BOOLEAN /\ draining' \in BOOLEAN /\ adapterClosed' \in BOOLEAN
  <2>1. CASE Boot!Answer /\ ~draining /\ UNCHANGED <<socket, adapterClosed, draining, heartbeat>>
    BY <2>1, <1>2 DEF BootInv, BootTypeOK, AwaitsOK
  <2>2. CASE draining' \in {draining, TRUE} /\ adapterClosed' = TRUE /\ socket' = "destroyed" /\ heartbeat' = FALSE
    BY <2>2 DEF BootInv, BootTypeOK
  <2>3. CASE Boot!TimesOut
    <3>1. UNCHANGED <<socket, adapterClosed, draining, heartbeat>>
      BY <2>3 DEF Boot!TimesOut
    <3> QED BY <3>1, <1>2 DEF BootInv, BootTypeOK, AwaitsOK
  <2> QED BY <2>1, <2>2, <2>3 DEF Boot!Answer
<1>5. \/ answer' = "failed" /\ UNCHANGED <<hello, granted>>
      \/ answer' = "answered" /\ request = "STARTUP" /\ \E h \in Hellos : hello' = h /\ granted' = (h.authRequired = "no")
      \/ answer' = "answered" /\ request # "STARTUP" /\ granted' = TRUE /\ UNCHANGED hello
  BY DEF Boot!Answer, Boot!TimesOut
<1>6. BootTypeOK'
  BY <1>1, <1>3, <1>4, <1>5 DEF BootInv, BootTypeOK
<1>7. ListenersOK'
  BY <1>1, <1>2 DEF BootInv, ListenersOK
<1>8. AwaitsOK'
  BY <1>1, <1>2, <1>3, <1>4 DEF AwaitsOK
<1>9. ServerOK'
  BY <1>1, <1>2, <1>3, <1>5 DEF BootInv, BootTypeOK, AwaitsOK, ServerOK, Boot!Compatible
<1>10. FrameLimitsOK'
  BY <1>1, <1>2, <1>3, <1>5 DEF BootInv, BootTypeOK, AwaitsOK, FrameLimitsOK
<1> QED BY <1>6, <1>7, <1>8, <1>9, <1>10 DEF BootInv

LEMMA BootFailAll ==
    ASSUME BootInv, Boot!FailAll
    PROVE  /\ adapterClosed' = TRUE /\ socket' = "destroyed" /\ request' = "none" /\ draining' = draining
           /\ answer' = IF request # "none" THEN "failed" ELSE answer
           /\ heartbeat' \in BOOLEAN /\ (heartbeat' => phase = "resolved")
BY DEF BootInv, BootTypeOK, AwaitsOK, Boot!FailAll

LEMMA BootLost == BootInv /\ (Boot!Lost \/ Boot!GoAway) => BootInv'
<1> SUFFICES ASSUME BootInv, Boot!Lost \/ Boot!GoAway PROVE BootInv'
  OBVIOUS
<1>1. UNCHANGED <<option, dialTimer, dialListener, onAbort, aborted, phase, requestFrameBytes,
                  negotiatedFrameBytes, hello, granted>>
  BY DEF Boot!Lost, Boot!GoAway, Boot!dial, Boot!frameLimits
<1>2. ListenersOK'
  <2>1. phase # "dial"
    BY DEF Boot!Lost, Boot!GoAway, Boot!Ended
  <2> QED BY <1>1, <2>1 DEF BootInv, ListenersOK
<1>3. FrameLimitsOK'
  BY <1>1 DEF BootInv, FrameLimitsOK
<1>4. CASE Boot!Lost
  <2>1. phase \in {"startup", "auth", "resolved", "rejected"} /\ socket = "open" /\ answer = "none" /\ Boot!FailAll
    BY <1>4 DEF Boot!Lost, Boot!Ended
  <2>2. /\ adapterClosed' = TRUE /\ socket' = "destroyed" /\ request' = "none" /\ draining' = draining
        /\ answer' = IF request # "none" THEN "failed" ELSE answer
        /\ heartbeat' \in BOOLEAN /\ (heartbeat' => phase = "resolved")
    BY <2>1, BootFailAll
  <2>3. BootTypeOK'
    BY <1>1, <2>1, <2>2 DEF BootInv, BootTypeOK
  <2>4. AwaitsOK'
    BY <1>1, <2>1, <2>2 DEF BootInv, AwaitsOK
  <2>5. ServerOK'
    BY <1>1, <2>1, <2>2 DEF BootInv, BootTypeOK, AwaitsOK, ServerOK, Boot!Compatible
  <2> QED BY <1>2, <1>3, <2>3, <2>4, <2>5 DEF BootInv
<1>5. CASE Boot!GoAway
  <2>1. draining' = TRUE /\ UNCHANGED <<socket, request, adapterClosed, heartbeat, answer>>
    BY <1>5 DEF Boot!GoAway
  <2> QED BY <1>1, <1>2, <1>3, <2>1 DEF BootInv, BootTypeOK, AwaitsOK, ServerOK, Boot!Compatible
<1> QED BY <1>4, <1>5

LEMMA BootAborts == BootInv /\ Boot!Abort => BootInv'
<1> SUFFICES ASSUME BootInv, Boot!Abort PROVE BootInv'
  OBVIOUS
<1>1. aborted' = TRUE /\ UNCHANGED <<option, onAbort, requestFrameBytes, negotiatedFrameBytes, hello, granted>>
  BY DEF Boot!Abort, Boot!frameLimits
<1>2. CASE dialListener
  <2>1. /\ ~dialTimer' /\ ~dialListener' /\ dialTimer' \in BOOLEAN /\ dialListener' \in BOOLEAN
        /\ socket' = "destroyed" /\ phase' = "rejected"
        /\ UNCHANGED <<request, answer, adapterClosed, draining, heartbeat>>
    BY <1>2 DEF Boot!Abort, Boot!Cleanup, BootInv, ListenersOK
  <2> QED BY <1>1, <1>2, <2>1 DEF BootInv, BootTypeOK, ListenersOK, AwaitsOK, ServerOK, FrameLimitsOK
<1>3. CASE ~dialListener /\ onAbort
  <2>1. UNCHANGED <<dialTimer, dialListener, phase>> /\ Boot!FailAll
    BY <1>3 DEF Boot!Abort, Boot!dial
  <2>2. /\ adapterClosed' = TRUE /\ socket' = "destroyed" /\ request' = "none" /\ draining' = draining
        /\ answer' = IF request # "none" THEN "failed" ELSE answer
        /\ heartbeat' \in BOOLEAN /\ (heartbeat' => phase = "resolved")
    BY <2>1, BootFailAll
  <2>3. BootTypeOK'
    BY <1>1, <2>1, <2>2 DEF BootInv, BootTypeOK
  <2>4. phase \in {"startup", "auth", "finish"}
    BY <1>3 DEF BootInv, ListenersOK
  <2>5. AwaitsOK'
    BY <1>1, <2>1, <2>2, <2>4 DEF BootInv, AwaitsOK
  <2>6. ServerOK'
    BY <1>1, <2>1, <2>2, <2>4 DEF BootInv, BootTypeOK, AwaitsOK, ServerOK, Boot!Compatible
  <2>7. ListenersOK'
    BY <1>1, <2>1, <2>4 DEF BootInv, ListenersOK
  <2> QED BY <1>1, <2>1, <2>3, <2>5, <2>6, <2>7 DEF BootInv, FrameLimitsOK
<1>4. CASE ~dialListener /\ ~onAbort
  <2>1. UNCHANGED <<dialTimer, dialListener, phase, socket, request, adapterClosed, draining, heartbeat, answer>>
    BY <1>4 DEF Boot!Abort, Boot!dial, Boot!connection
  <2> QED BY <1>1, <2>1 DEF BootInv, BootTypeOK, ListenersOK, AwaitsOK, ServerOK, FrameLimitsOK, Boot!Compatible
<1> QED BY <1>2, <1>3, <1>4

LEMMA BootFails ==
    BootInv /\ Boot!Fail /\ phase \in {"begin", "startup", "auth", "finish"} => BootInv'
<1> SUFFICES ASSUME BootInv, Boot!Fail, phase \in {"begin", "startup", "auth", "finish"}
             PROVE  BootInv'
  OBVIOUS
<1> USE DEF Boot!Fail, Boot!FailAll, Boot!dial, Boot!frameLimits
<1>1. BootTypeOK'
  BY DEF BootInv, BootTypeOK
<1>2. ListenersOK' /\ AwaitsOK'
  BY DEF BootInv, BootTypeOK, ListenersOK, AwaitsOK
<1>3. ServerOK' /\ FrameLimitsOK'
  BY DEF BootInv, BootTypeOK, ServerOK, FrameLimitsOK
<1> QED BY <1>1, <1>2, <1>3 DEF BootInv

LEMMA BootBegins == BootInv /\ Boot!Begin => BootInv'
<1> SUFFICES ASSUME BootInv, Boot!Begin, ~Boot!Fail PROVE BootInv'
  BY BootFails DEF Boot!Begin
<1> USE DEF Boot!Begin, Boot!Request, Boot!dial, Boot!frameLimits
<1>1. BootTypeOK'
  BY DEF BootInv, BootTypeOK
<1>2. ListenersOK' /\ AwaitsOK'
  BY DEF BootInv, BootTypeOK, ListenersOK, AwaitsOK
<1>3. ServerOK' /\ FrameLimitsOK'
  BY DEF BootInv, BootTypeOK, AwaitsOK, ServerOK, FrameLimitsOK
<1> QED BY <1>1, <1>2, <1>3 DEF BootInv

LEMMA BootStarts == BootInv /\ Boot!StartupEnds => BootInv'
<1> SUFFICES ASSUME BootInv, Boot!StartupEnds, ~Boot!Fail PROVE BootInv'
  BY BootFails DEF Boot!StartupEnds
<1> USE DEF Boot!StartupEnds, Boot!Request, Boot!dial, Boot!frameLimits
<1>1. hello \in Hellos /\ (granted <=> hello.authRequired = "no")
  BY DEF BootInv, ServerOK
<1>2. /\ Boot!NegotiatedBy(hello) \in Nat
      /\ Boot!NegotiatedBy(hello) <= option.frameBytes
  BY <1>1, Negotiates DEF BootInv, FrameLimitsOK
<1>3. BootTypeOK'
  BY <1>2 DEF BootInv, BootTypeOK, Boot!Apply, Boot!LesserOf
<1>4. /\ phase = "startup" /\ phase' \in {"auth", "finish"}
      /\ UNCHANGED <<socket, adapterClosed, heartbeat, dialTimer, dialListener, onAbort>>
      /\ phase' = "auth" => request' \in {"none", "AUTH"} /\ (request' = "none" <=> answer' # "none")
      /\ phase' = "finish" => request' = request
  OBVIOUS
<1>7. ListenersOK'
  BY <1>4 DEF BootInv, ListenersOK
<1>8. AwaitsOK'
  BY <1>4 DEF BootInv, AwaitsOK
<1>5. ServerOK'
  BY DEF BootInv, BootTypeOK, AwaitsOK, ServerOK, Boot!Compatible
<1>6. FrameLimitsOK'
  BY <1>1, <1>2, PartsAssumption DEF BootInv, BootTypeOK, FrameLimitsOK, Boot!Apply, Boot!LesserOf
<1> QED BY <1>3, <1>5, <1>6, <1>7, <1>8 DEF BootInv

LEMMA BootAuthenticates == BootInv /\ Boot!AuthEnds => BootInv'
<1> SUFFICES ASSUME BootInv, Boot!AuthEnds, ~Boot!Fail PROVE BootInv'
  BY BootFails DEF Boot!AuthEnds
<1> USE DEF Boot!AuthEnds, Boot!dial, Boot!connection
<1>1. BootTypeOK'
  BY DEF BootInv, BootTypeOK
<1>2. /\ phase = "auth" /\ phase' = "finish" /\ answer # "none"
      /\ UNCHANGED <<socket, adapterClosed, heartbeat, request, dialTimer, dialListener, onAbort>>
  OBVIOUS
<1>5. ListenersOK'
  BY <1>2 DEF BootInv, ListenersOK
<1>6. AwaitsOK'
  BY <1>2 DEF BootInv, AwaitsOK
<1>3. ServerOK'
  BY DEF BootInv, BootTypeOK, AwaitsOK, ServerOK, Boot!Compatible
<1>4. FrameLimitsOK'
  BY DEF BootInv, BootTypeOK, ServerOK, FrameLimitsOK
<1> QED BY <1>1, <1>3, <1>4, <1>5, <1>6 DEF BootInv

LEMMA BootFinishes == BootInv /\ Boot!Finish => BootInv'
<1> SUFFICES ASSUME BootInv, Boot!Finish, ~Boot!Fail PROVE BootInv'
  BY BootFails DEF Boot!Finish
<1> USE DEF Boot!Finish, Boot!dial, Boot!frameLimits
<1>1. BootTypeOK'
  BY DEF BootInv, BootTypeOK
<1>2. ListenersOK' /\ AwaitsOK'
  BY DEF BootInv, BootTypeOK, ListenersOK, AwaitsOK
<1>3. ServerOK' /\ FrameLimitsOK'
  BY DEF BootInv, BootTypeOK, AwaitsOK, ServerOK, FrameLimitsOK, Boot!Compatible
<1> QED BY <1>1, <1>2, <1>3 DEF BootInv

LEMMA BootNextInv == BootInv /\ Boot!Next => BootInv'
BY BootDials, BootAnswer, BootLost, BootAborts, BootBegins, BootStarts, BootAuthenticates, BootFinishes
   DEF Boot!Next, Boot!Bootstrap, Boot!Connection

LEMMA BootIsClean == BootInv => Boot!CleanBootstrap
<1> SUFFICES ASSUME BootInv PROVE Boot!CleanBootstrap
  OBVIOUS
<1>1. phase = "rejected" => /\ socket \in {"none", "destroyed"} /\ request = "none"
                            /\ ~dialTimer /\ ~dialListener /\ ~onAbort /\ ~heartbeat
  BY DEF BootInv, BootTypeOK, ListenersOK, AwaitsOK
<1>2. phase = "resolved" => /\ Boot!Compatible(hello) /\ ~dialTimer /\ ~dialListener /\ ~onAbort
                            /\ hello.authRequired = "yes" => granted
                            /\ socket = "destroyed" => adapterClosed
  BY DEF BootInv, BootTypeOK, ListenersOK, AwaitsOK, ServerOK
<1> QED BY <1>1, <1>2 DEF BootInv, FrameLimitsOK, Boot!CleanBootstrap

---------------------------------------------------------------------------
(* NativePipeline.                                                         *)

PipeStates == {"idle", "waiting", "queued", "sent", "ok", "error", "lost"}
PipeOutcomes == [kind : {"pending", "resolved", "undefined", "rejected"},
                 disposition : {"none", "unsent", "possibly_sent", "answered"}, index : Nat]

Length == Len(called.commands)

PipeTypeOK ==
    /\ called \in Pipelines
    /\ stage \in {"next", "frame", "individually"}
    /\ state \in [1..Length -> PipeStates]
    /\ sends \in [1..Length -> 0..1]
    /\ slots \in Seq(1..Length)
    /\ results \in Seq({"ok", "error"})
    /\ rejected \subseteq {k \in 1..Len(results) : results[k] = "error"}
    /\ outcome \in PipeOutcomes

\* Chunks are consecutive runs of the commands, from behind the results to the end.
Tiled(chs, base, n) ==
    /\ chs \in Seq([items : Seq(1..n), collects : BOOLEAN])
    /\ chs = <<>> <=> base = n
    /\ \A k \in DOMAIN chs : /\ chs[k].items # <<>>
                             /\ \A m \in DOMAIN chs[k].items : chs[k].items[m] = chs[k].items[1] + m - 1
    /\ chs # <<>> => /\ chs[1].items[1] = base + 1
                     /\ chs[Len(chs)].items[1] + Len(chs[Len(chs)].items) = n + 1
    /\ \A k \in DOMAIN chs : k > 1 => chs[k].items[1] = chs[k - 1].items[1] + Len(chs[k - 1].items)

\* One of several chunks collects the errors of its items; a fused pipeline has one chunk, or
\* is not executed.
CollectsOK ==
    /\ \A k \in DOMAIN chunks : ~chunks[k].collects => results = <<>> /\ Len(chunks) = 1
    /\ called.fused /\ chunks # <<>> =>
          /\ results = <<>>
          /\ stage # "next" \/ Length <= called.maxCommands => Len(chunks) = 1

\* What is executed is the first chunk; before it are results, behind it nothing has begun.
PlacesOK ==
    /\ Len(results) <= Length
    /\ \A i \in 1..Len(results) : state[i] = results[i]
    /\ stage # "next" => chunks # <<>>
    /\ \A i \in (Len(results) + 1)..Length : stage = "next" \/ i \notin Pipe!Items => state[i] = "idle"
    /\ \A i \in 1..Length : state[i] \in {"idle", "waiting", "queued"} => sends[i] = 0
    /\ stage = "frame" => (\A i \in Pipe!Items : state[i] = "queued") \/ (\A i \in Pipe!Items : state[i] = "sent")
    /\ \A i \in 1..Length : state[i] # "lost"

\* Those that wait for a slot.
WaitersOK ==
    /\ \A i \in 1..Length : state[i] = "waiting" <=> \E k \in DOMAIN slots : slots[k] = i
    /\ \A k, l \in DOMAIN slots : slots[k] = slots[l] => k = l

\* A command that has started comes after those it depends on.
OrderOK ==
    stage = "individually" =>
        /\ Pipe!Ordered => slots = <<>>
        /\ \A i, j \in 1..Length : i < j /\ (Pipe!Ordered \/ <<i, j>> \in called.dependencies) /\ state[j] # "idle"
                                      => state[i] \in Pipe!Settled

UnderWayOK == Tiled(chunks, Len(results), Length) /\ CollectsOK /\ PlacesOK /\ WaitersOK /\ OrderOK

EndedOK ==
    /\ \A i \in 1..Length : state[i] \notin {"waiting", "queued", "sent"}
    /\ outcome = Pipe!Resolved =>
          /\ results = [i \in 1..Length |-> state[i]]
          /\ \A i \in rejected : state[i] = "error"
          /\ called.throws => \A i \in 1..Length : state[i] = "ok"
    /\ outcome.index # 0 =>
          /\ state[outcome.index] # "ok" /\ \A i \in 1..(outcome.index - 1) : state[i] = "ok"
          /\ \A i \in 1..Length : state[i] \in Pipe!Settled
    /\ outcome = Pipe!NotAttempted => \A i \in 1..Length : sends[i] = 0

PipeInv == /\ PipeTypeOK
           /\ outcome = Pipe!Pending => UnderWayOK
           /\ outcome # Pipe!Pending => EndedOK

---------------------------------------------------------------------------
LEMMA SequenceIs ==
    ASSUME NEW S, NEW q \in Seq(S)
    PROVE  /\ Len(q) \in Nat /\ DOMAIN q = 1..Len(q) /\ \A i \in 1..Len(q) : q[i] \in S
           /\ q # <<>> <=> Len(q) > 0
OBVIOUS

LEMMA SequenceOf ==
    ASSUME NEW S, NEW n \in Nat, NEW q \in [1..n -> S]
    PROVE  q \in Seq(S) /\ Len(q) = n
OBVIOUS

LEMMA ConcatIs ==
    ASSUME NEW S, NEW p \in Seq(S), NEW q \in Seq(S)
    PROVE  /\ p \o q \in Seq(S) /\ Len(p \o q) = Len(p) + Len(q)
           /\ \A i \in 1..Len(p) : (p \o q)[i] = p[i]
           /\ \A i \in 1..Len(q) : (p \o q)[Len(p) + i] = q[i]
OBVIOUS

LEMMA PipelineIs ==
    ASSUME called \in Pipelines
    PROVE  /\ called.commands \in Seq([kind : STRING, bytes : Nat]) /\ called.commands # <<>>
           /\ Length \in Nat \ {0} /\ Pipe!Indices = 1..Length
           /\ called.ordered \in BOOLEAN /\ called.throws \in BOOLEAN /\ called.fused \in BOOLEAN
           /\ called.maxCommands \in Nat /\ called.maxBytes \in Nat /\ called.concurrency \in Nat \ {0}
<1>1. called \in [commands : Seq([kind : STRING, bytes : Nat]) \ {<<>>}, ordered : BOOLEAN,
                  dependencies : SUBSET (Nat \X Nat), concurrency : Nat \ {0},
                  throws : BOOLEAN, maxCommands : Nat, maxBytes : Nat, fused : BOOLEAN]
  BY PartsAssumption DEF PartsAssumption
<1>2. called.commands \in Seq([kind : STRING, bytes : Nat]) /\ called.commands # <<>>
  BY <1>1
<1> DEFINE S == [kind : STRING, bytes : Nat]
<1>3. \A q \in Seq(S) : q # <<>> => Len(q) \in Nat \ {0} /\ DOMAIN q = 1..Len(q)
  <2> HIDE DEF S
  <2> QED OBVIOUS
<1> QED BY <1>1, <1>2, <1>3 DEF Length, Pipe!Indices

\* The number of chunks of a size.
LEMMA ChunkCount ==
    ASSUME NEW n \in Nat \ {0}, NEW size \in 1..n
    PROVE  LET count == (n + size - 1) \div size IN
           /\ count \in Nat \ {0}
           /\ count * size >= n /\ (count - 1) * size < n
           /\ n = size => count = 1
<1> DEFINE count == (n + size - 1) \div size
           a == n + size - 1
<1>1. a \in Nat /\ size \in Nat \ {0} /\ a >= size
  OBVIOUS
<1>2. count \in Int /\ size * count <= a /\ a < size * count + size
  <2> HIDE DEF a
  <2> SUFFICES a \div size \in Int /\ size * (a \div size) <= a /\ a < size * (a \div size) + size
    BY DEF a
  <2> QED BY <1>1, Z3
<1>3. count >= 1
  <2> SUFFICES ASSUME count <= 0 PROVE FALSE
    BY <1>2
  <2>1. size * count <= 0
    BY <1>1, <1>2
  <2> QED BY <1>1, <1>2, <2>1
<1>4. count * size = size * count /\ (count - 1) * size = size * count - size
  BY <1>1, <1>2
<1>5. ASSUME n = size PROVE count = 1
  <2> SUFFICES ASSUME count >= 2 PROVE FALSE
    BY <1>2, <1>3
  <2>1. size * count >= size * 2
    BY <1>1, <1>2
  <2> QED BY <1>1, <1>2, <1>5, <2>1
<1> HIDE DEF count, a
<1>6. size * count >= n /\ size * count - size < n
  BY <1>1, <1>2 DEF a
<1> QED BY <1>2, <1>3, <1>4, <1>5, <1>6 DEF count

LEMMA ChunksTile ==
    ASSUME called \in Pipelines, NEW chs, chs = Pipe!ChunksOf(called)
    PROVE  /\ Tiled(chs, 0, Length)
           /\ \A k \in DOMAIN chs : ~chs[k].collects => Len(chs) = 1
           /\ Length <= called.maxCommands => Len(chs) = 1
<1> DEFINE n == Length
           limit == called.maxCommands
           size == IF called.maxCommands = 0 \/ n <= called.maxCommands THEN n ELSE called.maxCommands
           count == (n + size - 1) \div size
           First(k) == (k - 1) * size + 1
           Last(k) == IF k * size < n THEN k * size ELSE n
<1>1. n \in Nat \ {0} /\ called.maxCommands \in Nat
  BY PipelineIs
<1>2. size \in 1..n
  BY <1>1
<1>3. chs = [k \in 1..count |-> [items |-> Pipe!FromTo(First(k), Last(k)), collects |-> n > size]]
  BY DEF Pipe!ChunksOf, Length
<1> HIDE DEF n, size
<1>4. /\ count \in Nat \ {0} /\ count * size >= n /\ (count - 1) * size < n
      /\ n = size => count = 1
  BY <1>1, <1>2, ChunkCount
<1> HIDE DEF count
<1>5. ASSUME NEW k \in 1..count
      PROVE  /\ First(k) \in 1..n /\ Last(k) \in First(k)..n
             /\ k < count => Last(k) + 1 = First(k + 1)
             /\ k = count => Last(k) = n
  <2>1. (k - 1) * size \in Nat /\ k * size = (k - 1) * size + size /\ k * size \in Nat
    <3>1. k \in Nat /\ k - 1 \in Nat /\ size \in Nat /\ k = (k - 1) + 1
      BY <1>1, <1>2
    <3> QED BY <3>1
  <2>2. (k - 1) * size <= (count - 1) * size
    <3>1. k - 1 <= count - 1 /\ k - 1 \in Nat /\ count - 1 \in Nat /\ size \in Nat
      BY <1>1, <1>2, <1>4
    <3>2. PICK d \in Nat : count - 1 = (k - 1) + d
      <4>1. (count - 1) - (k - 1) \in Nat /\ count - 1 = (k - 1) + ((count - 1) - (k - 1))
        BY <3>1
      <4> QED BY <4>1
    <3>3. (count - 1) * size = (k - 1) * size + d * size /\ d * size \in Nat
      BY <3>1, <3>2
    <3> QED BY <2>1, <3>3
  <2>3. k < count => k * size < n
    <3> SUFFICES ASSUME k < count PROVE k * size < n
      OBVIOUS
    <3>1. k <= count - 1 /\ k \in Nat /\ count - 1 \in Nat /\ size \in Nat
      BY <1>1, <1>2, <1>4
    <3>2. PICK d \in Nat : count - 1 = k + d
      <4>1. (count - 1) - k \in Nat /\ count - 1 = k + ((count - 1) - k)
        BY <3>1
      <4> QED BY <4>1
    <3>3. (count - 1) * size = k * size + d * size /\ d * size \in Nat
      BY <3>1, <3>2
    <3> QED BY <2>1, <3>3, <1>4, <1>1
  <2>4. (k + 1) - 1 = k
    OBVIOUS
  <2>5. k = count => k * size >= n
    BY <1>4
  <2>6. count - 1 \in Nat /\ size \in Nat
    BY <1>1, <1>2, <1>4
  <2>7. (count - 1) * size \in Int
    BY <2>6
  <2>8. (k - 1) * size < n
    BY <1>1, <1>4, <2>1, <2>2, <2>7
  <2>9. k < count => Last(k) = k * size /\ First(k + 1) = k * size + 1
    BY <2>3, <2>4
  <2>10. k = count => Last(k) = n
    BY <1>1, <2>1, <2>5
  <2>11. First(k) \in 1..n /\ Last(k) \in First(k)..n
    BY <1>1, <1>2, <2>1, <2>6, <2>8
  <2> HIDE DEF First, Last
  <2> QED BY <2>9, <2>10, <2>11, <2>1
<1>6. ASSUME NEW k \in 1..count
      PROVE  LET items == Pipe!FromTo(First(k), Last(k)) IN
             /\ items \in Seq(1..n) /\ Len(items) = Last(k) - First(k) + 1 /\ items # <<>>
             /\ \A m \in DOMAIN items : items[m] = items[1] + m - 1
             /\ items[1] = First(k)
  <2> DEFINE a == First(k)
             b == Last(k)
             items == Pipe!FromTo(a, b)
  <2>1. a \in 1..n /\ b \in a..n
    BY <1>5
  <2> HIDE DEF a, b
  <2>2. items = [m \in 1..(b - a + 1) |-> a + m - 1]
    BY DEF Pipe!FromTo
  <2>3. b - a + 1 \in Nat /\ b - a + 1 >= 1
    BY <1>1, <2>1
  <2>4. \A m \in 1..(b - a + 1) : a + m - 1 \in 1..n
    BY <1>1, <2>1
  <2>5. items \in Seq(1..n) /\ Len(items) = b - a + 1
    <3>1. items \in [1..(b - a + 1) -> 1..n]
      BY <2>2, <2>4
    <3> HIDE DEF items
    <3> QED BY <2>3, <3>1, SequenceOf
  <2>6. DOMAIN items = 1..(b - a + 1) /\ 1 \in DOMAIN items /\ items[1] = a
    BY <2>1, <2>2, <2>3, <1>1
  <2>7. items # <<>>
    BY <2>3, <2>5
  <2>8. \A m \in DOMAIN items : items[m] = items[1] + m - 1
    BY <2>2, <2>6
  <2> HIDE DEF items
  <2> QED BY <2>5, <2>6, <2>7, <2>8 DEF a, b, items
<1>7. /\ chs \in Seq([items : Seq(1..n), collects : BOOLEAN]) /\ Len(chs) = count /\ DOMAIN chs = 1..count
      /\ \A k \in 1..count : chs[k].items = Pipe!FromTo(First(k), Last(k)) /\ chs[k].collects = (n > size)
  <2> DEFINE Shape == [items : Seq(1..n), collects : BOOLEAN]
  <2>1. \A k \in 1..count : [items |-> Pipe!FromTo(First(k), Last(k)), collects |-> n > size] \in Shape
    BY <1>6
  <2> HIDE DEF First, Last
  <2>2. DOMAIN chs = 1..count
    BY <1>3
  <2>3. \A k \in 1..count : chs[k].items = Pipe!FromTo(First(k), Last(k)) /\ chs[k].collects = (n > size)
    BY <1>3
  <2>4. chs \in [1..count -> Shape]
    <3> HIDE DEF Shape
    <3> QED BY <1>3, <2>1
  <2>5. chs \in Seq(Shape) /\ Len(chs) = count
    <3> HIDE DEF Shape
    <3> QED BY <2>4, <1>4, SequenceOf
  <2> QED BY <2>2, <2>3, <2>5
<1> HIDE DEF First, Last
<1>8. chs # <<>> /\ 1 \in 1..count /\ count \in 1..count /\ n # 0
  BY <1>1, <1>4, <1>7
<1>9. First(1) = 1 /\ \A k \in 1..count : First(k) \in Int /\ Last(k) \in Int
  <2>1. First(1) = 1
    BY <1>2 DEF First
  <2> QED BY <2>1, <1>5, <1>1
<1>10. Tiled(chs, 0, n)
  <2>1. chs[1].items[1] = 0 + 1
    BY <1>6, <1>7, <1>8, <1>9
  <2>2. chs[Len(chs)].items[1] + Len(chs[Len(chs)].items) = n + 1
    <3>1. /\ chs[count].items[1] = First(count) /\ Len(chs[count].items) = Last(count) - First(count) + 1
          /\ Last(count) = n
      BY <1>5, <1>6, <1>7, <1>8
    <3> QED BY <3>1, <1>7, <1>8, <1>9
  <2>3. ASSUME NEW k \in DOMAIN chs, k > 1 PROVE chs[k].items[1] = chs[k - 1].items[1] + Len(chs[k - 1].items)
    <3>1. k \in 1..count /\ k - 1 \in 1..count /\ k - 1 < count /\ (k - 1) + 1 = k
      BY <2>3, <1>4, <1>7
    <3>2. /\ chs[k].items[1] = First(k) /\ chs[k - 1].items[1] = First(k - 1)
          /\ Len(chs[k - 1].items) = Last(k - 1) - First(k - 1) + 1
      BY <1>6, <1>7, <3>1
    <3>3. Last(k - 1) + 1 = First(k)
      BY <1>5, <3>1
    <3> QED BY <3>1, <3>2, <3>3, <1>9
  <2> QED BY <1>6, <1>7, <1>8, <2>1, <2>2, <2>3 DEF Tiled
<1>11. n <= size => Len(chs) = 1
  BY <1>1, <1>2, <1>4, <1>7
<1>12. n <= called.maxCommands => n = size
  BY DEF size
<1>13. \A k \in DOMAIN chs : ~chs[k].collects => n <= size
  <2> SUFFICES ASSUME NEW k \in DOMAIN chs, ~chs[k].collects PROVE n <= size
    OBVIOUS
  <2>1. ~(n > size)
    BY <1>7
  <2> QED BY <1>1, <1>2, <2>1
<1> QED BY <1>1, <1>10, <1>11, <1>12, <1>13 DEF n

LEMMA PipeInitInv == Pipe!Init => PipeInv
<1> SUFFICES ASSUME Pipe!Init PROVE PipeInv
  OBVIOUS
<1>1. /\ called \in Pipelines /\ chunks = Pipe!ChunksOf(called) /\ stage = "next"
      /\ state = [i \in Pipe!Indices |-> "idle"] /\ slots = <<>> /\ results = <<>> /\ rejected = {}
      /\ outcome = Pipe!Pending /\ sends = [i \in Pipe!Indices |-> 0]
  BY DEF Pipe!Init
<1>2. Length \in Nat \ {0} /\ Pipe!Indices = 1..Length
  BY <1>1, PipelineIs
<1>3. Tiled(chunks, 0, Length) /\ CollectsOK
  BY <1>1, ChunksTile DEF CollectsOK
<1>4. Len(results) = 0 /\ outcome = [kind |-> "pending", disposition |-> "none", index |-> 0]
  BY <1>1 DEF Pipe!Pending
<1>5. PipeTypeOK
  <2>1. outcome \in PipeOutcomes
    BY <1>4 DEF PipeOutcomes
  <2>2. state \in [1..Length -> PipeStates] /\ sends \in [1..Length -> 0..1]
    BY <1>1, <1>2 DEF PipeStates
  <2>3. slots \in Seq(1..Length) /\ results \in Seq({"ok", "error"}) /\ rejected \subseteq {}
    BY <1>1
  <2> QED BY <1>1, <2>1, <2>2, <2>3 DEF PipeTypeOK
<1>6. PlacesOK /\ WaitersOK /\ OrderOK
  BY <1>1, <1>2, <1>4 DEF PlacesOK, WaitersOK, OrderOK
<1> QED BY <1>1, <1>3, <1>4, <1>5, <1>6 DEF PipeInv, UnderWayOK

\* The first chunk: its commands are those behind the results.
LEMMA ItemsAre ==
    ASSUME PipeTypeOK, Tiled(chunks, Len(results), Length), chunks # <<>>
    PROVE  /\ Pipe!Chunk = chunks[1] /\ Pipe!Chunk.items \in Seq(1..Length)
           /\ Len(Pipe!Chunk.items) \in Nat \ {0} /\ Len(results) \in Nat
           /\ DOMAIN Pipe!Chunk.items = 1..Len(Pipe!Chunk.items)
           /\ Len(results) + Len(Pipe!Chunk.items) <= Length
           /\ Pipe!Items = (Len(results) + 1)..(Len(results) + Len(Pipe!Chunk.items))
           /\ \A k \in 1..Len(Pipe!Chunk.items) : Pipe!Chunk.items[k] = Len(results) + k
<1> DEFINE c == Pipe!Chunk
           base == Len(results)
           m == Len(c.items)
<1>1. Length \in Nat \ {0} /\ base \in Nat
  BY PipelineIs DEF PipeTypeOK
<1> DEFINE Shape == [items : Seq(1..Length), collects : BOOLEAN]
<1>2. /\ chunks \in Seq(Shape)
      /\ Len(chunks) \in Nat /\ 1 \in 1..Len(chunks) /\ DOMAIN chunks = 1..Len(chunks)
  <2>1. chunks \in Seq(Shape)
    BY DEF Tiled
  <2> HIDE DEF Shape
  <2> QED BY <2>1, SequenceIs
<1>3. c = chunks[1]
  BY <1>2 DEF Pipe!Chunk
<1>4. c \in [items : Seq(1..Length), collects : BOOLEAN]
  <2>1. chunks[1] \in Shape
    <3> HIDE DEF Shape
    <3> QED BY <1>2, SequenceIs
  <2> QED BY <2>1, <1>3
<1>5. c.items \in Seq(1..Length) /\ c.items # <<>> /\ c.items[1] = base + 1
      /\ \A k \in DOMAIN c.items : c.items[k] = c.items[1] + k - 1
  BY <1>2, <1>3, <1>4 DEF Tiled
<1> HIDE DEF c, base
<1>6. m \in Nat \ {0} /\ DOMAIN c.items = 1..m
  <2>1. m \in Nat /\ DOMAIN c.items = 1..m /\ m > 0
    BY <1>5, SequenceIs
  <2> QED BY <2>1
<1>7. \A k \in 1..m : c.items[k] = base + k
  <2> SUFFICES ASSUME NEW k \in 1..m PROVE c.items[k] = base + k
    OBVIOUS
  <2>1. c.items[k] = c.items[1] + k - 1 /\ k \in Nat
    BY <1>5, <1>6
  <2> QED BY <1>1, <1>5, <2>1
<1>8. base + m <= Length
  <2>1. m \in 1..m
    BY <1>6
  <2>2. c.items[m] \in 1..Length
    BY <1>5, <2>1, SequenceIs
  <2> QED BY <1>1, <1>6, <1>7, <2>1, <2>2
<1>9. Pipe!Items = {c.items[k] : k \in 1..m}
  BY <1>6 DEF Pipe!Items, Pipe!Range, c
<1>10. Pipe!Items = (base + 1)..(base + m)
  <2>1. ASSUME NEW i \in (base + 1)..(base + m) PROVE i \in {c.items[k] : k \in 1..m}
    <3>1. i - base \in 1..m /\ base + (i - base) = i
      BY <1>1, <1>6
    <3>2. c.items[i - base] = i
      BY <1>7, <3>1
    <3> QED BY <3>1, <3>2
  <2>2. ASSUME NEW k \in 1..m PROVE c.items[k] \in (base + 1)..(base + m)
    BY <1>1, <1>6, <1>7
  <2> QED BY <1>9, <2>1, <2>2
<1> QED BY <1>1, <1>3, <1>5, <1>6, <1>7, <1>8, <1>10 DEF c, base

LEMMA TailTiled ==
    ASSUME NEW n \in Nat, NEW base \in Nat, NEW chs, Tiled(chs, base, n), chs # <<>>,
           base + Len(chs[1].items) <= n
    PROVE  Tiled(Tail(chs), base + Len(chs[1].items), n) /\ Len(Tail(chs)) = Len(chs) - 1
           /\ \A k \in DOMAIN Tail(chs) : k + 1 \in DOMAIN chs /\ Tail(chs)[k] = chs[k + 1]
<1> DEFINE Shape == [items : Seq(1..n), collects : BOOLEAN]
           rest == Tail(chs)
           len == Len(chs)
           m == Len(chs[1].items)
<1>1. /\ chs \in Seq(Shape) /\ len \in Nat \ {0} /\ DOMAIN chs = 1..len
      /\ \A k \in 1..len : chs[k] \in Shape
  <2>1. chs \in Seq(Shape)
    BY DEF Tiled
  <2> HIDE DEF Shape
  <2>2. len \in Nat /\ len > 0 /\ DOMAIN chs = 1..len /\ \A k \in 1..len : chs[k] \in Shape
    BY <2>1, SequenceIs
  <2> QED BY <2>1, <2>2
<1>2. /\ rest \in Seq(Shape) /\ Len(rest) = len - 1 /\ DOMAIN rest = 1..(len - 1)
      /\ \A k \in 1..(len - 1) : rest[k] = chs[k + 1]
  <2> HIDE DEF Shape
  <2> QED BY <1>1
<1> HIDE DEF rest, len, Shape
<1>3. /\ \A k \in 1..len : /\ chs[k].items # <<>>
                             /\ \A l \in DOMAIN chs[k].items : chs[k].items[l] = chs[k].items[1] + l - 1
      /\ chs[1].items[1] = base + 1 /\ chs[len].items[1] + Len(chs[len].items) = n + 1
      /\ \A k \in 1..len : k > 1 => chs[k].items[1] = chs[k - 1].items[1] + Len(chs[k - 1].items)
  BY <1>1 DEF Tiled, len
<1>4. ASSUME NEW k \in 1..len PROVE Len(chs[k].items) \in Nat \ {0} /\ chs[k].items[1] \in 1..n
  <2>1. chs[k].items \in Seq(1..n) /\ chs[k].items # <<>>
    BY <1>1, <1>3 DEF Shape
  <2>2. Len(chs[k].items) \in Nat /\ Len(chs[k].items) > 0
    BY <2>1, SequenceIs
  <2>3. 1 \in 1..Len(chs[k].items)
    BY <2>2
  <2> QED BY <2>1, <2>2, <2>3, SequenceIs
<1>5. m \in Nat \ {0} /\ base + m <= n
  BY <1>1, <1>4
<1> HIDE DEF m
<1>6. rest = <<>> <=> len = 1
  <2>1. rest # <<>> <=> Len(rest) > 0
    <3> HIDE DEF Shape
    <3> QED BY <1>2, SequenceIs
  <2> QED BY <1>1, <1>2, <2>1
<1>7. rest = <<>> <=> base + m = n
  <2>1. CASE len = 1
    <3>1. base + 1 + m = n + 1
      BY <1>3, <2>1 DEF m
    <3>2. base + m = n
      BY <3>1, <1>5
    <3> QED BY <1>6, <2>1, <3>2
  <2>2. CASE len > 1
    <3>1. 2 \in 1..len /\ 1 \in 1..len /\ 2 - 1 = 1
      BY <1>1, <2>2
    <3>2. chs[2].items[1] = chs[2 - 1].items[1] + Len(chs[2 - 1].items)
      BY <1>3, <3>1
    <3>3. chs[2].items[1] = base + 1 + m
      BY <1>3, <3>1, <3>2 DEF m
    <3>4. chs[2].items[1] \in 1..n
      BY <1>4, <3>1
    <3> QED BY <1>6, <2>2, <3>3, <3>4, <1>5
  <2> QED BY <1>1, <2>1, <2>2
<1>8. rest # <<>> => /\ rest[1].items[1] = base + m + 1
                     /\ rest[Len(rest)].items[1] + Len(rest[Len(rest)].items) = n + 1
  <2> SUFFICES ASSUME rest # <<>>
               PROVE  /\ rest[1].items[1] = base + m + 1
                      /\ rest[Len(rest)].items[1] + Len(rest[Len(rest)].items) = n + 1
    OBVIOUS
  <2>1. len > 1
    BY <1>1, <1>6
  <2>2. 2 \in 1..len /\ 2 - 1 = 1 /\ 1 + 1 = 2 /\ 1 \in 1..(len - 1) /\ len - 1 \in 1..(len - 1)
        /\ (len - 1) + 1 = len
    BY <1>1, <2>1
  <2>3. rest[1] = chs[2] /\ rest[Len(rest)] = chs[len]
    BY <1>2, <2>2
  <2>4. chs[2].items[1] = base + 1 + m
    <3>1. chs[2].items[1] = chs[2 - 1].items[1] + Len(chs[2 - 1].items)
      BY <1>3, <2>2
    <3> QED BY <1>3, <2>2, <3>1 DEF m
  <2> QED BY <2>3, <2>4, <1>3, <1>5
<1>9. ASSUME NEW k \in DOMAIN rest
      PROVE  /\ rest[k].items # <<>>
             /\ \A l \in DOMAIN rest[k].items : rest[k].items[l] = rest[k].items[1] + l - 1
  <2>1. k + 1 \in 1..len /\ rest[k] = chs[k + 1]
    BY <1>1, <1>2
  <2> QED BY <1>3, <2>1
<1>10. ASSUME NEW k \in DOMAIN rest, k > 1
       PROVE  rest[k].items[1] = rest[k - 1].items[1] + Len(rest[k - 1].items)
  <2>1. k + 1 \in 1..len /\ k + 1 > 1 /\ (k + 1) - 1 = k /\ k - 1 \in 1..(len - 1) /\ (k - 1) + 1 = k
    BY <1>1, <1>2, <1>10
  <2>2. rest[k] = chs[k + 1] /\ rest[k - 1] = chs[k]
    BY <1>2, <2>1
  <2> QED BY <1>3, <2>1, <2>2
<1>11. Tiled(rest, base + m, n)
  BY <1>2, <1>7, <1>8, <1>9, <1>10 DEF Tiled, Shape
<1>12. \A k \in 1..(len - 1) : k + 1 \in 1..len
  BY <1>1
<1> QED BY <1>1, <1>2, <1>11, <1>12 DEF rest, len, m, Shape

\* The results of the first chunk, which has ended, are taken over.
LEMMA TakeKept ==
    ASSUME PipeInv, outcome = Pipe!Pending, stage # "next",
           NEW s \in [1..Length -> PipeStates],
           \A i \in Pipe!Items : s[i] \in {"ok", "error"} /\ state[i] # "waiting",
           \A i \in 1..Length : i \notin Pipe!Items => s[i] = state[i],
           Pipe!TakeResults(s), called' = called, slots' = slots, sends' = sends
    PROVE  PipeInv'
<1> DEFINE base == Len(results)
           items == Pipe!Chunk.items
           m == Len(items)
           failed == {k \in DOMAIN items : s[items[k]] # "ok"}
<1>1. PipeTypeOK /\ UnderWayOK /\ chunks # <<>>
  BY DEF PipeInv, UnderWayOK, PlacesOK
<1>2. Length \in Nat \ {0} /\ Length' = Length
  BY <1>1, PipelineIs DEF PipeTypeOK, Length
<1>3. /\ Pipe!Chunk = chunks[1] /\ items \in Seq(1..Length)
      /\ m \in Nat \ {0} /\ base \in Nat /\ DOMAIN items = 1..m /\ base + m <= Length
      /\ Pipe!Items = (base + 1)..(base + m) /\ \A k \in 1..m : items[k] = base + k
  BY <1>1, ItemsAre DEF UnderWayOK
<1> HIDE DEF base, items, m
<1>4. \A i \in 1..Length : s[i] # "waiting" /\ s[i] # "lost" /\ state[i] # "waiting"
  <2> SUFFICES ASSUME NEW i \in 1..Length, i \notin Pipe!Items PROVE state[i] \notin {"waiting", "lost"}
    OBVIOUS
  <2>1. CASE i <= base
    <3>1. i \in 1..base
      BY <1>3, <2>1
    <3>2. state[i] = results[i] /\ results[i] \in {"ok", "error"}
      BY <1>1, <3>1, SequenceIs DEF UnderWayOK, PlacesOK, PipeTypeOK, base
    <3> QED BY <3>2
  <2>2. CASE i > base
    <3>1. state[i] = "idle"
      BY <1>1, <1>2, <1>3, <2>2 DEF UnderWayOK, PlacesOK, base
    <3> QED BY <3>1
  <2> QED BY <1>2, <1>3, <2>1, <2>2
<1>5. slots = <<>>
  <2> SUFFICES ASSUME slots # <<>> PROVE FALSE
    OBVIOUS
  <2>1. slots \in Seq(1..Length)
    BY <1>1 DEF PipeTypeOK
  <2>3. Len(slots) > 0 /\ Len(slots) \in Nat /\ DOMAIN slots = 1..Len(slots)
    BY <2>1, SequenceIs
  <2>2. 1 \in DOMAIN slots /\ slots[1] \in 1..Length
    <3>1. \A k \in 1..Len(slots) : slots[k] \in 1..Length
      BY <2>1, SequenceIs
    <3>2. 1 \in 1..Len(slots)
      BY <2>3
    <3> QED BY <2>3, <3>1, <3>2
  <2>4. state[slots[1]] = "waiting"
    BY <1>1, <2>2 DEF UnderWayOK, WaitersOK
  <2> QED BY <1>4, <2>2, <2>4
<1>6. state' = s
  BY DEF Pipe!TakeResults
<1>7. \A i \in Pipe!Items : i \in 1..Length
  BY <1>2, <1>3
<1>8. CASE called.throws /\ ~Pipe!Chunk.collects /\ failed # {}
  <2>1. /\ outcome' = Pipe!ItemError(items[CHOOSE k \in failed : \A l \in failed : k <= l])
        /\ UNCHANGED <<chunks, stage, results, rejected>>
    BY <1>8 DEF Pipe!TakeResults, items
  <2> DEFINE first == CHOOSE k \in failed : \A l \in failed : k <= l
  <2>2. first \in failed /\ \A l \in failed : first <= l
    <3>1. failed \subseteq Nat /\ failed # {}
      BY <1>3, <1>8
    <3>2. \E k \in failed : \A l \in failed : k <= l
      <4> HIDE DEF failed
      <4> QED BY <3>1, LeastOf
    <3> HIDE DEF failed
    <3> QED BY <3>2
  <2> HIDE DEF first
  <2>3. base = 0 /\ m = Length
    <3>1. 1 \in DOMAIN chunks /\ ~chunks[1].collects /\ Len(chunks) \in Nat
      BY <1>1, <1>3, <1>8 DEF UnderWayOK, Tiled
    <3>2. results = <<>> /\ Len(chunks) = 1
      BY <1>1, <3>1 DEF UnderWayOK, CollectsOK
    <3>3. items[1] + m = Length + 1 /\ items[1] = base + 1
      BY <1>1, <1>3, <3>2 DEF UnderWayOK, Tiled, items, m
    <3> QED BY <1>2, <1>3, <3>2, <3>3 DEF base
  <2>4. first \in 1..Length /\ items[first] = first /\ s[first] # "ok"
    BY <1>2, <1>3, <2>2, <2>3
  <2>5. \A i \in 1..(first - 1) : s[i] = "ok"
    <3> SUFFICES ASSUME NEW i \in 1..(first - 1), s[i] # "ok" PROVE FALSE
      OBVIOUS
    <3>1. i \in 1..m /\ items[i] = i
      BY <1>2, <1>3, <2>3, <2>4
    <3>2. i \in failed
      BY <1>3, <3>1
    <3> QED BY <2>2, <2>4, <3>2
  <2>6. \A i \in 1..Length : s[i] \in {"ok", "error"}
    BY <1>2, <1>3, <2>3
  <2>7. /\ outcome' = [kind |-> "rejected", disposition |-> "answered", index |-> first]
        /\ outcome' \in PipeOutcomes
    <3>1. outcome' = [kind |-> "rejected", disposition |-> "answered", index |-> first]
      BY <2>1, <2>4 DEF Pipe!ItemError, Pipe!Rejected, Pipe!Pending, first
    <3> QED BY <3>1, <2>4, <1>2 DEF PipeOutcomes
  <2>8. PipeTypeOK'
    BY <1>1, <1>2, <1>5, <1>6, <2>1, <2>7 DEF PipeTypeOK
  <2>9. outcome' # Pipe!Pending /\ outcome' # Pipe!Resolved /\ outcome' # Pipe!NotAttempted
    BY <2>7 DEF Pipe!Pending, Pipe!Resolved, Pipe!NotAttempted
  <2>10. EndedOK'
    <3>1. outcome'.index = first
      BY <2>7
    <3>2. \A i \in 1..Length : s[i] \notin {"waiting", "queued", "sent"} /\ s[i] \in Pipe!Settled
      BY <2>6 DEF Pipe!Settled
    <3> QED BY <1>2, <1>6, <2>4, <2>5, <2>9, <3>1, <3>2 DEF EndedOK, Pipe!Settled, Pipe!Resolved,
               Pipe!NotAttempted, Pipe!Pending
  <2>11. Pipe!Pending' = Pipe!Pending
    BY DEF Pipe!Pending
  <2> QED BY <2>8, <2>9, <2>10, <2>11 DEF PipeInv
<1>9. CASE ~(called.throws /\ ~Pipe!Chunk.collects /\ failed # {})
  <2> DEFINE new == [k \in DOMAIN items |-> s[items[k]]]
  <2>1. /\ results' = results \o new
        /\ rejected' = IF stage = "frame" THEN rejected ELSE rejected \cup {base + k : k \in failed}
        /\ chunks' = Tail(chunks) /\ stage' = "next" /\ UNCHANGED outcome
    BY <1>9 DEF Pipe!TakeResults, items, base
  <2>2. new \in Seq({"ok", "error"}) /\ Len(new) = m /\ \A k \in 1..m : new[k] = s[base + k]
    <3>1. new \in [1..m -> {"ok", "error"}]
      BY <1>3
    <3>2. \A k \in 1..m : new[k] = s[base + k]
      BY <1>3
    <3> HIDE DEF new
    <3> QED BY <1>3, <3>1, <3>2, SequenceOf
  <2> HIDE DEF new
  <2>3. results \in Seq({"ok", "error"})
    BY <1>1 DEF PipeTypeOK
  <2>4. /\ results' \in Seq({"ok", "error"}) /\ Len(results') = base + m
        /\ \A i \in 1..base : results'[i] = results[i]
        /\ \A k \in 1..m : results'[base + k] = s[base + k]
    <3>1. /\ results \o new \in Seq({"ok", "error"}) /\ Len(results \o new) = Len(results) + Len(new)
          /\ \A i \in 1..Len(results) : (results \o new)[i] = results[i]
          /\ \A k \in 1..Len(new) : (results \o new)[Len(results) + k] = new[k]
      <4> DEFINE E == {"ok", "error"}
      <4>1. results \in Seq(E) /\ new \in Seq(E)
        BY <2>2, <2>3
      <4> HIDE DEF E
      <4>2. /\ results \o new \in Seq(E) /\ Len(results \o new) = Len(results) + Len(new)
            /\ \A i \in 1..Len(results) : (results \o new)[i] = results[i]
            /\ \A k \in 1..Len(new) : (results \o new)[Len(results) + k] = new[k]
        BY <4>1, ConcatIs
      <4> QED BY <4>2 DEF E
    <3> QED BY <2>1, <2>2, <3>1 DEF base
  <2>5. \A i \in 1..(base + m) : s[i] = results'[i]
    <3> SUFFICES ASSUME NEW i \in 1..(base + m) PROVE s[i] = results'[i]
      OBVIOUS
    <3>1. CASE i <= base
      <4>1. i \in 1..base /\ i \in 1..Length /\ i \notin Pipe!Items
        BY <1>2, <1>3, <3>1
      <4>2. state[i] = results[i]
        BY <1>1, <4>1 DEF UnderWayOK, PlacesOK, base
      <4> QED BY <2>4, <4>1, <4>2
    <3>2. CASE i > base
      <4>1. i - base \in 1..m /\ base + (i - base) = i
        BY <1>3, <3>2
      <4> QED BY <2>4, <4>1
    <3> QED BY <1>3, <3>1, <3>2
  <2>6. rejected' \subseteq {k \in 1..Len(results') : results'[k] = "error"}
    <3>1. rejected \subseteq {k \in 1..base : results[k] = "error"}
      BY <1>1 DEF PipeTypeOK, base
    <3>2. rejected \subseteq {k \in 1..(base + m) : results'[k] = "error"}
      BY <1>3, <2>4, <3>1
    <3>3. ASSUME NEW k \in failed PROVE base + k \in 1..(base + m) /\ results'[base + k] = "error"
      <4>1. k \in 1..m /\ s[base + k] # "ok" /\ base + k \in Pipe!Items
        BY <1>3
      <4>2. s[base + k] = "error" /\ results'[base + k] = s[base + k]
        BY <2>4, <4>1
      <4>3. base + k \in 1..(base + m)
        BY <1>3, <4>1
      <4> QED BY <4>2, <4>3
    <3>4. {base + k : k \in failed} \subseteq {k \in 1..(base + m) : results'[k] = "error"}
      <4> HIDE DEF failed
      <4> QED BY <3>3
    <3>5. rejected' \subseteq {k \in 1..(base + m) : results'[k] = "error"}
      <4> HIDE DEF failed
      <4> QED BY <2>1, <3>2, <3>4
    <3> QED BY <2>4, <3>5
  <2>7. PipeTypeOK'
    BY <1>1, <1>2, <1>5, <1>6, <2>1, <2>4, <2>6 DEF PipeTypeOK
  <2>8. /\ Tiled(chunks', Len(results'), Length) /\ Len(chunks') = Len(chunks) - 1
        /\ \A k \in DOMAIN chunks' : k + 1 \in DOMAIN chunks /\ chunks'[k] = chunks[k + 1]
    <3>1. Tiled(chunks, base, Length) /\ base + Len(chunks[1].items) <= Length
      BY <1>1, <1>3 DEF UnderWayOK, base, m, items
    <3> HIDE DEF base
    <3>2. /\ Tiled(Tail(chunks), base + Len(chunks[1].items), Length) /\ Len(Tail(chunks)) = Len(chunks) - 1
          /\ \A k \in DOMAIN Tail(chunks) : k + 1 \in DOMAIN chunks /\ Tail(chunks)[k] = chunks[k + 1]
      BY <1>1, <1>2, <1>3, <3>1, TailTiled
    <3> QED BY <1>3, <2>1, <2>4, <3>2 DEF m, items
  <2>9. Len(chunks) \in Nat /\ DOMAIN chunks = 1..Len(chunks)
    BY <1>1, SequenceIs DEF UnderWayOK, Tiled
  <2>10. CollectsOK'
    <3>1. ASSUME NEW k \in DOMAIN chunks' PROVE chunks'[k].collects
      <4>1. k + 1 \in DOMAIN chunks /\ chunks'[k] = chunks[k + 1]
        BY <2>8
      <4>2. k \in 1..Len(chunks')
        BY <2>8, SequenceIs DEF Tiled
      <4>3. Len(chunks) # 1
        BY <2>8, <2>9, <4>2
      <4> QED BY <1>1, <4>1, <4>3 DEF UnderWayOK, CollectsOK
    <3>2. called.fused => chunks' = <<>>
      <4> SUFFICES ASSUME called.fused PROVE chunks' = <<>>
        OBVIOUS
      <4>1. Len(chunks) = 1
        BY <1>1 DEF UnderWayOK, CollectsOK
      <4>2. Len(chunks') = 0
        BY <2>8, <4>1
      <4> QED BY <2>8, <4>2, SequenceIs DEF Tiled
    <3> QED BY <3>1, <3>2 DEF CollectsOK
  <2>11. PlacesOK'
    <3>1. \A i \in (base + m + 1)..Length : s[i] = "idle"
      <4> SUFFICES ASSUME NEW i \in (base + m + 1)..Length PROVE s[i] = "idle"
        OBVIOUS
      <4>1. i \in (base + 1)..Length /\ i \notin Pipe!Items /\ i \in 1..Length
        BY <1>2, <1>3
      <4> QED BY <1>1, <4>1 DEF UnderWayOK, PlacesOK, base
    <3>2. \A i \in 1..Length : s[i] \in {"idle", "waiting", "queued"} => sends[i] = 0
      BY <1>1 DEF UnderWayOK, PlacesOK
    <3> QED BY <1>2, <1>3, <1>4, <1>6, <2>1, <2>4, <2>5, <3>1, <3>2 DEF PlacesOK
  <2>12. WaitersOK' /\ OrderOK'
    BY <1>2, <1>4, <1>5, <1>6, <2>1 DEF WaitersOK, OrderOK
  <2>13. Pipe!Pending' = Pipe!Pending
    BY DEF Pipe!Pending
  <2> QED BY <1>2, <2>1, <2>7, <2>8, <2>10, <2>11, <2>12, <2>13 DEF PipeInv, UnderWayOK
<1> QED BY <1>8, <1>9

\* Who waits for a slot stands in the queue.
LEMMA NoWaiters ==
    ASSUME PipeTypeOK, WaitersOK, \A i \in 1..Length : state[i] # "waiting"
    PROVE  slots = <<>>
<1> SUFFICES ASSUME slots # <<>> PROVE FALSE
  OBVIOUS
<1>1. slots \in Seq(1..Length)
  BY DEF PipeTypeOK
<1>2. Len(slots) > 0 /\ Len(slots) \in Nat /\ DOMAIN slots = 1..Len(slots)
  BY <1>1, SequenceIs
<1>3. \A k \in 1..Len(slots) : slots[k] \in 1..Length
  BY <1>1, SequenceIs
<1>4. 1 \in 1..Len(slots)
  BY <1>2
<1>5. state[slots[1]] = "waiting"
  BY <1>2, <1>3, <1>4 DEF WaitersOK
<1> QED BY <1>3, <1>4, <1>5

\* Where the commands are that are not executed now.
LEMMA PlacesAre ==
    ASSUME PipeInv, outcome = Pipe!Pending
    PROVE  /\ Length \in Nat \ {0} /\ Len(results) \in Nat /\ Len(results) <= Length
           /\ \A i \in 1..Length : i <= Len(results) => state[i] \in {"ok", "error"}
           /\ \A i \in 1..Length : i > Len(results) /\ (stage = "next" \/ i \notin Pipe!Items) => state[i] = "idle"
           /\ \A i \in 1..Length : stage = "next" \/ i \notin Pipe!Items => state[i] \in {"ok", "error", "idle"}
           /\ stage = "next" => slots = <<>>
<1>1. PipeTypeOK /\ UnderWayOK
  BY DEF PipeInv
<1>2. Length \in Nat \ {0} /\ Len(results) <= Length
  BY <1>1, PipelineIs DEF PipeTypeOK, UnderWayOK, PlacesOK
<1>3. Len(results) \in Nat /\ \A i \in 1..Len(results) : results[i] \in {"ok", "error"}
  <2> DEFINE E == {"ok", "error"}
  <2>1. results \in Seq(E)
    BY <1>1 DEF PipeTypeOK
  <2> HIDE DEF E
  <2>2. Len(results) \in Nat /\ \A i \in 1..Len(results) : results[i] \in E
    BY <2>1, SequenceIs
  <2> QED BY <2>2 DEF E
<1>4. ASSUME NEW i \in 1..Length, i <= Len(results) PROVE state[i] \in {"ok", "error"}
  <2>1. i \in 1..Len(results)
    BY <1>2, <1>3, <1>4
  <2> QED BY <1>1, <1>3, <2>1 DEF UnderWayOK, PlacesOK
<1>5. ASSUME NEW i \in 1..Length, i > Len(results), stage = "next" \/ i \notin Pipe!Items PROVE state[i] = "idle"
  <2>1. i \in (Len(results) + 1)..Length
    BY <1>2, <1>3, <1>5
  <2> QED BY <1>1, <1>5, <2>1 DEF UnderWayOK, PlacesOK
<1>6. ASSUME NEW i \in 1..Length, stage = "next" \/ i \notin Pipe!Items PROVE state[i] \in {"ok", "error", "idle"}
  <2>1. i <= Len(results) \/ i > Len(results)
    BY <1>2, <1>3
  <2> QED BY <1>4, <1>5, <1>6, <2>1
<1>7. stage = "next" => slots = <<>>
  <2> SUFFICES ASSUME stage = "next" PROVE slots = <<>>
    OBVIOUS
  <2>1. \A i \in 1..Length : state[i] # "waiting"
    BY <1>6
  <2> QED BY <1>1, <2>1, NoWaiters DEF UnderWayOK
<1> QED BY <1>2, <1>3, <1>4, <1>5, <1>6, <1>7

\* A pipeline that is rejected as a whole, or not attempted.
LEMMA EndKept ==
    ASSUME PipeInv, outcome = Pipe!Pending,
           called' = called, stage' = stage, slots' = slots, results' = results, rejected' = rejected,
           sends' = sends, state' \in [1..Length -> PipeStates],
           \A i \in 1..Length : state'[i] \notin {"waiting", "queued", "sent"},
           \/ outcome' \in {Pipe!Rejected("unsent"), Pipe!Rejected("none"), Pipe!Rejected("possibly_sent")}
           \/ outcome' = Pipe!NotAttempted /\ \A i \in 1..Length : sends[i] = 0
    PROVE  PipeInv'
<1>1. PipeTypeOK /\ Length' = Length
  BY DEF PipeInv, Length
<1>2. /\ outcome' \in PipeOutcomes /\ outcome'.index = 0 /\ outcome'.kind \in {"rejected", "undefined"}
      /\ outcome'.kind = "undefined" => \A i \in 1..Length : sends[i] = 0
  <2>1. CASE outcome' = Pipe!NotAttempted /\ \A i \in 1..Length : sends[i] = 0
    <3>1. outcome' = [kind |-> "undefined", disposition |-> "none", index |-> 0]
      BY <2>1 DEF Pipe!NotAttempted, Pipe!Pending
    <3> QED BY <2>1, <3>1 DEF PipeOutcomes
  <2>2. ASSUME NEW d \in {"unsent", "none", "possibly_sent"}, outcome' = Pipe!Rejected(d)
        PROVE  outcome' \in PipeOutcomes /\ outcome'.index = 0 /\ outcome'.kind = "rejected"
    <3>1. outcome' = [kind |-> "rejected", disposition |-> d, index |-> 0]
      BY <2>2 DEF Pipe!Rejected, Pipe!Pending
    <3> QED BY <3>1 DEF PipeOutcomes
  <2> QED BY <2>1, <2>2
<1>3. outcome' # Pipe!Pending /\ outcome' # Pipe!Resolved
  BY <1>2 DEF Pipe!Pending, Pipe!Resolved
<1>4. PipeTypeOK'
  BY <1>1, <1>2 DEF PipeTypeOK
<1>5. outcome' = Pipe!NotAttempted => outcome'.kind = "undefined"
  BY DEF Pipe!NotAttempted, Pipe!Pending
<1>6. EndedOK'
  BY <1>1, <1>2, <1>3, <1>5 DEF EndedOK, Pipe!Resolved, Pipe!NotAttempted, Pipe!Pending
<1>7. Pipe!Pending' = Pipe!Pending
  BY DEF Pipe!Pending
<1> QED BY <1>3, <1>4, <1>6, <1>7 DEF PipeInv

LEMMA PipeSends ==
    ASSUME PipeInv, outcome = Pipe!Pending, stage = "next", chunks # <<>>,
           called.fused => Length <= called.maxCommands, Pipe!SendFrame
    PROVE  PipeInv'
<1>1. PipeTypeOK /\ UnderWayOK /\ Length' = Length
  BY DEF PipeInv, Length, Pipe!SendFrame
<1>2. /\ stage' = "frame" /\ UNCHANGED <<called, chunks, slots, results, rejected, outcome, sends>>
      /\ state' = [i \in 1..Length |-> IF i \in Pipe!Items THEN "queued" ELSE state[i]]
  BY <1>1, PipelineIs DEF PipeTypeOK, Pipe!SendFrame
<1>3. /\ Length \in Nat \ {0} /\ Len(results) \in Nat /\ Len(results) <= Length
      /\ \A i \in 1..Length : i > Len(results) => state[i] = "idle"
      /\ \A i \in 1..Length : state[i] # "waiting"
  BY PlacesAre
<1>4. \A i \in Pipe!Items : i \in 1..Length /\ i > Len(results) /\ i \in (Len(results) + 1)..Length
  BY <1>1, <1>3, ItemsAre DEF UnderWayOK
<1>5. Pipe!Items' = Pipe!Items /\ Pipe!Pending' = Pipe!Pending
  BY <1>2 DEF Pipe!Items, Pipe!Chunk, Pipe!Range, Pipe!Pending
<1>6. PipeTypeOK'
  BY <1>1, <1>2 DEF PipeTypeOK, PipeStates
<1>7. CollectsOK' /\ Tiled(chunks', Len(results'), Length)
  BY <1>1, <1>2 DEF UnderWayOK, CollectsOK
<1>8. PlacesOK'
  <2>1. \A i \in 1..Len(results) : i \in 1..Length /\ i \notin Pipe!Items /\ state'[i] = results[i]
    BY <1>1, <1>2, <1>3, <1>4 DEF UnderWayOK, PlacesOK
  <2>2. \A i \in (Len(results) + 1)..Length : i \notin Pipe!Items => state'[i] = "idle"
    BY <1>2, <1>3
  <2>3. \A i \in 1..Length : state'[i] \in {"idle", "waiting", "queued"} => sends[i] = 0
    BY <1>1, <1>2, <1>3, <1>4 DEF UnderWayOK, PlacesOK
  <2>4. \A i \in Pipe!Items : state'[i] = "queued"
    BY <1>2, <1>4
  <2>5. \A i \in 1..Length : state'[i] # "lost"
    BY <1>1, <1>2 DEF UnderWayOK, PlacesOK
  <2> QED BY <1>1, <1>2, <1>3, <1>5, <2>1, <2>2, <2>3, <2>4, <2>5 DEF PlacesOK
<1>9. WaitersOK' /\ OrderOK'
  <2>1. \A i \in 1..Length : state'[i] # "waiting"
    BY <1>2, <1>3
  <2> QED BY <1>1, <1>2, <1>3, <2>1 DEF UnderWayOK, WaitersOK, OrderOK
<1> QED BY <1>1, <1>2, <1>5, <1>6, <1>7, <1>8, <1>9 DEF PipeInv, UnderWayOK

LEMMA PipeRefuses ==
    ASSUME PipeInv, outcome = Pipe!Pending, stage = "next", Pipe!Refuse
    PROVE  PipeInv'
<1>1. /\ UNCHANGED <<called, chunks, stage, state, slots, results, rejected, sends>>
      /\ outcome' \in {Pipe!Rejected("unsent"), Pipe!Rejected("none")}
  BY DEF Pipe!Refuse
<1>2. state \in [1..Length -> PipeStates] /\ \A i \in 1..Length : state[i] \notin {"waiting", "queued", "sent"}
  BY PlacesAre DEF PipeInv, PipeTypeOK
<1> QED BY <1>1, <1>2, EndKept

LEMMA PipeIndividually ==
    ASSUME PipeInv, outcome = Pipe!Pending, stage = "next", chunks # <<>>, ~called.fused,
           Pipe!BeginIndividually
    PROVE  PipeInv'
<1>1. PipeTypeOK /\ UnderWayOK
  BY DEF PipeInv
<1>2. stage' = "individually" /\ UNCHANGED <<called, chunks, state, slots, results, rejected, outcome, sends>>
  BY DEF Pipe!BeginIndividually
<1>3. /\ Length' = Length /\ Pipe!Items' = Pipe!Items /\ Pipe!Pending' = Pipe!Pending
      /\ (Pipe!Ordered <=> Pipe!Ordered')
  BY <1>2 DEF Length, Pipe!Items, Pipe!Chunk, Pipe!Range, Pipe!Pending, Pipe!Ordered, Pipe!Kinds
<1>4. /\ slots = <<>> /\ Length \in Nat \ {0} /\ Len(results) \in Nat
      /\ \A i \in 1..Length : i <= Len(results) => state[i] \in {"ok", "error"}
      /\ \A i \in 1..Length : i > Len(results) => state[i] = "idle"
  BY PlacesAre
<1>5. PipeTypeOK'
  BY <1>1, <1>2, <1>3 DEF PipeTypeOK
<1>6. Tiled(chunks', Len(results'), Length) /\ CollectsOK' /\ WaitersOK'
  BY <1>1, <1>2, <1>3 DEF UnderWayOK, CollectsOK, WaitersOK
<1>7. PlacesOK'
  BY <1>1, <1>2, <1>3 DEF UnderWayOK, PlacesOK
<1>8. OrderOK'
  <2>1. ASSUME NEW i \in 1..Length, NEW j \in 1..Length, i < j, state[j] # "idle" PROVE state[i] \in {"ok", "error"}
    <3>1. ~(j > Len(results))
      BY <1>4, <2>1
    <3>2. i <= Len(results)
      BY <1>4, <2>1, <3>1
    <3> QED BY <1>4, <3>2
  <2> QED BY <1>2, <1>3, <1>4, <2>1 DEF OrderOK, Pipe!Settled
<1> QED BY <1>1, <1>2, <1>3, <1>5, <1>6, <1>7, <1>8 DEF PipeInv, UnderWayOK

\* The chunks with the first one halved.
FirstPart(c, half) == [items |-> SubSeq(c.items, 1, half), collects |-> TRUE]
SecondPart(c, half) == [items |-> SubSeq(c.items, half + 1, Len(c.items)), collects |-> TRUE]
Halved(chs, half) == <<FirstPart(chs[1], half), SecondPart(chs[1], half)>> \o Tail(chs)

LEMMA HalvesTile ==
    ASSUME NEW n \in Nat, NEW base \in Nat, NEW chs, Tiled(chs, base, n), chs # <<>>,
           NEW half \in Nat \ {0}, half < Len(chs[1].items)
    PROVE  /\ Tiled(Halved(chs, half), base, n) /\ Halved(chs, half) # <<>>
           /\ \A k \in DOMAIN Halved(chs, half) :
                  \/ Halved(chs, half)[k].collects
                  \/ k - 1 \in DOMAIN chs /\ k > 2 /\ Halved(chs, half)[k] = chs[k - 1]
<1> DEFINE a == FirstPart(chs[1], half)
           b == SecondPart(chs[1], half)
           new == Halved(chs, half)
           Shape == [items : Seq(1..n), collects : BOOLEAN]
           len == Len(chs)
           whole == chs[1].items
           m == Len(whole)
<1>1. /\ chs \in Seq(Shape) /\ len \in Nat \ {0} /\ DOMAIN chs = 1..len
      /\ \A k \in 1..len : chs[k] \in Shape
  <2>1. chs \in Seq(Shape)
    BY DEF Tiled
  <2> HIDE DEF Shape
  <2>2. len \in Nat /\ len > 0 /\ DOMAIN chs = 1..len /\ \A k \in 1..len : chs[k] \in Shape
    BY <2>1, SequenceIs
  <2> QED BY <2>1, <2>2
<1>2. /\ \A k \in 1..len : /\ chs[k].items # <<>>
                             /\ \A l \in DOMAIN chs[k].items : chs[k].items[l] = chs[k].items[1] + l - 1
      /\ whole[1] = base + 1 /\ chs[len].items[1] + Len(chs[len].items) = n + 1
      /\ \A k \in 1..len : k > 1 => chs[k].items[1] = chs[k - 1].items[1] + Len(chs[k - 1].items)
  BY <1>1 DEF Tiled
<1>3. whole \in Seq(1..n) /\ m \in Nat /\ DOMAIN whole = 1..m /\ half < m /\ 1 \in 1..len
      /\ \A l \in 1..m : whole[l] = base + l /\ whole[l] \in 1..n
  <2>1. 1 \in 1..len
    BY <1>1
  <2>2. whole \in Seq(1..n)
    BY <1>1, <2>1
  <2>3. m \in Nat /\ DOMAIN whole = 1..m /\ \A l \in 1..m : whole[l] \in 1..n
    BY <2>2, SequenceIs
  <2>4. ASSUME NEW l \in 1..m PROVE whole[l] = base + l
    <3>1. whole[l] = whole[1] + l - 1
      BY <1>2, <2>1, <2>3
    <3> QED BY <1>2, <2>3, <3>1
  <2> QED BY <2>1, <2>2, <2>3, <2>4
<1>0. new = <<a, b>> \o Tail(chs)
  BY DEF Halved
<1> HIDE DEF whole, m, len, a, b, new
<1>4. /\ a.items \in Seq(1..n) /\ Len(a.items) = half /\ a.collects = TRUE
      /\ \A l \in 1..half : a.items[l] = base + l
  <2>1. a.items = SubSeq(whole, 1, half) /\ a.collects = TRUE
    BY DEF whole, a, FirstPart
  <2>2. SubSeq(whole, 1, half) \in Seq(1..n) /\ Len(SubSeq(whole, 1, half)) = half
        /\ \A l \in 1..half : SubSeq(whole, 1, half)[l] = whole[l]
    BY <1>3
  <2>3. \A l \in 1..half : l \in 1..m
    BY <1>3
  <2> QED BY <1>3, <2>1, <2>2, <2>3
<1>5. /\ b.items \in Seq(1..n) /\ Len(b.items) = m - half /\ b.collects = TRUE
      /\ \A l \in 1..(m - half) : b.items[l] = base + half + l
  <2>1. b.items = SubSeq(whole, half + 1, m) /\ b.collects = TRUE
    BY DEF whole, m, b, SecondPart
  <2>2. SubSeq(whole, half + 1, m) \in Seq(1..n) /\ Len(SubSeq(whole, half + 1, m)) = m - half
        /\ \A l \in 1..(m - half) : SubSeq(whole, half + 1, m)[l] = whole[half + l]
    BY <1>3
  <2>3. \A l \in 1..(m - half) : half + l \in 1..m
    BY <1>3
  <2> QED BY <1>3, <2>1, <2>2, <2>3
<1>6. a \in Shape /\ b \in Shape
  BY <1>4, <1>5 DEF a, b, FirstPart, SecondPart
<1> HIDE DEF Shape
<1>7. /\ new \in Seq(Shape) /\ Len(new) = len + 1 /\ DOMAIN new = 1..(len + 1)
      /\ new[1] = a /\ new[2] = b /\ \A k \in 3..(len + 1) : new[k] = chs[k - 1]
  <2> HIDE DEF Shape
  <2>1. /\ Tail(chs) \in Seq(Shape) /\ Len(Tail(chs)) = len - 1
        /\ \A k \in 1..(len - 1) : Tail(chs)[k] = chs[k + 1]
    BY <1>1 DEF len
  <2>2. <<a, b>> \in Seq(Shape) /\ Len(<<a, b>>) = 2 /\ <<a, b>>[1] = a /\ <<a, b>>[2] = b
    BY <1>6
  <2> DEFINE two == <<a, b>>
             rest == Tail(chs)
  <2>3. two \in Seq(Shape) /\ Len(two) = 2 /\ two[1] = a /\ two[2] = b /\ new = two \o rest
    BY <1>0, <2>2
  <2> HIDE DEF two, rest
  <2>4. /\ two \o rest \in Seq(Shape) /\ Len(two \o rest) = Len(two) + Len(rest)
        /\ \A i \in 1..Len(two) : (two \o rest)[i] = two[i]
        /\ \A i \in 1..Len(rest) : (two \o rest)[Len(two) + i] = rest[i]
    <3>1. rest \in Seq(Shape)
      BY <2>1 DEF rest
    <3>2. two \in Seq(Shape)
      BY <2>3
    <3> QED BY <3>1, <3>2, ConcatIs
  <2>5. Len(new) = len + 1 /\ new \in Seq(Shape)
    BY <1>1, <2>1, <2>3, <2>4 DEF rest
  <2>6. DOMAIN new = 1..(len + 1)
    BY <2>5, SequenceIs
  <2>7. new[1] = a /\ new[2] = b
    BY <2>3, <2>4
  <2>8. ASSUME NEW k \in 3..(len + 1) PROVE new[k] = chs[k - 1]
    <3>1. k - 2 \in 1..(len - 1) /\ 2 + (k - 2) = k /\ (k - 2) + 1 = k - 1
      BY <1>1
    <3>2. new[k] = rest[k - 2]
      BY <2>1, <2>3, <2>4, <3>1 DEF rest
    <3> QED BY <2>1, <3>1, <3>2 DEF rest
  <2> QED BY <2>5, <2>6, <2>7, <2>8
<1>8. \A k \in 1..(len + 1) : k = 1 \/ k = 2 \/ (k \in 3..(len + 1) /\ k - 1 \in 1..len /\ k - 1 > 1)
  BY <1>1
<1>9. new # <<>> /\ chs # <<>>
  <2> HIDE DEF Shape
  <2>1. Len(new) > 0
    BY <1>1, <1>7
  <2> QED BY <1>7, <2>1, SequenceIs
<1>10. base # n
  BY DEF Tiled
<1>11. /\ a.items[1] = base + 1 /\ b.items[1] = base + half + 1 /\ m \in Nat /\ m - half \in Nat \ {0}
       /\ Len(a.items) = half /\ Len(b.items) = m - half
  BY <1>3, <1>4, <1>5
<1>12. ASSUME NEW k \in DOMAIN new
       PROVE  /\ new[k].items # <<>>
              /\ \A l \in DOMAIN new[k].items : new[k].items[l] = new[k].items[1] + l - 1
  <2>1. CASE k = 1
    <3>1. a.items # <<>> /\ DOMAIN a.items = 1..half
      BY <1>4, <1>11, SequenceIs
    <3>2. \A l \in 1..half : a.items[l] = a.items[1] + l - 1
      BY <1>4, <1>11
    <3> QED BY <1>7, <2>1, <3>1, <3>2
  <2>2. CASE k = 2
    <3>1. b.items # <<>> /\ DOMAIN b.items = 1..(m - half)
      BY <1>5, <1>11, SequenceIs
    <3>2. ASSUME NEW l \in 1..(m - half) PROVE b.items[l] = b.items[1] + l - 1
      <4>1. b.items[l] = base + half + l
        BY <1>5
      <4> QED BY <1>11, <4>1
    <3> QED BY <1>7, <2>2, <3>1, <3>2
  <2>3. CASE k \in 3..(len + 1) /\ k - 1 \in 1..len
    BY <1>2, <1>7, <2>3
  <2> QED BY <1>7, <1>8, <2>1, <2>2, <2>3
<1>13. new[1].items[1] = base + 1
  BY <1>7, <1>11
<1>14. new[Len(new)].items[1] + Len(new[Len(new)].items) = n + 1
  <2>1. CASE len = 1
    <3>1. new[Len(new)] = b
      BY <1>7, <2>1
    <3>2. base + 1 + m = n + 1
      BY <1>2, <2>1 DEF whole, m
    <3> QED BY <1>11, <3>1, <3>2
  <2>2. CASE len > 1
    <3>1. len + 1 \in 3..(len + 1) /\ (len + 1) - 1 = len
      BY <1>1, <2>2
    <3>2. new[len + 1] = chs[len]
      BY <1>7, <3>1
    <3> QED BY <1>2, <1>7, <3>2
  <2> QED BY <1>1, <2>1, <2>2
<1>15. ASSUME NEW k \in DOMAIN new, k > 1 PROVE new[k].items[1] = new[k - 1].items[1] + Len(new[k - 1].items)
  <2>1. CASE k = 2
    <3>1. new[k - 1] = a /\ new[k] = b
      BY <1>7, <2>1
    <3> QED BY <1>11, <3>1
  <2>2. CASE k = 3
    <3>1. new[k - 1] = b /\ new[k] = chs[2] /\ 2 \in 1..len /\ 2 > 1
      BY <1>1, <1>7, <2>2
    <3>2. chs[2].items[1] = chs[2 - 1].items[1] + Len(chs[2 - 1].items)
      BY <1>2, <3>1
    <3>3. chs[2].items[1] = base + 1 + m
      <4>1. 2 - 1 = 1
        OBVIOUS
      <4> QED BY <1>2, <3>2, <4>1 DEF whole, m
    <3>4. chs[2].items[1] = b.items[1] + Len(b.items)
      BY <1>11, <3>3
    <3> QED BY <3>1, <3>4
  <2>3. CASE k > 3
    <3>1. k \in 3..(len + 1) /\ k - 1 \in 3..(len + 1) /\ (k - 1) - 1 = k - 2
          /\ k - 1 \in 1..len /\ k - 1 > 1
      BY <1>1, <1>7, <2>3
    <3>2. new[k] = chs[k - 1] /\ new[k - 1] = chs[(k - 1) - 1]
      BY <1>7, <3>1
    <3> QED BY <1>2, <3>1, <3>2
  <2> QED BY <1>7, <1>15, <1>8, <2>1, <2>2, <2>3
<1>16. Tiled(new, base, n)
  BY <1>7, <1>9, <1>10, <1>12, <1>13, <1>14, <1>15 DEF Tiled, Shape
<1>17. ASSUME NEW k \in DOMAIN new PROVE new[k].collects \/ (k - 1 \in DOMAIN chs /\ k > 2 /\ new[k] = chs[k - 1])
  <2>1. CASE k = 1 \/ k = 2
    BY <1>4, <1>5, <1>7, <2>1
  <2>2. CASE k \in 3..(len + 1) /\ k - 1 \in 1..len /\ k - 1 > 1
    BY <1>1, <1>7, <2>2
  <2> QED BY <1>7, <1>8, <2>1, <2>2
<1> QED BY <1>9, <1>16, <1>17 DEF new

LEMMA PipeHalves ==
    ASSUME PipeInv, outcome = Pipe!Pending, stage = "next", chunks # <<>>, ~called.fused, Pipe!Halve
    PROVE  PipeInv'
<1> DEFINE m == Len(Pipe!Chunk.items)
           half == (m + 1) \div 2
<1>1. PipeTypeOK /\ UnderWayOK
  BY DEF PipeInv
<1>2. /\ chunks' = <<FirstPart(Pipe!Chunk, half), SecondPart(Pipe!Chunk, half)>> \o Tail(chunks) /\ m > 1
      /\ UNCHANGED <<called, stage, state, slots, results, rejected, outcome, sends>>
  BY DEF Pipe!Halve, FirstPart, SecondPart
<1>3. Length' = Length /\ Pipe!Pending' = Pipe!Pending
  BY <1>2 DEF Length, Pipe!Pending
<1>4. Pipe!Chunk = chunks[1] /\ m \in Nat \ {0} /\ Length \in Nat /\ Len(results) \in Nat
  BY <1>1, ItemsAre, PlacesAre DEF UnderWayOK
<1>5. half \in Nat \ {0} /\ half < m
  <2> HIDE DEF m
  <2> QED BY <1>2, <1>4
<1>6. /\ Tiled(chunks', Len(results), Length) /\ chunks' # <<>>
      /\ \A k \in DOMAIN chunks' : \/ chunks'[k].collects
                                   \/ k - 1 \in DOMAIN chunks /\ k > 2 /\ chunks'[k] = chunks[k - 1]
  <2> HIDE DEF half
  <2>1. half < Len(chunks[1].items) /\ Tiled(chunks, Len(results), Length)
    BY <1>1, <1>4, <1>5 DEF UnderWayOK
  <2>2. chunks' = Halved(chunks, half)
    BY <1>2, <1>4 DEF Halved
  <2> QED BY <1>4, <1>5, <2>1, <2>2, HalvesTile
<1>7. CollectsOK'
  <2>1. ASSUME NEW k \in DOMAIN chunks', ~chunks'[k].collects PROVE FALSE
    <3>1. k - 1 \in DOMAIN chunks /\ k > 2 /\ ~chunks[k - 1].collects
      BY <1>6, <2>1
    <3>2. Len(chunks) = 1
      BY <1>1, <3>1 DEF UnderWayOK, CollectsOK
    <3>3. DOMAIN chunks = 1..Len(chunks) /\ Len(chunks) \in Nat
      <4> DEFINE Shape == [items : Seq(1..Length), collects : BOOLEAN]
      <4>1. chunks \in Seq(Shape)
        BY <1>1 DEF UnderWayOK, Tiled
      <4> HIDE DEF Shape
      <4> QED BY <4>1, SequenceIs
    <3> QED BY <3>1, <3>2, <3>3
  <2> QED BY <1>2, <2>1 DEF CollectsOK
<1>8. PipeTypeOK'
  BY <1>1, <1>2, <1>3 DEF PipeTypeOK
<1>9. PlacesOK'
  BY <1>1, <1>2, <1>3, <1>6 DEF UnderWayOK, PlacesOK
<1>10. WaitersOK' /\ OrderOK'
  BY <1>1, <1>2, <1>3 DEF UnderWayOK, WaitersOK, OrderOK
<1> QED BY <1>2, <1>3, <1>6, <1>7, <1>8, <1>9, <1>10 DEF PipeInv, UnderWayOK

\* A frame is written.
LEMMA PipeWritesFrame == PipeInv /\ Pipe!WriteFrame => PipeInv'
<1> SUFFICES ASSUME PipeInv, Pipe!WriteFrame PROVE PipeInv'
  OBVIOUS
<1>1. /\ stage = "frame" /\ outcome = Pipe!Pending /\ \A i \in Pipe!Items : state[i] = "queued"
      /\ UNCHANGED <<called, chunks, stage, slots, results, rejected, outcome>>
  BY DEF Pipe!WriteFrame
<1>2. PipeTypeOK /\ UnderWayOK /\ chunks # <<>>
  BY <1>1 DEF PipeInv, UnderWayOK, PlacesOK
<1>3. /\ state' = [i \in 1..Length |-> IF i \in Pipe!Items THEN "sent" ELSE state[i]]
      /\ sends' = [i \in 1..Length |-> IF i \in Pipe!Items THEN sends[i] + 1 ELSE sends[i]]
  BY <1>2, PipelineIs DEF PipeTypeOK, Pipe!WriteFrame
<1>4. /\ Length' = Length /\ Pipe!Items' = Pipe!Items /\ Pipe!Pending' = Pipe!Pending
  BY <1>1 DEF Length, Pipe!Items, Pipe!Chunk, Pipe!Range, Pipe!Pending
<1>5. /\ Length \in Nat \ {0} /\ Len(results) \in Nat /\ Len(results) <= Length
      /\ Pipe!Items = (Len(results) + 1)..(Len(results) + Len(Pipe!Chunk.items))
      /\ Len(Pipe!Chunk.items) \in Nat /\ Len(results) + Len(Pipe!Chunk.items) <= Length
  BY <1>1, <1>2, ItemsAre, PlacesAre DEF UnderWayOK
<1>6. \A i \in Pipe!Items : i \in 1..Length /\ ~(i <= Len(results)) /\ sends[i] = 0
  <2>1. \A i \in Pipe!Items : i \in 1..Length /\ ~(i <= Len(results))
    BY <1>5
  <2> QED BY <1>1, <1>2, <2>1 DEF UnderWayOK, PlacesOK
<1>7. PipeTypeOK'
  <2>1. state' \in [1..Length -> PipeStates]
    BY <1>2, <1>3 DEF PipeTypeOK, PipeStates
  <2>2. sends' \in [1..Length -> 0..1]
    <3> SUFFICES ASSUME NEW i \in 1..Length
                 PROVE  (IF i \in Pipe!Items THEN sends[i] + 1 ELSE sends[i]) \in 0..1
      BY <1>3
    <3>1. sends[i] \in 0..1
      BY <1>2 DEF PipeTypeOK
    <3> QED BY <1>6, <3>1
  <2> QED BY <1>1, <1>2, <1>4, <2>1, <2>2 DEF PipeTypeOK
<1>8. Tiled(chunks', Len(results'), Length) /\ CollectsOK'
  BY <1>1, <1>2, <1>4 DEF UnderWayOK, CollectsOK
<1>9. PlacesOK'
  <2>1. \A i \in 1..Len(results) : state'[i] = results[i]
    <3> SUFFICES ASSUME NEW i \in 1..Len(results) PROVE state'[i] = results[i]
      OBVIOUS
    <3>1. i \in 1..Length /\ i <= Len(results)
      BY <1>5
    <3> QED BY <1>2, <1>3, <1>6, <3>1 DEF UnderWayOK, PlacesOK
  <2>2. \A i \in (Len(results) + 1)..Length : i \notin Pipe!Items => state'[i] = "idle"
    <3> SUFFICES ASSUME NEW i \in (Len(results) + 1)..Length, i \notin Pipe!Items PROVE state'[i] = "idle"
      OBVIOUS
    <3>1. i \in 1..Length
      BY <1>5
    <3> QED BY <1>2, <1>3, <3>1 DEF UnderWayOK, PlacesOK
  <2>3. \A i \in 1..Length : state'[i] \in {"idle", "waiting", "queued"} => sends'[i] = 0
    BY <1>2, <1>3 DEF UnderWayOK, PlacesOK
  <2>4. \A i \in Pipe!Items : state'[i] = "sent"
    BY <1>3, <1>6
  <2>5. \A i \in 1..Length : state'[i] # "lost"
    BY <1>2, <1>3 DEF UnderWayOK, PlacesOK
  <2> QED BY <1>1, <1>2, <1>4, <1>5, <2>1, <2>2, <2>3, <2>4, <2>5 DEF PlacesOK
<1>10. WaitersOK' /\ OrderOK'
  <2>1. \A i \in 1..Length : state'[i] = "waiting" <=> state[i] = "waiting"
    BY <1>1, <1>3, <1>6
  <2> QED BY <1>1, <1>2, <1>4, <2>1 DEF UnderWayOK, WaitersOK, OrderOK
<1> QED BY <1>1, <1>4, <1>7, <1>8, <1>9, <1>10 DEF PipeInv, UnderWayOK

LEMMA PipeFrameAnswered == PipeInv /\ Pipe!FrameAnswered => PipeInv'
<1> SUFFICES ASSUME PipeInv, Pipe!FrameAnswered PROVE PipeInv'
  OBVIOUS
<1>1. /\ stage = "frame" /\ outcome = Pipe!Pending /\ \A i \in Pipe!Items : state[i] = "sent"
      /\ called' = called /\ slots' = slots /\ sends' = sends
  BY DEF Pipe!FrameAnswered
<1>2. PipeTypeOK /\ UnderWayOK /\ chunks # <<>>
  BY <1>1 DEF PipeInv, UnderWayOK, PlacesOK
<1>3. PICK reply \in [Pipe!Items -> {"ok", "error"}] :
         Pipe!TakeResults([i \in Pipe!Indices |-> IF i \in Pipe!Items THEN reply[i] ELSE state[i]])
  BY DEF Pipe!FrameAnswered
<1> DEFINE s == [i \in Pipe!Indices |-> IF i \in Pipe!Items THEN reply[i] ELSE state[i]]
<1>4. Pipe!Indices = 1..Length
  BY <1>2, PipelineIs DEF PipeTypeOK
<1>5. s \in [1..Length -> PipeStates] /\ \A i \in 1..Length : i \notin Pipe!Items => s[i] = state[i]
  <2>1. ASSUME NEW i \in 1..Length PROVE (IF i \in Pipe!Items THEN reply[i] ELSE state[i]) \in PipeStates
    BY <1>2 DEF PipeTypeOK, PipeStates
  <2> QED BY <1>4, <2>1
<1>6. \A i \in Pipe!Items : i \in 1..Length
  BY <1>2, ItemsAre, PlacesAre, <1>1 DEF UnderWayOK
<1>7. \A i \in Pipe!Items : s[i] \in {"ok", "error"} /\ state[i] # "waiting"
  BY <1>1, <1>4, <1>6
<1>8. Pipe!TakeResults(s)
  BY <1>3
<1> HIDE DEF s
<1>9. stage # "next"
  BY <1>1
<1> QED BY <1>1, <1>5, <1>7, <1>8, <1>9, TakeKept

LEMMA PipeFrameFails == PipeInv /\ Pipe!FrameFails => PipeInv'
<1> SUFFICES ASSUME PipeInv, Pipe!FrameFails PROVE PipeInv'
  OBVIOUS
<1>1. /\ stage = "frame" /\ outcome = Pipe!Pending
      /\ outcome' \in {Pipe!Rejected("unsent"), Pipe!Rejected("none"), Pipe!Rejected("possibly_sent")}
      /\ UNCHANGED <<called, chunks, stage, slots, results, rejected, sends>>
  BY DEF Pipe!FrameFails
<1>2. state' = [i \in 1..Length |-> IF i \in Pipe!Items THEN "lost" ELSE state[i]]
  BY PipelineIs DEF PipeInv, PipeTypeOK, Pipe!FrameFails
<1>3. state' \in [1..Length -> PipeStates]
  BY <1>2 DEF PipeInv, PipeTypeOK, PipeStates
<1>4. \A i \in 1..Length : state'[i] \notin {"waiting", "queued", "sent"}
  BY <1>1, <1>2, PlacesAre
<1> QED BY <1>1, <1>3, <1>4, EndKept

LEMMA PipeBegins == PipeInv /\ (Pipe!Begin \/ Pipe!BeginFused) => PipeInv'
<1> SUFFICES ASSUME PipeInv, Pipe!Begin \/ Pipe!BeginFused PROVE PipeInv'
  OBVIOUS
<1>1. outcome = Pipe!Pending /\ stage = "next" /\ chunks # <<>>
  BY DEF Pipe!Begin, Pipe!BeginFused
<1>2. CASE Pipe!Begin
  <2>1. ~called.fused
    BY <1>2 DEF Pipe!Begin
  <2>2. Pipe!SendFrame \/ Pipe!Refuse \/ Pipe!Halve \/ Pipe!BeginIndividually
    BY <1>2 DEF Pipe!Begin
  <2> QED BY <1>1, <2>1, <2>2, PipeSends, PipeRefuses, PipeHalves, PipeIndividually
<1>3. CASE Pipe!BeginFused
  <2>1. PipeTypeOK /\ UnderWayOK /\ called.fused
    BY <1>1, <1>3 DEF PipeInv, Pipe!BeginFused
  <2>2. CASE /\ outcome' = Pipe!NotAttempted
             /\ UNCHANGED <<called, chunks, stage, state, slots, results, rejected, sends>>
    <3>1. results = <<>>
      BY <1>1, <2>1 DEF UnderWayOK, CollectsOK
    <3>2. \A i \in 1..Length : state[i] = "idle"
      BY <1>1, <3>1, PlacesAre
    <3>3. \A i \in 1..Length : sends[i] = 0
      BY <2>1, <3>2 DEF UnderWayOK, PlacesOK
    <3>4. state' \in [1..Length -> PipeStates]
      BY <2>1, <2>2 DEF PipeTypeOK
    <3> QED BY <1>1, <2>2, <3>2, <3>3, <3>4, EndKept
  <2>3. CASE ~(called.maxCommands < Length) /\ (Pipe!SendFrame \/ Pipe!Refuse)
    <3>1. Length <= called.maxCommands
      BY <2>1, <2>3, PipelineIs DEF PipeTypeOK
    <3> QED BY <1>1, <2>3, <3>1, PipeSends, PipeRefuses
  <2> QED BY <1>3, <2>2, <2>3 DEF Pipe!BeginFused, Length
<1> QED BY <1>2, <1>3

LEMMA AppendIs ==
    ASSUME NEW S, NEW q \in Seq(S), NEW e \in S
    PROVE  /\ Append(q, e) \in Seq(S) /\ DOMAIN Append(q, e) = 1..(Len(q) + 1)
           /\ Append(q, e)[Len(q) + 1] = e
           /\ \A k \in 1..Len(q) : Append(q, e)[k] = q[k]
OBVIOUS

LEMMA TailIs ==
    ASSUME NEW S, NEW q \in Seq(S), q # <<>>
    PROVE  /\ Len(q) \in Nat \ {0} /\ Head(q) = q[1] /\ q[1] \in S
           /\ Tail(q) \in Seq(S) /\ DOMAIN Tail(q) = 1..(Len(q) - 1) /\ DOMAIN q = 1..Len(q)
           /\ \A k \in 1..(Len(q) - 1) : Tail(q)[k] = q[k + 1]
OBVIOUS

\* A step of a command that is executed by itself.
LEMMA StepKept ==
    ASSUME PipeInv, outcome = Pipe!Pending, stage = "individually",
           UNCHANGED <<called, chunks, stage, results, rejected, outcome>>,
           state' \in [1..Length -> PipeStates], sends' \in [1..Length -> 0..1], slots' \in Seq(1..Length),
           \A i \in 1..Length : i \notin Pipe!Items => state'[i] = state[i],
           \A i \in 1..Length : state'[i] \in {"idle", "waiting", "queued"} => sends'[i] = 0,
           \A i \in 1..Length : state'[i] # "lost",
           WaitersOK', OrderOK'
    PROVE  PipeInv'
<1>1. PipeTypeOK /\ UnderWayOK /\ chunks # <<>>
  BY DEF PipeInv, UnderWayOK, PlacesOK
<1>2. Length' = Length /\ Pipe!Items' = Pipe!Items /\ Pipe!Pending' = Pipe!Pending
  BY DEF Length, Pipe!Items, Pipe!Chunk, Pipe!Range, Pipe!Pending
<1>3. /\ Length \in Nat \ {0} /\ Len(results) \in Nat /\ Len(results) <= Length
      /\ Pipe!Items = (Len(results) + 1)..(Len(results) + Len(Pipe!Chunk.items))
  BY <1>1, ItemsAre, PlacesAre DEF UnderWayOK
<1>4. PipeTypeOK'
  BY <1>1, <1>2 DEF PipeTypeOK
<1>5. Tiled(chunks', Len(results'), Length) /\ CollectsOK'
  BY <1>1, <1>2 DEF UnderWayOK, CollectsOK
<1>6. \A i \in 1..Len(results) : state'[i] = results[i]
  <2> SUFFICES ASSUME NEW i \in 1..Len(results) PROVE state'[i] = results[i]
    OBVIOUS
  <2>1. i \in 1..Length /\ i \notin Pipe!Items
    BY <1>3
  <2> QED BY <1>1, <2>1 DEF UnderWayOK, PlacesOK
<1>7. \A i \in (Len(results) + 1)..Length : i \notin Pipe!Items => state'[i] = "idle"
  <2> SUFFICES ASSUME NEW i \in (Len(results) + 1)..Length, i \notin Pipe!Items PROVE state'[i] = "idle"
    OBVIOUS
  <2>1. i \in 1..Length
    BY <1>3
  <2> QED BY <1>1, <2>1 DEF UnderWayOK, PlacesOK
<1>8. PlacesOK'
  BY <1>1, <1>2, <1>3, <1>6, <1>7 DEF PlacesOK
<1> QED BY <1>2, <1>4, <1>5, <1>8 DEF PipeInv, UnderWayOK

\* The numbers of NativePipeline's own instance of FiniteSets.
LEMMA PipeCounts == Pipe!Cardinality(Pipe!Active) = Cardinality(Pipe!Active)
BY DEF Cardinality, Pipe!Cardinality

LEMMA PipeStarts == ASSUME PipeInv, NEW c \in Pipe!Indices, Pipe!Start(c) PROVE PipeInv'
<1>1. /\ stage = "individually" /\ outcome = Pipe!Pending /\ c \in Pipe!Items /\ state[c] = "idle" /\ Pipe!MayStart(c)
      /\ UNCHANGED <<called, chunks, stage, results, rejected, outcome, sends>>
  BY DEF Pipe!Start
<1>2. PipeTypeOK /\ UnderWayOK
  BY <1>1 DEF PipeInv
<1>3. /\ Length \in Nat \ {0} /\ Len(results) \in Nat /\ c \in 1..Length
      /\ \A i \in 1..Length : i <= Len(results) => state[i] \in {"ok", "error"}
      /\ \A i \in 1..Length : i > Len(results) /\ i \notin Pipe!Items => state[i] = "idle"
  BY <1>1, <1>2, PlacesAre, PipelineIs DEF PipeTypeOK
<1>4. Length' = Length /\ Pipe!Items' = Pipe!Items /\ (Pipe!Ordered' <=> Pipe!Ordered)
  BY <1>1 DEF Length, Pipe!Items, Pipe!Chunk, Pipe!Range, Pipe!Ordered, Pipe!Kinds
<1>5. \A i \in Pipe!Items : i \in 1..Length /\ i > Len(results)
      /\ \A j \in 1..Length : Len(results) < j /\ j < i => j \in Pipe!Items
  <2>1. /\ Pipe!Items = (Len(results) + 1)..(Len(results) + Len(Pipe!Chunk.items))
        /\ Len(Pipe!Chunk.items) \in Nat /\ Len(results) + Len(Pipe!Chunk.items) <= Length
    BY <1>1, <1>2, ItemsAre DEF UnderWayOK, PlacesOK
  <2> QED BY <1>3, <2>1
<1>6. IsFiniteSet(Pipe!Active) /\ Cardinality(Pipe!Active) \in Nat
  <2>1. IsFiniteSet(1..Length) /\ Pipe!Active \subseteq 1..Length
    BY <1>2, <1>3, FS_Interval, PipelineIs DEF PipeTypeOK, Pipe!Active
  <2> QED BY <2>1, FS_Subset, FS_CardinalityType
<1>7. Pipe!Ordered => Cardinality(Pipe!Active) < Pipe!FallbackConcurrency /\ Pipe!FallbackConcurrency = 1
  <2>1. Pipe!Ordered => Pipe!FallbackConcurrency = 1
    BY DEF Pipe!FallbackConcurrency
  <2>2. Pipe!Ordered => Cardinality(Pipe!Active) < Pipe!FallbackConcurrency
    BY <1>1, PipeCounts DEF Pipe!MayStart
  <2> QED BY <2>1, <2>2
<1>8. ASSUME NEW i \in 1..Length, i < c, Pipe!Ordered \/ <<i, c>> \in called.dependencies
      PROVE  state[i] \in Pipe!Settled
  <2>1. CASE i <= Len(results)
    BY <1>3, <2>1 DEF Pipe!Settled
  <2>2. CASE i > Len(results)
    <3>1. i \in Pipe!Items
      BY <1>1, <1>3, <1>5, <1>8, <2>2
    <3>2. CASE Pipe!Ordered
      <4>1. state[i] # "idle"
        BY <1>1, <1>8, <3>1, <3>2 DEF Pipe!MayStart
      <4>2. Pipe!Active = {}
        <5>1. Cardinality(Pipe!Active) = 0
          BY <1>6, <1>7, <3>2
        <5> QED BY <1>6, <5>1, FS_EmptySet
      <4>3. state[i] \notin {"queued", "sent"}
        BY <1>2, <4>2, PipelineIs DEF PipeTypeOK, Pipe!Active
      <4>4. state[i] # "waiting"
        <5>1. slots = <<>>
          BY <1>1, <1>2, <3>2 DEF UnderWayOK, OrderOK
        <5> QED BY <1>2, <5>1 DEF UnderWayOK, WaitersOK
      <4> QED BY <1>2, <4>1, <4>3, <4>4 DEF PipeTypeOK, PipeStates, Pipe!Settled
    <3>3. CASE ~Pipe!Ordered
      <4>1. <<i, c>> \in called.dependencies
        BY <1>8, <3>3
      <4> QED BY <1>1, <1>8, <3>1, <3>3, <4>1 DEF Pipe!MayStart
    <3> QED BY <3>2, <3>3
  <2> QED BY <1>3, <2>1, <2>2
<1>9. PICK now \in {"queued", "waiting"} :
         /\ state' = [state EXCEPT ![c] = now]
         /\ now = "queued" => slots' = slots
         /\ now = "waiting" => slots' = Append(slots, c) /\ ~Pipe!Ordered
  <2>1. CASE Cardinality(Pipe!Active) < Pipe!FallbackConcurrency
    <3>1. state' = [state EXCEPT ![c] = "queued"] /\ slots' = slots
      BY <2>1, PipeCounts DEF Pipe!Start
    <3> WITNESS "queued" \in {"queued", "waiting"}
    <3> QED BY <3>1
  <2>2. CASE ~(Cardinality(Pipe!Active) < Pipe!FallbackConcurrency)
    <3>1. state' = [state EXCEPT ![c] = "waiting"] /\ slots' = Append(slots, c)
      BY <2>2, PipeCounts DEF Pipe!Start
    <3>2. ~Pipe!Ordered
      BY <1>7, <2>2
    <3> WITNESS "waiting" \in {"queued", "waiting"}
    <3> QED BY <3>1, <3>2
  <2> QED BY <2>1, <2>2
<1>10. /\ state' \in [1..Length -> PipeStates] /\ state'[c] = now
       /\ \A i \in 1..Length : i # c => state'[i] = state[i]
  BY <1>2, <1>3, <1>9 DEF PipeTypeOK, PipeStates
<1>11. slots \in Seq(1..Length)
  BY <1>2 DEF PipeTypeOK
<1>12. /\ slots' \in Seq(1..Length)
       /\ now = "waiting" =>
             /\ DOMAIN slots' = 1..(Len(slots) + 1) /\ slots'[Len(slots) + 1] = c
             /\ \A k \in 1..Len(slots) : slots'[k] = slots[k]
       /\ DOMAIN slots = 1..Len(slots) /\ Len(slots) \in Nat
  <2>1. DOMAIN slots = 1..Len(slots) /\ Len(slots) \in Nat
    BY <1>11, SequenceIs
  <2>2. /\ Append(slots, c) \in Seq(1..Length) /\ DOMAIN Append(slots, c) = 1..(Len(slots) + 1)
        /\ Append(slots, c)[Len(slots) + 1] = c
        /\ \A k \in 1..Len(slots) : Append(slots, c)[k] = slots[k]
    BY <1>3, <1>11, AppendIs
  <2>3. CASE now = "queued"
    BY <1>9, <1>11, <2>1, <2>3
  <2>4. CASE now = "waiting"
    BY <1>9, <2>1, <2>2, <2>4
  <2> QED BY <2>3, <2>4
<1>13. \A k \in DOMAIN slots : slots[k] # c
  BY <1>1, <1>2, <1>3 DEF UnderWayOK, WaitersOK
<1>14. WaitersOK'
  <2>1. CASE now = "queued"
    BY <1>1, <1>2, <1>4, <1>9, <1>10, <2>1 DEF UnderWayOK, WaitersOK
  <2>2. CASE now = "waiting"
    <3>1. ASSUME NEW i \in 1..Length PROVE state'[i] = "waiting" <=> \E k \in DOMAIN slots' : slots'[k] = i
      <4>1. CASE i = c
        <5>1. Len(slots) + 1 \in DOMAIN slots'
          BY <1>12, <2>2
        <5> QED BY <1>10, <1>12, <2>2, <4>1, <5>1
      <4>2. CASE i # c
        <5>1. state[i] = "waiting" <=> \E k \in DOMAIN slots : slots[k] = i
          BY <1>2 DEF UnderWayOK, WaitersOK
        <5>2. (\E k \in DOMAIN slots' : slots'[k] = i) <=> \E k \in DOMAIN slots : slots[k] = i
          <6>1. \A k \in DOMAIN slots' : k \in 1..Len(slots) \/ k = Len(slots) + 1
            BY <1>12, <2>2
          <6>2. \A k \in 1..Len(slots) : k \in DOMAIN slots'
            BY <1>12, <2>2
          <6> QED BY <1>12, <2>2, <4>2, <6>1, <6>2
        <5> QED BY <1>10, <4>2, <5>1, <5>2
      <4> QED BY <4>1, <4>2
    <3>2. ASSUME NEW k \in DOMAIN slots', NEW l \in DOMAIN slots', slots'[k] = slots'[l] PROVE k = l
      <4>1. (k \in 1..Len(slots) \/ k = Len(slots) + 1) /\ (l \in 1..Len(slots) \/ l = Len(slots) + 1)
        BY <1>12, <2>2
      <4>2. CASE k \in 1..Len(slots) /\ l \in 1..Len(slots)
        BY <1>2, <1>12, <2>2, <3>2, <4>2 DEF UnderWayOK, WaitersOK
      <4>3. CASE ~(k \in 1..Len(slots) /\ l \in 1..Len(slots))
        BY <1>12, <1>13, <2>2, <3>2, <4>1, <4>3
      <4> QED BY <4>2, <4>3
    <3> QED BY <1>4, <3>1, <3>2 DEF WaitersOK
  <2> QED BY <2>1, <2>2
<1>15. OrderOK'
  <2>1. Pipe!Ordered => slots' = <<>>
    BY <1>1, <1>2, <1>9 DEF UnderWayOK, OrderOK
  <2>2. ASSUME NEW i \in 1..Length, NEW j \in 1..Length, i < j,
               Pipe!Ordered \/ <<i, j>> \in called.dependencies, state'[j] # "idle"
        PROVE  state'[i] \in Pipe!Settled
    <3>1. state[i] \in Pipe!Settled
      <4>1. CASE j = c
        BY <1>8, <2>2, <4>1
      <4>2. CASE j # c
        BY <1>1, <1>2, <1>10, <2>2, <4>2 DEF UnderWayOK, OrderOK
      <4> QED BY <4>1, <4>2
    <3>2. i # c
      BY <1>1, <3>1 DEF Pipe!Settled
    <3> QED BY <1>10, <3>1, <3>2
  <2>3. Pipe!Settled' = Pipe!Settled
    BY DEF Pipe!Settled
  <2> QED BY <1>1, <1>4, <2>1, <2>2, <2>3 DEF OrderOK
<1>16. \A i \in 1..Length : state'[i] \in {"idle", "waiting", "queued"} => sends[i] = 0
  BY <1>1, <1>2, <1>10 DEF UnderWayOK, PlacesOK
<1>17. \A i \in 1..Length : state'[i] # "lost"
  BY <1>2, <1>10 DEF UnderWayOK, PlacesOK
<1>18. sends' = sends /\ sends \in [1..Length -> 0..1]
  BY <1>1, <1>2 DEF PipeTypeOK
<1>19. \A i \in 1..Length : i \notin Pipe!Items => state'[i] = state[i]
  BY <1>1, <1>10
<1>20. UNCHANGED <<called, chunks, stage, results, rejected, outcome>>
  BY <1>1
<1> QED BY <1>1, <1>10, <1>12, <1>14, <1>15, <1>16, <1>17, <1>18, <1>19, <1>20, StepKept

LEMMA PipeWrites == ASSUME PipeInv, NEW c \in Pipe!Indices, Pipe!Write(c) PROVE PipeInv'
<1>1. /\ stage = "individually" /\ outcome = Pipe!Pending /\ c \in Pipe!Items /\ state[c] = "queued"
      /\ state' = [state EXCEPT ![c] = "sent"] /\ sends' = [sends EXCEPT ![c] = @ + 1] /\ slots' = slots
  BY DEF Pipe!Write
<1>2. UNCHANGED <<called, chunks, stage, results, rejected, outcome>>
  BY DEF Pipe!Write
<1>3. PipeTypeOK /\ UnderWayOK /\ c \in 1..Length
  BY <1>1, PipelineIs DEF PipeInv, PipeTypeOK
<1>4. Length' = Length /\ (Pipe!Ordered' <=> Pipe!Ordered) /\ Pipe!Settled' = Pipe!Settled
  BY <1>2 DEF Length, Pipe!Items, Pipe!Chunk, Pipe!Range, Pipe!Ordered, Pipe!Kinds, Pipe!Settled
<1>5. /\ state' \in [1..Length -> PipeStates] /\ state'[c] = "sent"
      /\ \A i \in 1..Length : i # c => state'[i] = state[i]
  BY <1>1, <1>3 DEF PipeTypeOK, PipeStates
<1>6. sends[c] = 0
  BY <1>1, <1>3 DEF UnderWayOK, PlacesOK
<1>7. sends' \in [1..Length -> 0..1] /\ \A i \in 1..Length : i # c => sends'[i] = sends[i]
  BY <1>1, <1>3, <1>6 DEF PipeTypeOK
<1>8. \A i \in 1..Length : state'[i] \in {"idle", "waiting", "queued"} => sends'[i] = 0
  BY <1>3, <1>5, <1>7 DEF UnderWayOK, PlacesOK
<1>9. \A i \in 1..Length : state'[i] # "lost"
  BY <1>3, <1>5 DEF UnderWayOK, PlacesOK
<1>10. WaitersOK'
  <2>1. \A i \in 1..Length : state'[i] = "waiting" <=> state[i] = "waiting"
    BY <1>1, <1>5
  <2> QED BY <1>1, <1>3, <1>4, <2>1 DEF UnderWayOK, WaitersOK
<1>11. OrderOK'
  <2>1. \A i \in 1..Length : /\ state'[i] # "idle" <=> state[i] # "idle"
                             /\ state[i] \in Pipe!Settled => state'[i] \in Pipe!Settled
    BY <1>1, <1>5 DEF Pipe!Settled
  <2> QED BY <1>1, <1>2, <1>3, <1>4, <2>1 DEF UnderWayOK, OrderOK
<1>12. \A i \in 1..Length : i \notin Pipe!Items => state'[i] = state[i]
  BY <1>1, <1>5
<1>13. slots' \in Seq(1..Length)
  BY <1>1, <1>3 DEF PipeTypeOK
<1> QED BY <1>1, <1>2, <1>5, <1>7, <1>8, <1>9, <1>10, <1>11, <1>12, <1>13, StepKept

LEMMA PipeSettles == ASSUME PipeInv, NEW c \in Pipe!Indices, Pipe!Settle(c) PROVE PipeInv'
<1>1. stage = "individually" /\ outcome = Pipe!Pending /\ c \in Pipe!Items
  BY DEF Pipe!Settle
<1>2. UNCHANGED <<called, chunks, stage, results, rejected, outcome, sends>>
  BY DEF Pipe!Settle
<1>3. PICK s \in {"ok", "error"} :
         /\ state[c] = "sent" \/ (state[c] = "queued" /\ s = "error")
         /\ state' = [j \in Pipe!Indices |-> IF j = c THEN s
                                            ELSE IF slots # <<>> /\ j = Head(slots) THEN "queued" ELSE state[j]]
         /\ slots' = IF slots = <<>> THEN <<>> ELSE Tail(slots)
  BY DEF Pipe!Settle
<1>4. PipeTypeOK /\ UnderWayOK /\ c \in 1..Length /\ Pipe!Indices = 1..Length
  BY <1>1, PipelineIs DEF PipeInv, PipeTypeOK
<1>5. /\ Length' = Length /\ (Pipe!Ordered' <=> Pipe!Ordered) /\ Pipe!Settled' = Pipe!Settled
      /\ Pipe!Settled = {"ok", "error", "lost"}
  BY <1>2 DEF Length, Pipe!Items, Pipe!Chunk, Pipe!Range, Pipe!Ordered, Pipe!Kinds, Pipe!Settled
<1>6. slots \in Seq(1..Length)
  BY <1>4 DEF PipeTypeOK
<1>7. /\ state' \in [1..Length -> PipeStates] /\ state'[c] = s
      /\ \A i \in 1..Length : i # c /\ (slots = <<>> \/ i # Head(slots)) => state'[i] = state[i]
      /\ slots # <<>> => \A i \in 1..Length : i # c /\ i = Head(slots) => state'[i] = "queued"
  BY <1>3, <1>4 DEF PipeTypeOK, PipeStates
<1>8. slots # <<>> =>
         /\ Head(slots) = slots[1] /\ slots[1] \in 1..Length /\ 1 \in DOMAIN slots
         /\ state[slots[1]] = "waiting" /\ slots[1] # c
  <2> SUFFICES ASSUME slots # <<>>
               PROVE  /\ Head(slots) = slots[1] /\ slots[1] \in 1..Length /\ 1 \in DOMAIN slots
                      /\ state[slots[1]] = "waiting" /\ slots[1] # c
    OBVIOUS
  <2>1. Head(slots) = slots[1] /\ slots[1] \in 1..Length /\ Len(slots) \in Nat \ {0} /\ DOMAIN slots = 1..Len(slots)
    BY <1>6, TailIs
  <2>2. 1 \in DOMAIN slots
    BY <2>1
  <2>3. state[slots[1]] = "waiting"
    BY <1>4, <2>1, <2>2 DEF UnderWayOK, WaitersOK
  <2> QED BY <1>3, <2>1, <2>2, <2>3
<1>9. \A i \in 1..Length : i \notin Pipe!Items => state'[i] = state[i]
  <2>1. slots # <<>> => slots[1] \in Pipe!Items
    BY <1>1, <1>8, PlacesAre
  <2> QED BY <1>1, <1>7, <1>8, <2>1
<1>10. slots' \in Seq(1..Length)
  <2>1. CASE slots = <<>>
    BY <1>3, <1>6, <2>1
  <2>2. CASE slots # <<>>
    BY <1>3, <1>6, <2>2, TailIs
  <2> QED BY <2>1, <2>2
<1>11. ASSUME NEW i \in 1..Length
       PROVE  /\ state'[i] # "lost"
              /\ state'[i] # "idle" <=> state[i] # "idle"
              /\ state[i] \in Pipe!Settled => state'[i] \in Pipe!Settled
              /\ state'[i] \in {"idle", "waiting", "queued"} => sends[i] = 0
              /\ state'[i] = "waiting" <=> state[i] = "waiting" /\ (slots = <<>> \/ i # slots[1])
  <2>1. state[i] # "lost" /\ (state[i] \in {"idle", "waiting", "queued"} => sends[i] = 0)
    BY <1>4 DEF UnderWayOK, PlacesOK
  <2>2. CASE i = c
    BY <1>3, <1>5, <1>7, <2>1, <2>2
  <2>3. CASE i # c /\ slots # <<>> /\ i = slots[1]
    <3>1. state[i] = "waiting" /\ state'[i] = "queued"
      BY <1>7, <1>8, <2>3
    <3> QED BY <1>5, <2>1, <2>3, <3>1
  <2>4. CASE i # c /\ ~(slots # <<>> /\ i = slots[1])
    <3>1. state'[i] = state[i]
      BY <1>7, <1>8, <2>4
    <3> QED BY <2>1, <2>4, <3>1
  <2> QED BY <2>2, <2>3, <2>4
<1>12. WaitersOK'
  <2>1. CASE slots = <<>>
    BY <1>3, <1>4, <1>5, <1>11, <2>1 DEF UnderWayOK, WaitersOK
  <2>2. CASE slots # <<>>
    <3>1. /\ Len(slots) \in Nat \ {0} /\ slots' = Tail(slots) /\ DOMAIN slots' = 1..(Len(slots) - 1)
          /\ DOMAIN slots = 1..Len(slots) /\ \A k \in 1..(Len(slots) - 1) : slots'[k] = slots[k + 1]
      BY <1>3, <1>6, <2>2, TailIs
    <3>2. \A k, l \in DOMAIN slots : slots[k] = slots[l] => k = l
      BY <1>4 DEF UnderWayOK, WaitersOK
    <3>3. ASSUME NEW i \in 1..Length PROVE state'[i] = "waiting" <=> \E k \in DOMAIN slots' : slots'[k] = i
      <4>1. state[i] = "waiting" <=> \E k \in DOMAIN slots : slots[k] = i
        BY <1>4 DEF UnderWayOK, WaitersOK
      <4>2. ASSUME NEW k \in DOMAIN slots, slots[k] = i, i # slots[1] PROVE \E l \in DOMAIN slots' : slots'[l] = i
        <5>1. k - 1 \in 1..(Len(slots) - 1) /\ (k - 1) + 1 = k
          BY <3>1, <4>2
        <5> QED BY <3>1, <4>2, <5>1
      <4>3. ASSUME NEW k \in DOMAIN slots', slots'[k] = i
            PROVE  i # slots[1] /\ \E l \in DOMAIN slots : slots[l] = i
        <5>1. k + 1 \in DOMAIN slots /\ 1 \in DOMAIN slots /\ k + 1 # 1 /\ slots[k + 1] = i
          BY <3>1, <4>3
        <5> QED BY <3>2, <5>1
      <4> QED BY <1>11, <2>2, <4>1, <4>2, <4>3
    <3>4. ASSUME NEW k \in DOMAIN slots', NEW l \in DOMAIN slots', slots'[k] = slots'[l] PROVE k = l
      <4>1. k + 1 \in DOMAIN slots /\ l + 1 \in DOMAIN slots /\ slots[k + 1] = slots[l + 1] /\ k \in Nat /\ l \in Nat
        BY <3>1, <3>4
      <4>2. k + 1 = l + 1
        BY <3>2, <4>1
      <4> QED BY <4>1, <4>2
    <3> QED BY <1>5, <3>3, <3>4 DEF WaitersOK
  <2> QED BY <2>1, <2>2
<1>13. OrderOK'
  <2>1. Pipe!Ordered => slots' = <<>>
    BY <1>1, <1>3, <1>4 DEF UnderWayOK, OrderOK
  <2> QED BY <1>1, <1>2, <1>4, <1>5, <1>11, <2>1 DEF UnderWayOK, OrderOK
<1>14. sends' \in [1..Length -> 0..1]
  BY <1>2, <1>4 DEF PipeTypeOK
<1>15. \A i \in 1..Length : state'[i] \in {"idle", "waiting", "queued"} => sends'[i] = 0
  BY <1>2, <1>11
<1>16. UNCHANGED <<called, chunks, stage, results, rejected, outcome>>
  BY <1>2
<1> QED BY <1>1, <1>7, <1>9, <1>10, <1>11, <1>12, <1>13, <1>14, <1>15, <1>16, StepKept

LEMMA PipeEndsIndividually == PipeInv /\ Pipe!EndIndividually => PipeInv'
<1> SUFFICES ASSUME PipeInv, Pipe!EndIndividually PROVE PipeInv'
  OBVIOUS
<1>1. /\ outcome = Pipe!Pending /\ stage # "next" /\ Pipe!TakeResults(state)
      /\ \A i \in Pipe!Items : state[i] \in Pipe!Settled
      /\ called' = called /\ slots' = slots /\ sends' = sends
  BY DEF Pipe!EndIndividually
<1>2. PipeTypeOK /\ UnderWayOK /\ state \in [1..Length -> PipeStates] /\ chunks # <<>>
  BY <1>1 DEF PipeInv, PipeTypeOK, UnderWayOK, PlacesOK
<1>3. \A i \in Pipe!Items : i \in 1..Length
  <2>1. /\ Pipe!Items = (Len(results) + 1)..(Len(results) + Len(Pipe!Chunk.items))
        /\ Len(Pipe!Chunk.items) \in Nat /\ Len(results) \in Nat
        /\ Len(results) + Len(Pipe!Chunk.items) <= Length
    BY <1>2, ItemsAre DEF UnderWayOK
  <2>2. Length \in Nat
    BY <1>2, PipelineIs DEF PipeTypeOK
  <2> QED BY <2>1, <2>2
<1>4. \A i \in Pipe!Items : state[i] \in {"ok", "error"} /\ state[i] # "waiting"
  BY <1>1, <1>2, <1>3 DEF UnderWayOK, PlacesOK, Pipe!Settled
<1> QED BY <1>1, <1>2, <1>4, TakeKept

LEMMA PipeFinishes == PipeInv /\ Pipe!Finish => PipeInv'
<1> SUFFICES ASSUME PipeInv, Pipe!Finish PROVE PipeInv'
  OBVIOUS
<1> DEFINE failed == {i \in DOMAIN results : i \in rejected \/ results[i] = "error"}
           first == CHOOSE i \in failed : \A j \in failed : i <= j
<1>1. /\ outcome = Pipe!Pending /\ chunks = <<>>
      /\ outcome' = IF called.throws /\ failed # {} THEN Pipe!ItemError(first) ELSE Pipe!Resolved
      /\ UNCHANGED <<called, chunks, stage, state, slots, results, rejected, sends>>
  BY DEF Pipe!Finish
<1>2. PipeTypeOK /\ UnderWayOK /\ Length' = Length /\ Pipe!Pending' = Pipe!Pending
  BY <1>1 DEF PipeInv, Length, Pipe!Pending
<1>3. /\ Length \in Nat \ {0} /\ Len(results) = Length /\ DOMAIN results = 1..Length
      /\ \A i \in 1..Length : state[i] = results[i] /\ results[i] \in {"ok", "error"}
  <2>1. Length \in Nat \ {0}
    BY <1>2, PipelineIs DEF PipeTypeOK
  <2>2. Len(results) = Length
    BY <1>1, <1>2 DEF UnderWayOK, Tiled
  <2>3. DOMAIN results = 1..Len(results) /\ \A i \in 1..Len(results) : results[i] \in {"ok", "error"}
    <3> DEFINE E == {"ok", "error"}
    <3>1. results \in Seq(E)
      BY <1>2 DEF PipeTypeOK
    <3>2. DOMAIN results = 1..Len(results) /\ \A i \in 1..Len(results) : results[i] \in E
      <4> HIDE DEF E
      <4> QED BY <3>1, SequenceIs
    <3> QED BY <3>2
  <2> QED BY <1>2, <2>1, <2>2, <2>3 DEF UnderWayOK, PlacesOK
<1>4. state \in [1..Length -> PipeStates] /\ \A i \in rejected : i \in 1..Length /\ results[i] = "error"
  BY <1>2, <1>3 DEF PipeTypeOK
<1>5. \A i \in 1..Length : i \in failed <=> results[i] = "error"
  BY <1>3, <1>4
<1>6. failed \subseteq 1..Length
  BY <1>3
<1>7. CASE called.throws /\ failed # {}
  <2>1. first \in failed /\ \A l \in failed : first <= l
    <3>1. failed \subseteq Nat /\ failed # {}
      BY <1>3, <1>6, <1>7
    <3>2. \E k \in failed : \A l \in failed : k <= l
      <4> HIDE DEF failed
      <4> QED BY <3>1, LeastOf
    <3> HIDE DEF failed
    <3> QED BY <3>2
  <2> HIDE DEF first, failed
  <2>2. first \in 1..Length /\ state[first] = "error"
    BY <1>3, <1>5, <1>6, <2>1
  <2>3. \A i \in 1..(first - 1) : state[i] = "ok"
    <3> SUFFICES ASSUME NEW i \in 1..(first - 1), state[i] # "ok" PROVE FALSE
      OBVIOUS
    <3>1. i \in 1..Length /\ i < first
      BY <1>3, <2>2
    <3>2. i \in failed
      BY <1>3, <1>5, <3>1
    <3> QED BY <2>1, <2>2, <3>1, <3>2
  <2>4. outcome' = [kind |-> "rejected", disposition |-> "answered", index |-> first]
    BY <1>1, <1>7, <2>2 DEF Pipe!ItemError, Pipe!Rejected, Pipe!Pending
  <2>5. outcome' \in PipeOutcomes
    BY <1>3, <2>2, <2>4 DEF PipeOutcomes
  <2>6. outcome'.index = first /\ outcome' # Pipe!Pending /\ outcome' # Pipe!Resolved /\ outcome' # Pipe!NotAttempted
    BY <2>4 DEF Pipe!Pending, Pipe!Resolved, Pipe!NotAttempted
  <2>7. PipeTypeOK'
    BY <1>1, <1>2, <2>5 DEF PipeTypeOK
  <2>8. EndedOK'
    <3>1. \A i \in 1..Length : state[i] \notin {"waiting", "queued", "sent"} /\ state[i] \in Pipe!Settled
      BY <1>3 DEF Pipe!Settled
    <3> QED BY <1>1, <1>2, <2>2, <2>3, <2>6, <3>1 DEF EndedOK, Pipe!Settled, Pipe!Resolved, Pipe!NotAttempted,
               Pipe!Pending
  <2> QED BY <1>2, <2>6, <2>7, <2>8 DEF PipeInv
<1>8. CASE ~(called.throws /\ failed # {})
  <2>1. outcome' = [kind |-> "resolved", disposition |-> "none", index |-> 0]
    BY <1>1, <1>8 DEF Pipe!Resolved, Pipe!Pending
  <2>2. called.throws => \A i \in 1..Length : state[i] = "ok"
    <3> SUFFICES ASSUME called.throws, NEW i \in 1..Length PROVE state[i] = "ok"
      OBVIOUS
    <3>1. i \notin failed
      BY <1>8
    <3> HIDE DEF failed
    <3> QED BY <1>3, <1>5, <3>1
  <2>3. results = [i \in 1..Length |-> state[i]]
    <3> DEFINE E == {"ok", "error"}
    <3>1. results \in Seq(E)
      BY <1>2 DEF PipeTypeOK
    <3>2. results \in [1..Length -> E]
      <4> HIDE DEF E
      <4> QED BY <1>3, <3>1
    <3> QED BY <1>3, <3>2
  <2>4. outcome' \in PipeOutcomes /\ outcome'.index = 0 /\ outcome' # Pipe!Pending /\ outcome' # Pipe!NotAttempted
    BY <2>1 DEF PipeOutcomes, Pipe!Pending, Pipe!NotAttempted
  <2>5. PipeTypeOK'
    BY <1>1, <1>2, <2>4 DEF PipeTypeOK
  <2>6. EndedOK'
    <3>1. \A i \in 1..Length : state[i] \notin {"waiting", "queued", "sent"}
      BY <1>3
    <3>2. \A i \in rejected : state[i] = "error"
      BY <1>3, <1>4
    <3> QED BY <1>1, <1>2, <2>2, <2>3, <2>4, <3>1, <3>2 DEF EndedOK, Pipe!Resolved, Pipe!NotAttempted, Pipe!Pending
  <2> QED BY <1>2, <2>4, <2>5, <2>6 DEF PipeInv
<1> QED BY <1>7, <1>8

LEMMA PipeNextInv == PipeInv /\ Pipe!Next => PipeInv'
<1> SUFFICES ASSUME PipeInv, Pipe!Next PROVE PipeInv'
  OBVIOUS
<1>1. CASE Pipe!Begin \/ Pipe!BeginFused
  BY <1>1, PipeBegins
<1>2. CASE Pipe!WriteFrame
  BY <1>2, PipeWritesFrame
<1>3. CASE Pipe!FrameAnswered
  BY <1>3, PipeFrameAnswered
<1>4. CASE Pipe!FrameFails
  BY <1>4, PipeFrameFails
<1>5. CASE \E i \in Pipe!Indices : Pipe!Start(i) \/ Pipe!Write(i) \/ Pipe!Settle(i)
  BY <1>5, PipeStarts, PipeWrites, PipeSettles
<1>6. CASE Pipe!EndIndividually
  BY <1>6, PipeEndsIndividually
<1>7. CASE Pipe!Finish
  BY <1>7, PipeFinishes
<1> QED BY <1>1, <1>2, <1>3, <1>4, <1>5, <1>6, <1>7 DEF Pipe!Next

LEMMA PipeKept ==
    PipeInv /\ UNCHANGED <<called, chunks, stage, state, slots, results, rejected, outcome, sends>> => PipeInv'
<1> SUFFICES ASSUME PipeInv, UNCHANGED <<called, chunks, stage, state, slots, results, rejected, outcome, sends>>
             PROVE  PipeInv'
  OBVIOUS
<1>1. /\ Length' = Length /\ Pipe!Items' = Pipe!Items /\ (Pipe!Ordered' <=> Pipe!Ordered)
      /\ Pipe!Settled' = Pipe!Settled /\ Pipe!Pending' = Pipe!Pending /\ Pipe!Resolved' = Pipe!Resolved
      /\ Pipe!NotAttempted' = Pipe!NotAttempted
  BY DEF Length, Pipe!Items, Pipe!Chunk, Pipe!Range, Pipe!Ordered, Pipe!Kinds, Pipe!Settled, Pipe!Pending,
     Pipe!Resolved, Pipe!NotAttempted
<1>2. PipeTypeOK => PipeTypeOK'
  BY <1>1 DEF PipeTypeOK
<1>3. Tiled(chunks, Len(results), Length) => Tiled(chunks', Len(results'), Length')
  BY <1>1
<1>4. (CollectsOK => CollectsOK') /\ (WaitersOK => WaitersOK')
  BY <1>1 DEF CollectsOK, WaitersOK
<1>5. PlacesOK => PlacesOK'
  BY <1>1 DEF PlacesOK
<1>6. OrderOK => OrderOK'
  BY <1>1 DEF OrderOK
<1>7. EndedOK => EndedOK'
  BY <1>1 DEF EndedOK
<1> QED BY <1>1, <1>2, <1>3, <1>4, <1>5, <1>6, <1>7 DEF PipeInv, UnderWayOK

LEMMA PipeOutcomesHold == PipeInv => Pipe!PipelineOutcomes
<1> SUFFICES ASSUME PipeInv PROVE Pipe!PipelineOutcomes
  OBVIOUS
<1>1. /\ PipeTypeOK /\ Pipe!Indices = 1..Length /\ Length \in Nat /\ called.ordered \in BOOLEAN
      /\ Pipe!Settled = {"ok", "error", "lost"}
  BY PipelineIs DEF PipeInv, PipeTypeOK, Pipe!Settled
<1>2. \A i \in 1..Length : sends[i] <= 1
  <2> SUFFICES ASSUME NEW i \in 1..Length PROVE sends[i] <= 1
    OBVIOUS
  <2>1. sends[i] \in 0..1
    BY <1>1 DEF PipeTypeOK
  <2> QED BY <2>1
<1>3. ASSUME NEW i \in 1..Length, NEW j \in 1..Length, i < j, called.ordered \/ <<i, j>> \in called.dependencies,
             state[j] = "sent"
      PROVE  state[i] \in Pipe!Settled \/ (stage = "frame" /\ {i, j} \subseteq Pipe!Items)
  <2>1. outcome = Pipe!Pending /\ UnderWayOK
    BY <1>3 DEF PipeInv, EndedOK
  <2>2. /\ Len(results) \in Nat
        /\ \A k \in 1..Length : k <= Len(results) => state[k] \in {"ok", "error"}
        /\ \A k \in 1..Length : stage = "next" \/ k \notin Pipe!Items => state[k] \in {"ok", "error", "idle"}
    BY <2>1, PlacesAre
  <2>3. stage # "next" /\ j \in Pipe!Items
    BY <1>3, <2>2
  <2>4. CASE stage = "individually"
    <3>1. called.ordered => Pipe!Ordered
      BY DEF Pipe!Ordered
    <3> QED BY <1>3, <2>1, <2>4, <3>1 DEF UnderWayOK, OrderOK
  <2>5. CASE stage = "frame"
    <3>1. CASE i <= Len(results)
      BY <1>1, <2>2, <3>1
    <3>2. CASE i > Len(results)
      <4>1. /\ Pipe!Items = (Len(results) + 1)..(Len(results) + Len(Pipe!Chunk.items))
            /\ Len(Pipe!Chunk.items) \in Nat
        BY <1>1, <2>1, <2>3, ItemsAre DEF UnderWayOK, PlacesOK
      <4>2. i \in Pipe!Items
        BY <1>3, <2>2, <2>3, <3>2, <4>1
      <4> QED BY <2>3, <2>5, <4>2
    <3> QED BY <2>2, <3>1, <3>2
  <2> QED BY <1>1, <2>3, <2>4, <2>5 DEF PipeTypeOK
<1>4. outcome # Pipe!Pending => EndedOK
  BY DEF PipeInv
<1>5. /\ outcome = Pipe!Resolved => outcome # Pipe!Pending
      /\ outcome = Pipe!NotAttempted => outcome # Pipe!Pending
      /\ outcome.index # 0 => outcome # Pipe!Pending
  BY DEF Pipe!Pending, Pipe!Resolved, Pipe!NotAttempted
<1>6. outcome = Pipe!Resolved =>
          /\ results = [i \in 1..Length |-> state[i]]
          /\ \A i \in rejected : state[i] = "error"
          /\ called.throws => \A i \in 1..Length : state[i] = "ok"
  BY <1>4, <1>5 DEF EndedOK
<1>7. outcome.index # 0 =>
          /\ state[outcome.index] # "ok" /\ \A i \in 1..(outcome.index - 1) : state[i] = "ok"
          /\ \A i \in 1..Length : state[i] \in Pipe!Settled
  BY <1>4, <1>5 DEF EndedOK
<1>8. outcome # Pipe!Pending => \A i \in 1..Length : state[i] \notin {"waiting", "queued", "sent"}
  BY <1>4 DEF EndedOK
<1>9. outcome = Pipe!NotAttempted => \A i \in 1..Length : sends[i] = 0
  BY <1>4, <1>5 DEF EndedOK
<1> QED BY <1>1, <1>2, <1>3, <1>6, <1>7, <1>8, <1>9 DEF Pipe!PipelineOutcomes, Pipe!Succeeded

---------------------------------------------------------------------------
(* The parts in one behaviour.                                             *)

PartsNext == QueueNext \/ SplitNext \/ BatchNext \/ PipelineNext \/ BootNext \/ ReceiverNext

PartsInv == /\ part = "split" => SplitInv
            /\ part = "batch" => BatchInv
            /\ part = "bootstrap" => BootInv
            /\ part = "pipeline" => PipeInv

LEMMA PartsInit == PartInit => PartsInv
BY SplitInit, BatchInit, BootInit, PipeInitInv DEF PartInit, PartsInv

LEMMA SplitKept == part = "split" /\ SplitInv /\ UNCHANGED <<part, split>> => SplitInv'
<1> SUFFICES ASSUME SplitInv, UNCHANGED <<part, split>> PROVE SplitInv'
  OBVIOUS
<1>1. UNCHANGED <<commands, planned, unitByCommand, dependencies, item, tasks, result>>
  BY DEF split
<1>2. SplitOK /\ UnitsOK
  BY DEF SplitInv
<1>3. \A u \in Split!Units :
         /\ tasks[u] \in {"waits", "rejected"} => \A i \in Split!ItemsOf(u) : item[i] = "waits"
         /\ tasks[u] = "runs" => \A i \in Split!ItemsOf(u) : item[i] \in {"waits", "runs", "ran"}
         /\ tasks[u] = "settled" => \A i \in Split!ItemsOf(u) : item[i] \in {"answered", "failed"}
  BY <1>2 DEF UnitsOK
<1> QED BY <1>1, <1>2, <1>3, SplitStep DEF SplitOK

LEMMA BatchKept == part = "batch" /\ BatchInv /\ UNCHANGED <<part, batch>> => BatchInv'
<1> SUFFICES ASSUME BatchInv, UNCHANGED <<part, batch>> PROVE BatchInv'
  OBVIOUS
<1>1. UNCHANGED <<cmd, pc, barrier, microtasks, orderingBarrier, pending, batches, inFlightBatches,
                  globalBatchTail, batchKeyStates, closed, executorClosed, pushed>>
  BY DEF batch
<1>2. QueuesOK'
  BY <1>1 DEF BatchInv, QueuesOK
<1>3. \A c \in Batch!Calls : (Raised(c)' <=> Raised(c)) /\ (IsFence(c)' <=> IsFence(c))
  BY <1>1 DEF Raised, IsFence
<1>4. FencesOK'
  BY <1>1, <1>3 DEF BatchInv, FencesOK, IdleOK, BarrierOK, AwaitOK, MicroOK, FlushedOK, Raised, IsFence
<1>5. ClosedOK'
  BY <1>1 DEF BatchInv, ClosedOK
<1> QED BY <1>2, <1>4, <1>5 DEF BatchInv

LEMMA BootKept == part = "bootstrap" /\ BootInv /\ UNCHANGED <<part, bootstrap>> => BootInv'
<1> SUFFICES ASSUME BootInv, UNCHANGED <<part, bootstrap>> PROVE BootInv'
  OBVIOUS
<1>1. UNCHANGED <<option, socket, dialTimer, dialListener, onAbort, aborted, request, answer, adapterClosed,
                  draining, heartbeat, requestFrameBytes, negotiatedFrameBytes, phase, hello, granted>>
  BY DEF bootstrap
<1> QED BY <1>1 DEF BootInv, BootTypeOK, ListenersOK, AwaitsOK, ServerOK, FrameLimitsOK, Boot!Compatible

LEMMA PartsKept == PartsInv /\ [PartsNext]_all => PartsInv'
<1> SUFFICES ASSUME PartsInv, [PartsNext]_all PROVE PartsInv'
  OBVIOUS
<1>1. part' = part
  BY DEF PartsNext, QueueNext, SplitNext, BatchNext, PipelineNext, BootNext, ReceiverNext, all
<1>2. ASSUME part = "split" PROVE SplitInv'
  <2>1. Split!Next \/ UNCHANGED <<part, split>>
    BY <1>2 DEF PartsNext, QueueNext, SplitNext, BatchNext, PipelineNext, BootNext, ReceiverNext, all
  <2>2. SplitInv
    BY <1>2 DEF PartsInv
  <2> QED BY <1>2, <2>1, <2>2, SplitNextInv, SplitKept
<1>3. ASSUME part = "batch" PROVE BatchInv'
  <2>1. Batch!Next \/ UNCHANGED <<part, batch>>
    BY <1>3 DEF PartsNext, QueueNext, SplitNext, BatchNext, PipelineNext, BootNext, ReceiverNext, all
  <2>2. BatchInv
    BY <1>3 DEF PartsInv
  <2> QED BY <1>3, <2>1, <2>2, BatchNextInv, BatchKept
<1>4. ASSUME part = "bootstrap" PROVE BootInv'
  <2>1. Boot!Next \/ UNCHANGED <<part, bootstrap>>
    BY <1>4 DEF PartsNext, QueueNext, SplitNext, BatchNext, PipelineNext, BootNext, ReceiverNext, all
  <2>2. BootInv
    BY <1>4 DEF PartsInv
  <2> QED BY <1>4, <2>1, <2>2, BootNextInv, BootKept
<1>5. ASSUME part = "pipeline" PROVE PipeInv'
  <2>1. Pipe!Next \/ UNCHANGED <<part, pipeline>>
    BY <1>5 DEF PartsNext, QueueNext, SplitNext, BatchNext, PipelineNext, BootNext, ReceiverNext, all
  <2>2. PipeInv
    BY <1>5 DEF PartsInv
  <2>3. UNCHANGED <<part, pipeline>>
           => UNCHANGED <<called, chunks, stage, state, slots, results, rejected, outcome, sends>>
    BY DEF pipeline
  <2> QED BY <2>1, <2>2, <2>3, PipeNextInv, PipeKept
<1> QED BY <1>1, <1>2, <1>3, <1>4, <1>5 DEF PartsInv

LEMMA PartsHold == PartSpec => []PartsInv
<1>1. PartSpec => PartInit /\ [][PartsNext]_all
  BY PTL DEF PartSpec, PartsNext
<1> QED BY <1>1, PartsInit, PartsKept, PTL

\* Whatever units a planned pipeline falls into and whichever batches are under way, commands
\* on a common key of which one writes it run in the order in which they were queued, and a
\* fence runs after everything called before it and before everything called after it
\* (executePlan of the topology pipeline; flushNow, runBatch and the ordering barrier of
\* auto-batch.ts).
THEOREM KeysAreKeptInOrder == PartSpec => []KeysKeepOrder
<1>1. PartsInv => KeysKeepOrder
  BY SplitOrdered, BatchKeepsOrder DEF PartsInv, KeysKeepOrder
<1> QED BY <1>1, PartsHold, PTL

\* close() of automatic batching leaves the executor to what was accepted: when the executor
\* is closed, no call is queued, batched or running, and none comes to it any more.
THEOREM ExecutorIsClosedLast == PartSpec => []ExecutorClosedLast
<1>1. PartsInv => ExecutorClosedLast
  BY BatchClosedLast DEF PartsInv, ExecutorClosedLast
<1> QED BY <1>1, PartsHold, PTL

\* Wherever the bootstrap of a native connection fails or is aborted, its socket, its timer,
\* its listeners and its requests are gone; one that resolves has a compatible server which
\* accepted the credentials; until then no request is larger than the server allows.
THEOREM BootstrapsAreClean == PartSpec => []CleanBootstrap
<1>1. PartsInv => CleanBootstrap
  BY BootIsClean DEF PartsInv, CleanBootstrap
<1> QED BY <1>1, PartsHold, PTL

\* However a pipeline is cut, by the number of its commands or in halves, and wherever one of
\* its frames or requests fails, no command is written twice; one is written only when those
\* it depends on have settled, or with them, after them, in one frame; a pipeline that ends
\* leaves nothing under way; its results are those of its commands in their order, and the
\* error of an item is the first one's (native-pipeline-execution.ts, executeChunk and
\* executeCommandArraysIndividually with its slots, surfaceFirstPipelineItemError).
THEOREM PipelinesEndTruly == PartSpec => []PipelineOutcomes
<1>1. PartsInv => PipelineOutcomes
  BY PipeOutcomesHold DEF PartsInv, PipelineOutcomes
<1> QED BY <1>1, PartsHold, PTL
=============================================================================
