--------------------------- MODULE WorkersProofs ---------------------------
(***************************************************************************)
(* Proofs about the workers, for every finite set of jobs, every size of   *)
(* the pool, the batches, the depth and what a claim may return beyond its *)
(* limit, and every list of states: first about ContinuousWorker, then     *)
(* about WaveWorker and WorkflowWorker.                                    *)
(***************************************************************************)
EXTENDS MCWorkers, FiniteSetTheorems, SequenceTheorems, TLAPS

Renewed == {"active", "renewing", "failed"}
Ending == {"stopping", "stopped", "lost"}

Tasks == {"absent", "due", "claimed", "pending", "done"} \cup Unfinished
Results == [items : Seq(Jobs), error : BOOLEAN]
Batches == [entries : Seq(Jobs), phase : {"stopping", "sent", "settled"}, refill : BOOLEAN]
Claims == [limit : Nat, blocking : BOOLEAN]
Places == Waits \cup {"top", "window", "claim", "returned", "closing", "closed"}

TypeOK ==
    /\ task \in [Jobs -> Tasks]
    /\ guard \in [Jobs -> Renewed \cup Ending \cup {"none"}]
    /\ result \in [Jobs -> Results]
    /\ pending \in Seq(Jobs) /\ entries \in Seq(Jobs)
    /\ active \subseteq Jobs
    /\ inFlight \subseteq Batches /\ IsFiniteSet(inFlight)
    /\ {failure, coalesceBeforeClaim, notified, aborted, scheduled, refillEnabled, closed}
           \subseteq BOOLEAN
    /\ pc \in Places
    /\ claim \in Claims \cup {None}

---------------------------------------------------------------------------
(* The inductive invariant.  Each part says where the jobs of one kind are *)
(* held, and that they are nowhere twice.                                  *)

Distinct(s) == \A i, k \in DOMAIN s : s[i] = s[k] => i = k
Open(flights) == {f \in flights : f.phase # "settled"}

\* A slot is occupied exactly by the jobs between their start and the end of their task.
SlotsOK(tk, act) ==
    /\ \A j \in Jobs : tk[j] \in Unfinished <=> j \in act
    /\ Cardinality(act) <= Concurrency

\* The queue of the pool holds the jobs that wait for a slot.
QueueOK(tk, waiting) == /\ Distinct(waiting)
                      /\ \A j \in Jobs : tk[j] = "pending" <=> j \in ToSet(waiting)

\* A replacement is brought by one job, whose result the pool has still to take.
BroughtOK(tk, res) ==
    /\ \A k \in Jobs : Distinct(res[k].items)
    /\ \A k \in Jobs : \A j \in ToSet(res[k].items) : tk[j] = "claimed" /\ tk[k] = "resolved"
    /\ \A j \in Jobs : tk[j] = "claimed" => \E k \in Jobs : j \in ToSet(res[k].items)
    /\ \A k, l \in Jobs : k # l => ToSet(res[k].items) \cap ToSet(res[l].items) = {}

\* A completion waits for a batch, or is in one.
BatchedOK(tk, waiting, flights) ==
    /\ Distinct(waiting)
    /\ \A j \in Jobs : tk[j] = "completing" <=>
           (j \in ToSet(waiting) \/ \E f \in Open(flights) : j \in ToSet(f.entries))
    /\ \A f \in Open(flights) : /\ f.entries # <<>>
                                /\ ToSet(f.entries) \cap ToSet(waiting) = {}
    /\ \A f, g \in Open(flights) : f # g => ToSet(f.entries) \cap ToSet(g.entries) = {}
    /\ Cardinality(flights) <= CompleteAsyncDepth

\* What the guard of a job does, by where the job is.
GuardsOK(tk, g, waiting, flights) ==
    /\ \A j \in Jobs : /\ tk[j] \in {"absent", "due", "claimed"} => g[j] = "none"
                       /\ tk[j] \in {"pending", "started", "handling"} => g[j] \in Renewed
                       /\ tk[j] = "stopping" => g[j] \in Ending
                       /\ tk[j] = "sent" => g[j] = "stopped"
                       /\ tk[j] \in {"resolved", "ended", "done"} => g[j] \in {"stopped", "lost"}
    /\ \A j \in ToSet(waiting) : g[j] \in Renewed
    /\ \A f \in Open(flights) : \A j \in ToSet(f.entries) :
           IF f.phase = "stopping" THEN g[j] \in Ending ELSE g[j] = "stopped"

\* After a failure no batch refills; the pool returns when it has nothing left.
LoopOK == /\ failure => ~refillEnabled
          /\ pc = "claim" => claim \in Claims
          /\ pc \in {"returned", "closing", "closed"} => Quiescent(pending, active)

Inv == /\ TypeOK
       /\ SlotsOK(task, active)
       /\ QueueOK(task, pending)
       /\ BroughtOK(task, result)
       /\ BatchedOK(task, entries, inFlight)
       /\ GuardsOK(task, guard, entries, inFlight)
       /\ LoopOK

---------------------------------------------------------------------------
(* Numbers and sequences.                                                  *)

\* The smaller of two numbers.
LEMMA MinOfTwo ==
    ASSUME NEW a \in Int, NEW b \in Int
    PROVE  /\ Min({a, b}) \in {a, b} /\ Min({a, b}) <= a /\ Min({a, b}) <= b
<1>1. \E x \in {a, b} : \A y \in {a, b} : x <= y
  <2>1. CASE a <= b
    BY <2>1
  <2>2. CASE b <= a
    BY <2>2
  <2> QED BY <2>1, <2>2
<1>2. Min({a, b}) \in {a, b} /\ \A y \in {a, b} : Min({a, b}) <= y
  BY <1>1 DEF Min
<1> QED BY <1>2

\* The sizes of the worker are positive numbers.
LEMMA Sizes == /\ Concurrency \in Nat \ {0} /\ BatchSize \in Nat \ {0}
               /\ CompleteAsyncDepth \in Nat \ {0} /\ OverReturn \in Nat
               /\ FuseCompleteClaim \in BOOLEAN /\ IsFiniteSet(Jobs)
BY WorkerAssumption

\* A job that comes last.
LEMMA AppendJob ==
    ASSUME NEW q \in Seq(Jobs), NEW j \in Jobs
    PROVE  /\ Append(q, j) \in Seq(Jobs) /\ ToSet(Append(q, j)) = ToSet(q) \cup {j}
           /\ Distinct(q) /\ j \notin ToSet(q) => Distinct(Append(q, j))
<1>1. /\ Append(q, j) \in Seq(Jobs) /\ Len(q) \in Nat /\ DOMAIN q = 1..Len(q)
      /\ DOMAIN Append(q, j) = (1..Len(q)) \cup {Len(q) + 1}
      /\ Append(q, j)[Len(q) + 1] = j /\ \A i \in 1..Len(q) : Append(q, j)[i] = q[i]
  OBVIOUS
<1>2. ToSet(Append(q, j)) = ToSet(q) \cup {j}
  BY <1>1 DEF ToSet
<1>3. Distinct(q) /\ j \notin ToSet(q) => Distinct(Append(q, j))
  BY <1>1 DEF ToSet, Distinct
<1> QED BY <1>1, <1>2, <1>3

\* Jobs that come after the others.
LEMMA Joined ==
    ASSUME NEW q \in Seq(Jobs), NEW r \in Seq(Jobs)
    PROVE  /\ q \o r \in Seq(Jobs) /\ ToSet(q \o r) = ToSet(q) \cup ToSet(r)
           /\ Distinct(q) /\ Distinct(r) /\ ToSet(q) \cap ToSet(r) = {} => Distinct(q \o r)
<1>1. /\ q \o r \in Seq(Jobs) /\ Len(q) \in Nat /\ Len(r) \in Nat
      /\ DOMAIN q = 1..Len(q) /\ DOMAIN r = 1..Len(r) /\ DOMAIN (q \o r) = 1..(Len(q) + Len(r))
      /\ \A i \in 1..Len(q) : (q \o r)[i] = q[i]
      /\ \A i \in 1..Len(r) : (q \o r)[Len(q) + i] = r[i]
  OBVIOUS
<1>2. \A i \in 1..(Len(q) + Len(r)) : i \in 1..Len(q) \/ \E k \in 1..Len(r) : i = Len(q) + k
  <2> SUFFICES ASSUME NEW i \in 1..(Len(q) + Len(r)), i \notin 1..Len(q)
               PROVE  i - Len(q) \in 1..Len(r) /\ i = Len(q) + (i - Len(q))
    OBVIOUS
  <2> QED BY <1>1
<1>3. ToSet(q \o r) = ToSet(q) \cup ToSet(r)
  <2>1. ToSet(q) \subseteq ToSet(q \o r) /\ ToSet(r) \subseteq ToSet(q \o r)
    <3>1. \A i \in 1..Len(q) : i \in 1..(Len(q) + Len(r))
      BY <1>1
    <3>2. \A i \in 1..Len(r) : Len(q) + i \in 1..(Len(q) + Len(r))
      BY <1>1
    <3> QED BY <1>1, <3>1, <3>2 DEF ToSet
  <2>2. ToSet(q \o r) \subseteq ToSet(q) \cup ToSet(r)
    <3>1. ASSUME NEW i \in 1..(Len(q) + Len(r)) PROVE (q \o r)[i] \in ToSet(q) \cup ToSet(r)
      <4>1. CASE i \in 1..Len(q)
        BY <4>1, <1>1 DEF ToSet
      <4>2. CASE \E k \in 1..Len(r) : i = Len(q) + k
        BY <4>2, <1>1 DEF ToSet
      <4> QED BY <4>1, <4>2, <1>2
    <3> QED BY <3>1, <1>1 DEF ToSet
  <2> QED BY <2>1, <2>2
<1>4. ASSUME Distinct(q), Distinct(r), ToSet(q) \cap ToSet(r) = {}
      PROVE  Distinct(q \o r)
  <2>1. \A i \in 1..Len(q), k \in 1..Len(r) : q[i] # r[k]
    BY <1>1, <1>4 DEF ToSet
  <2> SUFFICES ASSUME NEW i \in 1..(Len(q) + Len(r)), NEW k \in 1..(Len(q) + Len(r)),
                      (q \o r)[i] = (q \o r)[k]
               PROVE  i = k
    BY <1>1 DEF Distinct
  <2>2. CASE i \in 1..Len(q) /\ k \in 1..Len(q)
    BY <1>1, <1>4, <2>2 DEF Distinct
  <2>3. CASE i \in 1..Len(q) /\ k \notin 1..Len(q)
    BY <1>1, <1>2, <2>1, <2>3
  <2>4. CASE i \notin 1..Len(q) /\ k \in 1..Len(q)
    BY <1>1, <1>2, <2>1, <2>4
  <2>5. CASE i \notin 1..Len(q) /\ k \notin 1..Len(q)
    <3>1. PICK x \in 1..Len(r), y \in 1..Len(r) : i = Len(q) + x /\ k = Len(q) + y
      BY <1>2, <2>5
    <3>2. x = y
      BY <1>1, <1>4, <3>1 DEF Distinct
    <3> QED BY <3>1, <3>2
  <2> QED BY <2>2, <2>3, <2>4, <2>5
<1> QED BY <1>1, <1>3, <1>4

Taken(q, n) == SubSeq(q, 1, n)
Kept(q, n) == SubSeq(q, n + 1, Len(q))

\* The first n jobs of a queue, and the others.
LEMMA TakenAndKept ==
    ASSUME NEW q \in Seq(Jobs), NEW n \in 0..Len(q)
    PROVE  /\ Taken(q, n) \in Seq(Jobs) /\ Len(Taken(q, n)) = n
           /\ \A i \in 1..n : Taken(q, n)[i] = q[i]
           /\ Kept(q, n) \in Seq(Jobs) /\ Len(Kept(q, n)) = Len(q) - n
           /\ ToSet(q) = ToSet(Taken(q, n)) \cup ToSet(Kept(q, n))
           /\ IsFiniteSet(ToSet(Taken(q, n))) /\ Cardinality(ToSet(Taken(q, n))) <= n
           /\ Distinct(q) => /\ Distinct(Kept(q, n))
                             /\ ToSet(Taken(q, n)) \cap ToSet(Kept(q, n)) = {}
<1>1. /\ Len(q) \in Nat /\ n \in Nat /\ n <= Len(q) /\ DOMAIN q = 1..Len(q)
      /\ \A i \in 1..Len(q) : q[i] \in Jobs
  OBVIOUS
<1>2. /\ Taken(q, n) \in Seq(Jobs) /\ Len(Taken(q, n)) = n /\ DOMAIN Taken(q, n) = 1..n
      /\ \A i \in 1..n : Taken(q, n)[i] = q[i]
  BY <1>1 DEF Taken
<1>3. /\ Kept(q, n) \in Seq(Jobs) /\ Len(Kept(q, n)) = Len(q) - n
      /\ DOMAIN Kept(q, n) = 1..(Len(q) - n)
      /\ \A i \in 1..(Len(q) - n) : Kept(q, n)[i] = q[i + n]
  <2>1. /\ Kept(q, n) \in Seq(Jobs) /\ Len(Kept(q, n)) = Len(q) - n
        /\ \A i \in 1..(Len(q) - n) : Kept(q, n)[i] = q[i + n]
    <3> DEFINE m == n + 1
    <3>1. SubSeq(q, m, Len(q)) \in Seq(Jobs) /\ Len(SubSeq(q, m, Len(q))) = Len(q) - n
      <4>1. m \in 1..(Len(q) + 1) /\ Len(q) - n = Len(q) + 1 - m
        <5>1. Len(q) \in Nat /\ n \in Nat /\ n <= Len(q)
          BY <1>1
        <5> QED BY ONLY <5>1
      <4> HIDE DEF m
      <4>2. SubSeq(q, m, Len(q)) \in Seq(Jobs)
        BY <4>1, <1>1
      <4>3. Len(SubSeq(q, m, Len(q))) = Len(q) + 1 - m
        BY <4>1, <1>1
      <4> QED BY <4>1, <4>2, <4>3
    <3>2. ASSUME NEW i \in 1..(Len(q) - n) PROVE SubSeq(q, m, Len(q))[i] = q[i + n]
      <4>1. m \in Nat /\ i \in Nat /\ i \in 1..(Len(q) - m + 1) /\ i + m - 1 = i + n
        BY <1>1
      <4> HIDE DEF m
      <4>2. SubSeq(q, m, Len(q))[i] = q[i + m - 1]
        BY <4>1, <1>1
      <4> QED BY <4>1, <4>2
    <3> QED BY <3>1, <3>2 DEF Kept
  <2> QED BY <2>1
<1>4. \A i \in 1..Len(q) : i \in 1..n \/ \E k \in 1..(Len(q) - n) : i = k + n
  <2> SUFFICES ASSUME NEW i \in 1..Len(q), i \notin 1..n
               PROVE  i - n \in 1..(Len(q) - n) /\ i = (i - n) + n
    OBVIOUS
  <2> QED BY <1>1
<1>5. \A k \in 1..(Len(q) - n) : k + n \in 1..Len(q) /\ k + n \notin 1..n
  BY <1>1
<1>6. \A i \in 1..n : i \in 1..Len(q)
  BY <1>1
<1>7. ToSet(q) = ToSet(Taken(q, n)) \cup ToSet(Kept(q, n))
  <2>1. ToSet(q) \subseteq ToSet(Taken(q, n)) \cup ToSet(Kept(q, n))
    <3> SUFFICES ASSUME NEW i \in 1..Len(q)
                 PROVE  q[i] \in ToSet(Taken(q, n)) \cup ToSet(Kept(q, n))
      BY <1>1 DEF ToSet
    <3>1. CASE i \in 1..n
      BY <3>1, <1>2 DEF ToSet
    <3>2. CASE i \notin 1..n
      <4>1. PICK k \in 1..(Len(q) - n) : i = k + n
        BY <1>4, <3>2
      <4>2. Kept(q, n)[k] = q[i]
        BY <4>1, <1>3
      <4> QED BY <4>2, <1>3 DEF ToSet
    <3> QED BY <3>1, <3>2
  <2>2. ToSet(Taken(q, n)) \subseteq ToSet(q)
    BY <1>1, <1>2, <1>6 DEF ToSet
  <2>3. ToSet(Kept(q, n)) \subseteq ToSet(q)
    BY <1>1, <1>3, <1>5 DEF ToSet
  <2> QED BY <2>1, <2>2, <2>3
<1>8. IsFiniteSet(ToSet(Taken(q, n))) /\ Cardinality(ToSet(Taken(q, n))) <= n
  <2>1. Taken(q, n) \in Surjection(1..n, ToSet(Taken(q, n)))
    <3>1. Taken(q, n) \in [1..n -> ToSet(Taken(q, n))]
      BY <1>2 DEF ToSet
    <3> QED BY <3>1, <1>2 DEF Surjection, ToSet
  <2>2. IsFiniteSet(1..n) /\ Cardinality(1..n) = n
    BY FS_Interval, <1>1
  <2> QED BY <2>1, <2>2, FS_Surjection
<1>9. ASSUME Distinct(q)
      PROVE  Distinct(Kept(q, n)) /\ ToSet(Taken(q, n)) \cap ToSet(Kept(q, n)) = {}
  <2>1. Distinct(Kept(q, n))
    <3> SUFFICES ASSUME NEW i \in 1..(Len(q) - n), NEW k \in 1..(Len(q) - n),
                        Kept(q, n)[i] = Kept(q, n)[k]
                 PROVE  i = k
      BY <1>3 DEF Distinct
    <3>1. i + n = k + n
      BY <1>1, <1>3, <1>5, <1>9 DEF Distinct
    <3> QED BY <3>1, <1>1
  <2>2. ASSUME NEW i \in 1..n, NEW k \in 1..(Len(q) - n), q[i] = q[k + n] PROVE FALSE
    BY <1>1, <1>5, <1>6, <1>9, <2>2 DEF Distinct
  <2>3. ToSet(Taken(q, n)) \cap ToSet(Kept(q, n)) = {}
    BY <1>2, <1>3, <2>2 DEF ToSet
  <2> QED BY <2>1, <2>3
<1> QED BY <1>2, <1>3, <1>7, <1>8, <1>9

\* The jobs of a set in some order.
LEMMA SetInOrder ==
    ASSUME NEW S \in SUBSET Jobs, NEW s \in SetToSeqs(S)
    PROVE  s \in Seq(Jobs) /\ ToSet(s) = S /\ Distinct(s) /\ (s = <<>> <=> S = {})
<1>1. IsFiniteSet(S) /\ Cardinality(S) \in Nat
  BY Sizes, FS_Subset, FS_CardinalityType
<1> DEFINE n == Cardinality(S)
<1>2. s \in [1..n -> S] /\ \A i, k \in 1..n : i # k => s[i] # s[k]
  BY DEF SetToSeqs
<1>3. s \in Seq(Jobs) /\ Len(s) = n /\ DOMAIN s = 1..n
  BY <1>1, <1>2
<1>4. Distinct(s)
  BY <1>2, <1>3 DEF Distinct
<1>5. ToSet(s) = S
  <2>1. s \in Injection(1..n, S)
    BY <1>2 DEF Injection, IsInjective
  <2>2. IsFiniteSet(1..n) /\ Cardinality(1..n) = n
    BY FS_Interval, <1>1
  <2>3. s \in Surjection(1..n, S)
    BY <2>1, <2>2, <1>1, FS_Injection
  <2> QED BY <1>2, <2>3 DEF Surjection, ToSet
<1>6. s = <<>> <=> S = {}
  <2>1. n = 0 <=> S = {}
    BY <1>1, FS_EmptySet
  <2> QED BY <2>1, <1>3
<1> QED BY <1>3, <1>4, <1>5, <1>6

---------------------------------------------------------------------------
(* startAvailable().                                                       *)

\* The queue of the pool with, perhaps, jobs that have just been claimed.
Waiting(waiting) ==
    /\ waiting \in Seq(Jobs) /\ Distinct(waiting)
    /\ \A j \in ToSet(waiting) : task[j] \in {"pending", "due"}
    /\ \A j \in Jobs : task[j] = "pending" => j \in ToSet(waiting)

\* As many jobs are started as there are free slots.
LEMMA StartableFits ==
    ASSUME TypeOK, SlotsOK(task, active), NEW waiting \in Seq(Jobs)
    PROVE  /\ IsFiniteSet(active) /\ Cardinality(active) \in Nat
           /\ Startable(waiting) \in 0..Len(waiting)
           /\ Startable(waiting) + Cardinality(active) <= Concurrency
<1>1. IsFiniteSet(active) /\ Cardinality(active) \in Nat
  BY Sizes, FS_Subset, FS_CardinalityType DEF TypeOK
<1>2. Concurrency \in Nat /\ Cardinality(active) <= Concurrency /\ Len(waiting) \in Nat
  BY Sizes DEF SlotsOK
<1> DEFINE free == IF Full(active) THEN 0 ELSE Concurrency - Cardinality(active)
<1>3. free \in Nat /\ free + Cardinality(active) <= Concurrency
  BY <1>1, <1>2 DEF Full
<1>4. Startable(waiting) = Min({Len(waiting), free})
  BY DEF Startable
<1> HIDE DEF free
<1>5. Startable(waiting) \in {Len(waiting), free} /\ Startable(waiting) <= Len(waiting) /\ Startable(waiting) <= free
  <2>1. Len(waiting) \in Int /\ free \in Int
    BY <1>2, <1>3
  <2>2. LET m == Min({Len(waiting), free}) IN m \in {Len(waiting), free} /\ m <= Len(waiting) /\ m <= free
    BY <2>1, MinOfTwo
  <2> QED BY <2>2, <1>4
<1> QED BY <1>1, <1>2, <1>3, <1>5

\* Afterwards every job of the queue still waits, or has a slot.
LEMMA Started ==
    ASSUME TypeOK, SlotsOK(task, active), NEW waiting, Waiting(waiting), StartAvailable(waiting)
    PROVE  /\ pending' \in Seq(Jobs) /\ active' \in SUBSET Jobs /\ task' \in [Jobs -> Tasks]
           /\ SlotsOK(task', active') /\ QueueOK(task', pending')
           /\ \A j \in Jobs : IF j \in ToSet(waiting) THEN task'[j] \in {"pending", "started"}
                                                    ELSE task'[j] = task[j]
           /\ active \subseteq active'
<1> DEFINE n == Startable(waiting)
           started == ToSet(Taken(waiting, n))
           rest == Kept(waiting, n)
<1>1. /\ waiting \in Seq(Jobs) /\ n \in 0..Len(waiting) /\ IsFiniteSet(active)
      /\ Cardinality(active) \in Nat /\ n + Cardinality(active) <= Concurrency /\ n \in Nat
  <2>1. waiting \in Seq(Jobs)
    BY DEF Waiting
  <2> QED BY <2>1, StartableFits
<1>2. /\ Taken(waiting, n) \in Seq(Jobs) /\ rest \in Seq(Jobs) /\ ToSet(waiting) = started \cup ToSet(rest)
      /\ IsFiniteSet(started) /\ Cardinality(started) <= n
      /\ Distinct(rest) /\ started \cap ToSet(rest) = {}
  BY <1>1, TakenAndKept DEF Waiting
<1>3. /\ pending' = rest /\ active' = active \cup started
      /\ task' = [j \in Jobs |-> IF j \in started THEN "started"
                                 ELSE IF j \in ToSet(rest) THEN "pending" ELSE task[j]]
  BY DEF StartAvailable, Taken, Kept
<1>4. started \subseteq Jobs /\ ToSet(rest) \subseteq Jobs
  BY <1>2 DEF ToSet
<1> HIDE DEF started, rest, n
<1>5. active' \subseteq Jobs /\ task' \in [Jobs -> Tasks] /\ task \in [Jobs -> Tasks]
  BY <1>3, <1>4 DEF TypeOK, Tasks, Unfinished
<1>6. SlotsOK(task', active')
  <2>1. Cardinality(active') <= Concurrency
    <3>1. IsFiniteSet(active \cap started) /\ Cardinality(active \cap started) \in Nat
      BY <1>1, FS_Subset, FS_CardinalityType
    <3>2. Cardinality(active') = Cardinality(active) + Cardinality(started) - Cardinality(active \cap started)
      BY <1>1, <1>2, <1>3, FS_Union
    <3>3. Cardinality(started) \in Nat /\ Concurrency \in Nat
      BY <1>2, FS_CardinalityType, Sizes
    <3> QED BY <3>1, <3>2, <3>3, <1>1, <1>2
  <2>2. ASSUME NEW j \in Jobs PROVE task'[j] \in Unfinished <=> j \in active'
    <3>1. task[j] \in Unfinished <=> j \in active
      BY DEF SlotsOK
    <3>2. j \in ToSet(rest) => task[j] \in {"pending", "due"}
      BY <1>2 DEF Waiting
    <3> QED BY <3>1, <3>2, <1>2, <1>3 DEF Unfinished
  <2> QED BY <2>1, <2>2 DEF SlotsOK
<1>7. QueueOK(task', pending')
  <2>1. ASSUME NEW j \in Jobs PROVE task'[j] = "pending" <=> j \in ToSet(rest)
    BY <1>2, <1>3 DEF Waiting
  <2> QED BY <2>1, <1>2, <1>3 DEF QueueOK
<1>8. ASSUME NEW j \in Jobs
      PROVE  IF j \in ToSet(waiting) THEN task'[j] \in {"pending", "started"} ELSE task'[j] = task[j]
  BY <1>2, <1>3
<1> QED BY <1>2, <1>3, <1>5, <1>6, <1>7, <1>8

\* The queue of the pool alone.
LEMMA PendingWaits == ASSUME Inv PROVE Waiting(pending)
<1>1. pending \in Seq(Jobs) /\ ToSet(pending) \subseteq Jobs
  BY DEF Inv, TypeOK, ToSet
<1> QED BY <1>1 DEF Inv, QueueOK, Waiting

\* What starting jobs leaves alone: the results, and the jobs of the batcher.  New jobs
\* get a guard.
LEMMA StartedRest ==
    ASSUME Inv, NEW waiting, Waiting(waiting), StartAvailable(waiting),
           guard' = [j \in Jobs |-> IF j \in ToSet(waiting) /\ task[j] = "due" THEN "active" ELSE guard[j]],
           UNCHANGED <<result, entries, inFlight>>
    PROVE  /\ BroughtOK(task', result') /\ BatchedOK(task', entries', inFlight')
           /\ GuardsOK(task', guard', entries', inFlight')
           /\ guard' \in [Jobs -> Renewed \cup Ending \cup {"none"}]
<1>1. /\ TypeOK /\ SlotsOK(task, active) /\ BroughtOK(task, result)
      /\ BatchedOK(task, entries, inFlight) /\ GuardsOK(task, guard, entries, inFlight)
  BY DEF Inv
<1>2. /\ \A j \in Jobs : IF j \in ToSet(waiting) THEN task'[j] \in {"pending", "started"}
                                               ELSE task'[j] = task[j]
      /\ \A j \in ToSet(waiting) : task[j] \in {"pending", "due"}
  BY <1>1, Started DEF Waiting
<1>3. /\ task \in [Jobs -> Tasks] /\ guard \in [Jobs -> Renewed \cup Ending \cup {"none"}]
      /\ \A k \in Jobs : ToSet(result[k].items) \subseteq Jobs
      /\ ToSet(entries) \subseteq Jobs
      /\ \A f \in inFlight : ToSet(f.entries) \subseteq Jobs
  BY <1>1 DEF TypeOK, Results, Batches, ToSet
<1>4. \A j \in Jobs : task'[j] \in {"claimed", "completing", "resolved"} \/ task[j] \in {"claimed", "completing", "resolved"}
                          => task'[j] = task[j] /\ j \notin ToSet(waiting)
  BY <1>2
<1>5. BroughtOK(task', result')
  BY <1>1, <1>3, <1>4 DEF BroughtOK
<1>6. BatchedOK(task', entries', inFlight')
  BY <1>1, <1>3, <1>4 DEF BatchedOK
<1>7. GuardsOK(task', guard', entries', inFlight')
  <2>1. \A j \in Jobs : j \in ToSet(waiting) \/ guard'[j] = guard[j]
    OBVIOUS
  <2>2. ASSUME NEW j \in Jobs, task[j] = "completing" PROVE guard'[j] = guard[j]
    BY <2>1, <2>2, <1>4
  <2>3. \A j \in ToSet(entries) : guard'[j] \in Renewed
    BY <1>1, <1>3, <2>2 DEF BatchedOK, GuardsOK
  <2>4. ASSUME NEW f \in Open(inFlight), NEW j \in ToSet(f.entries)
        PROVE  IF f.phase = "stopping" THEN guard'[j] \in Ending ELSE guard'[j] = "stopped"
    <3>1. j \in Jobs /\ task[j] = "completing"
      BY <1>1, <1>3 DEF BatchedOK, Open
    <3> QED BY <3>1, <2>2, <1>1 DEF GuardsOK
  <2>5. ASSUME NEW j \in Jobs
        PROVE  /\ task'[j] \in {"absent", "due", "claimed"} => guard'[j] = "none"
               /\ task'[j] \in {"pending", "started", "handling"} => guard'[j] \in Renewed
               /\ task'[j] = "stopping" => guard'[j] \in Ending
               /\ task'[j] = "sent" => guard'[j] = "stopped"
               /\ task'[j] \in {"resolved", "ended", "done"} => guard'[j] \in {"stopped", "lost"}
    <3>1. CASE j \in ToSet(waiting)
      BY <3>1, <1>1, <1>2 DEF GuardsOK, Renewed
    <3>2. CASE j \notin ToSet(waiting)
      BY <3>2, <1>1, <1>2 DEF GuardsOK
    <3> QED BY <3>1, <3>2
  <2> QED BY <2>3, <2>4, <2>5 DEF GuardsOK
<1>8. guard' \in [Jobs -> Renewed \cup Ending \cup {"none"}]
  BY <1>3 DEF Renewed
<1> QED BY <1>5, <1>6, <1>7, <1>8

---------------------------------------------------------------------------
(* pump().                                                                 *)

\* Batch i ends before batch k begins.
LEMMA Blocks ==
    ASSUME NEW B \in Nat \ {0}, NEW i \in Nat, NEW k \in Nat, i < k
    PROVE  i * B <= (k - 1) * B /\ i * B <= k * B /\ (k - 1) * B = k * B - B /\ i * B \in Nat
           /\ (k - 1) * B \in Nat
<1> DEFINE d == k - 1 - i
<1>1. d \in Nat /\ k - 1 = i + d /\ k = (k - 1) + 1
  OBVIOUS
<1>2. d * B \in Nat /\ i * B \in Nat /\ (k - 1) * B \in Nat
  BY <1>1
<1>3. (i + d) * B = i * B + d * B
  BY <1>1
<1>4. ((k - 1) + 1) * B = (k - 1) * B + B
  BY <1>1
<1> QED BY <1>1, <1>2, <1>3, <1>4

\* The quotient of a division.
LEMMA Quotient ==
    ASSUME NEW x \in Nat, NEW B \in Nat \ {0}
    PROVE  x \div B \in Nat /\ (x \div B) * B <= x /\ x < (x \div B) * B + B
<1>1. x = B * (x \div B) + (x % B) /\ x % B \in 0..(B - 1) /\ x \div B \in Int
  OBVIOUS
<1>2. x \div B \in Nat
  OBVIOUS
<1>3. (x \div B) * B = B * (x \div B) /\ B * (x \div B) \in Int
  BY <1>1
<1> HIDE <1>1
<1> QED BY <1>1, <1>2, <1>3

\* A part of a queue.
LEMMA PartOf ==
    ASSUME NEW q \in Seq(Jobs), NEW lo \in Nat, NEW hi \in Nat, lo < hi, hi <= Len(q)
    PROVE  /\ SubSeq(q, lo + 1, hi) \in Seq(Jobs) /\ SubSeq(q, lo + 1, hi) # <<>>
           /\ ToSet(SubSeq(q, lo + 1, hi)) = {q[p] : p \in (lo + 1)..hi}
<1>1. Len(q) \in Nat /\ \A i \in 1..Len(q) : q[i] \in Jobs
  OBVIOUS
<1>2. /\ SubSeq(q, lo + 1, hi) \in Seq(Jobs) /\ Len(SubSeq(q, lo + 1, hi)) = hi - lo
      /\ \A i \in 1..(hi - lo) : SubSeq(q, lo + 1, hi)[i] = q[i + lo]
  BY <1>1
<1>3. DOMAIN SubSeq(q, lo + 1, hi) = 1..(hi - lo)
  BY <1>2
<1>4. SubSeq(q, lo + 1, hi) # <<>>
  BY <1>2
<1>5. {q[p] : p \in (lo + 1)..hi} = {q[i + lo] : i \in 1..(hi - lo)}
  <2>1. \A p \in (lo + 1)..hi : p - lo \in 1..(hi - lo) /\ p = (p - lo) + lo
    BY <1>1
  <2>2. \A i \in 1..(hi - lo) : i + lo \in (lo + 1)..hi
    BY <1>1
  <2> QED BY <2>1, <2>2
<1>6. ToSet(SubSeq(q, lo + 1, hi)) = {q[i + lo] : i \in 1..(hi - lo)}
  BY <1>2, <1>3 DEF ToSet
<1> QED BY <1>2, <1>4, <1>5, <1>6

Lower(B, i) == (i - 1) * B
Upper(B, waiting, i) == Min({i * B, Len(waiting)})

\* The first n batches that a queue gives; t jobs are taken for them.
Cut(B, waiting, n, t) ==
    /\ n \in Nat /\ t \in 0..Len(waiting)
    /\ \A i \in 1..n : /\ Lower(B, i) \in Nat /\ Upper(B, waiting, i) \in Nat
                       /\ Lower(B, i) < Upper(B, waiting, i) /\ Upper(B, waiting, i) <= t
    /\ \A i, k \in 1..n : i < k => Upper(B, waiting, i) <= Lower(B, k)
    /\ \A p \in 1..t : \E i \in 1..n : Lower(B, i) < p /\ p <= Upper(B, waiting, i)

\* No batch is empty, and every job that is taken is in one of them.
LEMMA CutWell ==
    ASSUME NEW B \in Nat \ {0}, NEW waiting \in Seq(Jobs), NEW extra \in 0..(B - 1), NEW n \in Nat,
           n <= (Len(waiting) + extra) \div B
    PROVE  Cut(B, waiting, n, Min({n * B, Len(waiting)}))
<1> DEFINE L == Len(waiting)
           b == (L + extra) \div B
           t == Min({n * B, L})
<1>1. B \in Nat \ {0} /\ L \in Nat /\ n \in Nat
  OBVIOUS
<1>2. b \in Nat /\ b * B <= L + extra
  <2>1. L + extra \in Nat
    BY <1>1
  <2> QED BY <2>1, <1>1, Quotient
<1>3. n * B \in Nat /\ t \in {n * B, L} /\ t <= n * B /\ t <= L
  <2>1. n * B \in Int /\ n * B \in Nat /\ L \in Int
    BY <1>1
  <2> QED BY <2>1, MinOfTwo
<1>4. n <= b
  OBVIOUS
<1>5. extra \in Int /\ extra <= B - 1
  BY <1>1
<1> HIDE DEF L, b, t
<1>6. ASSUME NEW i \in 1..n
      PROVE  /\ (i - 1) * B \in Nat /\ i * B \in Nat /\ i * B = (i - 1) * B + B
             /\ i * B <= n * B /\ (i - 1) * B < L
  <2>1. i \in Nat /\ 0 < i /\ 0 \in Nat /\ i <= n /\ i <= b
    BY <1>1, <1>2, <1>4
  <2>2. (i - 1) * B = i * B - B /\ (i - 1) * B \in Nat
    BY <2>1, <1>1, Blocks
  <2>3. i * B \in Nat /\ B \in Nat
    BY <1>1, <2>1
  <2>4. i = n \/ i < n
    BY <2>1, <1>1
  <2>5. i * B <= n * B
    <3>1. CASE i = n
      BY <3>1, <2>3
    <3>2. CASE i < n
      BY <3>2, <2>1, <1>1, Blocks
    <3> QED BY <2>4, <3>1, <3>2
  <2>6. i * B <= b * B
    <3>1. CASE i = b
      BY <3>1, <2>3
    <3>2. CASE i < b
      BY <3>2, <2>1, <1>1, <1>2, Blocks
    <3> QED BY <2>1, <1>2, <3>1, <3>2
  <2>7. b * B \in Nat
    BY <1>1, <1>2
  <2>8. i * B <= L + B - 1
    BY <2>3, <2>6, <2>7, <1>1, <1>2, <1>5
  <2> QED BY <2>2, <2>3, <2>5, <2>8, <1>1
<1>7. ASSUME NEW i \in 1..n
      PROVE  /\ Upper(B, waiting, i) \in {i * B, L} /\ Upper(B, waiting, i) <= i * B /\ Upper(B, waiting, i) <= L
  <2>1. i * B \in Int /\ L \in Int
    BY <1>1, <1>6
  <2> QED BY <2>1, MinOfTwo DEF Upper, L
<1>8. ASSUME NEW i \in 1..n
      PROVE  /\ Lower(B, i) \in Nat /\ Upper(B, waiting, i) \in Nat
             /\ Lower(B, i) < Upper(B, waiting, i) /\ Upper(B, waiting, i) <= t
  <2>1. Lower(B, i) = (i - 1) * B
    BY DEF Lower
  <2>2. /\ (i - 1) * B \in Nat /\ i * B \in Nat /\ i * B = (i - 1) * B + B
        /\ i * B <= n * B /\ (i - 1) * B < L
    BY <1>6
  <2>3. Upper(B, waiting, i) \in {i * B, L} /\ Upper(B, waiting, i) <= i * B /\ Upper(B, waiting, i) <= L
    BY <1>7
  <2> QED BY <2>1, <2>2, <2>3, <1>1, <1>3
<1>9. ASSUME NEW i \in 1..n, NEW k \in 1..n, i < k
      PROVE  Upper(B, waiting, i) <= Lower(B, k)
  <2>1. i \in Nat /\ k \in Nat
    BY <1>1
  <2>2. i * B <= (k - 1) * B
    BY <1>9, <2>1, <1>1, Blocks
  <2>3. Lower(B, k) = (k - 1) * B /\ Lower(B, k) \in Nat /\ i * B \in Nat
    BY <1>8, <1>6 DEF Lower
  <2>4. Upper(B, waiting, i) <= i * B /\ Upper(B, waiting, i) \in Nat
    BY <1>7, <1>8
  <2> QED BY <2>2, <2>3, <2>4
<1>10. ASSUME NEW p \in 1..t
       PROVE  \E i \in 1..n : Lower(B, i) < p /\ p <= Upper(B, waiting, i)
  <2> DEFINE m == (p - 1) \div B
  <2>1. t \in Nat /\ p \in Nat /\ p - 1 \in Nat /\ p <= n * B /\ p <= L
    BY <1>1, <1>3
  <2>2. m \in Nat /\ m * B <= p - 1 /\ p - 1 < m * B + B
    BY <2>1, <1>1, Quotient
  <2> HIDE DEF m
  <2>3. m < n
    <3> SUFFICES ASSUME n <= m PROVE FALSE
      BY <2>2, <1>1
    <3>1. n * B <= m * B
      <4>1. CASE n = m
        BY <4>1, <1>3
      <4>2. CASE n < m
        BY <4>2, <1>1, <2>2, Blocks
      <4> QED BY <4>1, <4>2, <1>1, <2>2
    <3>2. m * B \in Nat
      BY <2>2, <1>1
    <3> QED BY <3>1, <3>2, <2>1, <2>2, <1>3
  <2>4. m + 1 \in 1..n /\ (m + 1) - 1 = m
    BY <2>2, <2>3, <1>1
  <2>5. Lower(B, m + 1) = m * B
    BY <2>4 DEF Lower
  <2>6. (m + 1) * B = m * B + B /\ m * B \in Nat
    BY <1>6, <2>4
  <2>7. Upper(B, waiting, m + 1) \in {(m + 1) * B, L}
    BY <1>7, <2>4
  <2>8. Lower(B, m + 1) < p /\ p <= Upper(B, waiting, m + 1)
    BY <2>1, <2>2, <2>5, <2>6, <2>7, <1>1
  <2> QED BY <2>4, <2>8
<1>11. t \in 0..L
  BY <1>1, <1>3
<1>12. Cut(B, waiting, n, t)
  BY <1>1, <1>8, <1>9, <1>10, <1>11 DEF Cut, L
<1> QED BY <1>12 DEF t, L

\* One of the batches that a queue gives.
Piece(B, waiting, i) == SubSeq(waiting, Lower(B, i) + 1, Upper(B, waiting, i))

\* Every job that is taken is in exactly one of the batches.
LEMMA CutParts ==
    ASSUME NEW B, NEW waiting \in Seq(Jobs), Distinct(waiting), NEW n, NEW t, Cut(B, waiting, n, t)
    PROVE  /\ \A i \in 1..n : /\ Piece(B, waiting, i) \in Seq(Jobs) /\ Piece(B, waiting, i) # <<>>
                              /\ ToSet(Piece(B, waiting, i)) # {}
                              /\ ToSet(Piece(B, waiting, i)) \subseteq ToSet(Taken(waiting, t))
           /\ \A j \in ToSet(Taken(waiting, t)) : \E i \in 1..n : j \in ToSet(Piece(B, waiting, i))
           /\ \A i, k \in 1..n : i # k => ToSet(Piece(B, waiting, i)) \cap ToSet(Piece(B, waiting, k)) = {}
<1>1. /\ t \in 0..Len(waiting) /\ n \in Nat
      /\ DOMAIN waiting = 1..Len(waiting) /\ Len(waiting) \in Nat
  BY DEF Cut
<1>2. Taken(waiting, t) \in Seq(Jobs) /\ Len(Taken(waiting, t)) = t /\ \A i \in 1..t : Taken(waiting, t)[i] = waiting[i]
  BY <1>1, TakenAndKept
<1>3. ToSet(Taken(waiting, t)) = {waiting[p] : p \in 1..t}
  <2>1. DOMAIN Taken(waiting, t) = 1..t
    BY <1>1, <1>2
  <2> QED BY <2>1, <1>2 DEF ToSet
<1>4. ASSUME NEW i \in 1..n
      PROVE  /\ Piece(B, waiting, i) \in Seq(Jobs) /\ Piece(B, waiting, i) # <<>>
             /\ ToSet(Piece(B, waiting, i)) = {waiting[p] : p \in (Lower(B, i) + 1)..Upper(B, waiting, i)}
             /\ (Lower(B, i) + 1)..Upper(B, waiting, i) # {}
  <2> DEFINE lo == Lower(B, i)
             hi == Upper(B, waiting, i)
  <2>1. lo \in Nat /\ hi \in Nat /\ lo < hi /\ hi <= Len(waiting)
    BY <1>1 DEF Cut
  <2>2. Piece(B, waiting, i) = SubSeq(waiting, lo + 1, hi)
    BY DEF Piece
  <2> HIDE DEF lo, hi
  <2>3. /\ SubSeq(waiting, lo + 1, hi) \in Seq(Jobs) /\ SubSeq(waiting, lo + 1, hi) # <<>>
        /\ ToSet(SubSeq(waiting, lo + 1, hi)) = {waiting[p] : p \in (lo + 1)..hi}
    BY <2>1, PartOf
  <2>4. lo + 1 \in (lo + 1)..hi
    BY <2>1
  <2> QED BY <2>2, <2>3, <2>4 DEF lo, hi
<1>5. ASSUME NEW i \in 1..n PROVE ToSet(Piece(B, waiting, i)) \subseteq ToSet(Taken(waiting, t))
  <2>1. \A p \in (Lower(B, i) + 1)..Upper(B, waiting, i) : p \in 1..t
    BY <1>1 DEF Cut
  <2> SUFFICES ASSUME NEW j \in ToSet(Piece(B, waiting, i))
               PROVE  j \in {waiting[p] : p \in 1..t}
    BY <1>3
  <2>2. PICK p \in (Lower(B, i) + 1)..Upper(B, waiting, i) : j = waiting[p]
    BY <1>4
  <2> QED BY <2>1, <2>2
<1>6. ASSUME NEW i \in 1..n PROVE ToSet(Piece(B, waiting, i)) # {}
  <2>1. PICK p \in (Lower(B, i) + 1)..Upper(B, waiting, i) : TRUE
    BY <1>4
  <2>2. waiting[p] \in ToSet(Piece(B, waiting, i))
    BY <1>4
  <2> QED BY <2>2
<1>7. \A j \in ToSet(Taken(waiting, t)) : \E i \in 1..n : j \in ToSet(Piece(B, waiting, i))
  <2> SUFFICES ASSUME NEW p \in 1..t
               PROVE  \E i \in 1..n : waiting[p] \in ToSet(Piece(B, waiting, i))
    BY <1>3
  <2>1. PICK i \in 1..n : Lower(B, i) < p /\ p <= Upper(B, waiting, i)
    BY DEF Cut
  <2>2. p \in (Lower(B, i) + 1)..Upper(B, waiting, i)
    BY <2>1, <1>1 DEF Cut
  <2> QED BY <2>2, <1>4
<1>8. ASSUME NEW i \in 1..n, NEW k \in 1..n, i < k
      PROVE  ToSet(Piece(B, waiting, i)) \cap ToSet(Piece(B, waiting, k)) = {}
  <2> SUFFICES ASSUME NEW j \in ToSet(Piece(B, waiting, i)), j \in ToSet(Piece(B, waiting, k))
               PROVE  FALSE
    OBVIOUS
  <2>1. PICK p \in (Lower(B, i) + 1)..Upper(B, waiting, i) : j = waiting[p]
    BY <1>4
  <2>2. PICK r \in (Lower(B, k) + 1)..Upper(B, waiting, k) : j = waiting[r]
    BY <1>4
  <2>3. /\ Lower(B, i) \in Nat /\ Upper(B, waiting, i) \in Nat /\ Upper(B, waiting, i) <= t
        /\ Lower(B, k) \in Nat /\ Upper(B, waiting, k) \in Nat /\ Upper(B, waiting, k) <= t
        /\ Upper(B, waiting, i) <= Lower(B, k)
    BY <1>8 DEF Cut
  <2>4. p \in 1..Len(waiting) /\ r \in 1..Len(waiting) /\ p < r
    BY <2>3, <1>1
  <2>5. waiting[p] = waiting[r] /\ p \in DOMAIN waiting /\ r \in DOMAIN waiting
    BY <2>1, <2>2, <2>4, <1>1
  <2>6. p = r
    BY ONLY <2>5, Distinct(waiting) DEF Distinct
  <2> QED BY <2>4, <2>6
<1>9. \A i, k \in 1..n : i # k => ToSet(Piece(B, waiting, i)) \cap ToSet(Piece(B, waiting, k)) = {}
  <2> SUFFICES ASSUME NEW i \in 1..n, NEW k \in 1..n, i # k
               PROVE  ToSet(Piece(B, waiting, i)) \cap ToSet(Piece(B, waiting, k)) = {}
    OBVIOUS
  <2>1. i < k \/ k < i
    BY <1>1
  <2> QED BY <2>1, <1>8
<1> QED BY <1>4, <1>5, <1>6, <1>7, <1>9

Flight(waiting, i) ==
    [entries |-> Piece(BatchSize, waiting, i), phase |-> "stopping", refill |-> FALSE]

\* What pump() does with a queue: t jobs leave it in new batches, in any number.
Pumped(waiting, flights, t, new) ==
    /\ t \in 0..Len(waiting) /\ new \subseteq Batches /\ IsFiniteSet(new)
    /\ Cardinality(new) + Cardinality(flights) <= CompleteAsyncDepth
    /\ entries' = Kept(waiting, t) /\ inFlight' = flights \cup new
    /\ guard' = [j \in Jobs |-> IF j \in ToSet(Taken(waiting, t)) THEN Stop(guard[j]) ELSE guard[j]]
    /\ \A f \in new : /\ f.phase = "stopping" /\ f.entries # <<>>
                      /\ ToSet(f.entries) \subseteq ToSet(Taken(waiting, t))
    /\ \A j \in ToSet(Taken(waiting, t)) : \E f \in new : j \in ToSet(f.entries)
    /\ \A f, g \in new : f # g => ToSet(f.entries) \cap ToSet(g.entries) = {}

LEMMA PumpFacts ==
    ASSUME NEW waiting \in Seq(Jobs), Distinct(waiting), NEW flights, IsFiniteSet(flights),
           Cardinality(flights) <= CompleteAsyncDepth, NEW force \in BOOLEAN,
           Pump(waiting, flights, force)
    PROVE  \E t, new : Pumped(waiting, flights, t, new)
<1> DEFINE extra == IF force THEN BatchSize - 1 ELSE 0
           b == (Len(waiting) + extra) \div BatchSize
           room == CompleteAsyncDepth - Cardinality(flights)
           n == Min({b, room})
           t == Min({n * BatchSize, Len(waiting)})
           new == {Flight(waiting, i) : i \in 1..n}
<1>1. /\ extra \in 0..(BatchSize - 1) /\ Len(waiting) \in Nat /\ Cardinality(flights) \in Nat
      /\ room \in Nat /\ CompleteAsyncDepth \in Nat
  BY Sizes, FS_CardinalityType
<1>2. b \in Nat
  <2>1. Len(waiting) + extra \in Nat /\ BatchSize \in Nat \ {0}
    BY <1>1, Sizes
  <2> QED BY <2>1, Quotient
<1>3. n \in Nat /\ n <= b /\ n <= room
  <2>1. b \in Int /\ room \in Int
    BY <1>1, <1>2
  <2> HIDE DEF b, room
  <2>2. n \in {b, room} /\ n <= b /\ n <= room
    BY <2>1, MinOfTwo
  <2> QED BY <2>2, <1>1, <1>2
<1>4. Cut(BatchSize, waiting, n, t)
  <2>1. BatchSize \in Nat \ {0} /\ n <= (Len(waiting) + extra) \div BatchSize
    BY <1>3, Sizes
  <2> HIDE DEF n, extra
  <2> QED BY <2>1, <1>1, <1>3, CutWell
<1>5. /\ entries' = Kept(waiting, t) /\ inFlight' = flights \cup new
      /\ guard' = [j \in Jobs |-> IF j \in ToSet(Taken(waiting, t)) THEN Stop(guard[j]) ELSE guard[j]]
  BY DEF Pump, Kept, Taken, Flight, Piece, Lower, Upper
<1> HIDE DEF n, t, b, extra, room
<1>6. t \in 0..Len(waiting)
  BY <1>4 DEF Cut
<1>7. /\ \A i \in 1..n : /\ Piece(BatchSize, waiting, i) \in Seq(Jobs) /\ Piece(BatchSize, waiting, i) # <<>>
                         /\ ToSet(Piece(BatchSize, waiting, i)) \subseteq ToSet(Taken(waiting, t))
      /\ \A j \in ToSet(Taken(waiting, t)) : \E i \in 1..n : j \in ToSet(Piece(BatchSize, waiting, i))
      /\ \A i, k \in 1..n : i # k =>
             ToSet(Piece(BatchSize, waiting, i)) \cap ToSet(Piece(BatchSize, waiting, k)) = {}
  BY <1>4, CutParts
<1>8. \A i \in 1..n : /\ Flight(waiting, i) \in Batches /\ Flight(waiting, i).phase = "stopping"
                       /\ Flight(waiting, i).entries = Piece(BatchSize, waiting, i)
  BY <1>7 DEF Batches, Flight
<1>10. IsFiniteSet(new) /\ Cardinality(new) <= n
  <2> DEFINE flight == [i \in 1..n |-> Flight(waiting, i)]
  <2>1. flight \in Surjection(1..n, new)
    BY DEF Surjection
  <2>2. IsFiniteSet(1..n) /\ Cardinality(1..n) = n
    BY FS_Interval, <1>3
  <2> HIDE DEF flight, new
  <2> QED BY <2>1, <2>2, FS_Surjection
<1>11. Cardinality(new) + Cardinality(flights) <= CompleteAsyncDepth
  <2>1. Cardinality(new) \in Nat
    BY <1>10, FS_CardinalityType
  <2> QED BY <2>1, <1>1, <1>3, <1>10 DEF room
<1>12. \A f \in new : /\ f \in Batches /\ f.phase = "stopping" /\ f.entries # <<>>
                      /\ ToSet(f.entries) \subseteq ToSet(Taken(waiting, t))
  BY <1>7, <1>8
<1>13. \A j \in ToSet(Taken(waiting, t)) : \E f \in new : j \in ToSet(f.entries)
  BY <1>7, <1>8
<1>14. \A f, g \in new : f # g => ToSet(f.entries) \cap ToSet(g.entries) = {}
  BY <1>7, <1>8
<1> HIDE DEF new
<1>15. Pumped(waiting, flights, t, new)
  BY <1>5, <1>6, <1>10, <1>11, <1>12, <1>13, <1>14 DEF Pumped
<1> QED BY <1>15

\* pump() keeps every completion in the queue or in a batch, and stops the guards of those
\* it flushes.
LEMMA PumpOK ==
    ASSUME NEW tk \in [Jobs -> Tasks], guard \in [Jobs -> Renewed \cup Ending \cup {"none"}],
           NEW waiting \in Seq(Jobs), NEW flights \in SUBSET Batches, IsFiniteSet(flights),
           BatchedOK(tk, waiting, flights), GuardsOK(tk, guard, waiting, flights),
           NEW force \in BOOLEAN, Pump(waiting, flights, force)
    PROVE  /\ entries' \in Seq(Jobs) /\ inFlight' \in SUBSET Batches /\ IsFiniteSet(inFlight')
           /\ guard' \in [Jobs -> Renewed \cup Ending \cup {"none"}]
           /\ BatchedOK(tk, entries', inFlight') /\ GuardsOK(tk, guard', entries', inFlight')
           /\ \A f \in inFlight' \ flights : f.phase = "stopping"
<1>1. PICK t, new : Pumped(waiting, flights, t, new)
  BY PumpFacts DEF BatchedOK
<1> DEFINE taken == ToSet(Taken(waiting, t))
           rest == ToSet(Kept(waiting, t))
<1>2. /\ Kept(waiting, t) \in Seq(Jobs) /\ ToSet(waiting) = taken \cup rest
      /\ Distinct(Kept(waiting, t)) /\ taken \cap rest = {}
  BY <1>1, TakenAndKept DEF Pumped, BatchedOK
<1>3. /\ entries' = Kept(waiting, t) /\ inFlight' = flights \cup new /\ new \subseteq Batches
      /\ IsFiniteSet(new) /\ Cardinality(new) + Cardinality(flights) <= CompleteAsyncDepth
      /\ guard' = [j \in Jobs |-> IF j \in taken THEN Stop(guard[j]) ELSE guard[j]]
      /\ \A f \in new : f.phase = "stopping" /\ f.entries # <<>> /\ ToSet(f.entries) \subseteq taken
      /\ \A j \in taken : \E f \in new : j \in ToSet(f.entries)
      /\ \A f, g \in new : f # g => ToSet(f.entries) \cap ToSet(g.entries) = {}
  BY <1>1 DEF Pumped
<1>4. taken \subseteq Jobs /\ rest \subseteq Jobs /\ ToSet(waiting) \subseteq Jobs
  <2>1. ToSet(waiting) \subseteq Jobs
    BY DEF ToSet
  <2> QED BY <2>1, <1>2
<1> HIDE DEF taken, rest
<1>5. entries' \in Seq(Jobs) /\ ToSet(entries') = rest /\ inFlight' \in SUBSET Batches
  BY <1>2, <1>3 DEF rest
<1>6. IsFiniteSet(inFlight') /\ Cardinality(inFlight') <= CompleteAsyncDepth
  <2>1. /\ IsFiniteSet(flights \cap new) /\ Cardinality(flights \cap new) \in Nat
        /\ Cardinality(new) \in Nat /\ Cardinality(flights) \in Nat
    BY <1>3, FS_Subset, FS_CardinalityType
  <2>2. /\ IsFiniteSet(flights \cup new)
        /\ Cardinality(flights \cup new) = Cardinality(flights) + Cardinality(new) - Cardinality(flights \cap new)
    BY <1>3, FS_Union
  <2> QED BY <2>1, <2>2, <1>3, Sizes
<1>7. Open(inFlight') = Open(flights) \cup new
  BY <1>3 DEF Open
<1>8. \A f \in Open(flights), g \in new : ToSet(f.entries) \cap ToSet(g.entries) = {}
  BY <1>2, <1>3 DEF BatchedOK
<1>9. BatchedOK(tk, entries', inFlight')
  <2>1. Distinct(entries')
    BY <1>2, <1>3
  <2>2. ASSUME NEW j \in Jobs
        PROVE  tk[j] = "completing" <=>
                  (j \in rest \/ \E f \in Open(inFlight') : j \in ToSet(f.entries))
    <3>1. tk[j] = "completing" <=>
              (j \in ToSet(waiting) \/ \E f \in Open(flights) : j \in ToSet(f.entries))
      BY DEF BatchedOK
    <3>2. j \in taken <=> \E f \in new : j \in ToSet(f.entries)
      BY <1>3
    <3> QED BY <3>1, <3>2, <1>2, <1>7
  <2>3. ASSUME NEW f \in Open(inFlight')
        PROVE  f.entries # <<>> /\ ToSet(f.entries) \cap rest = {}
    BY <1>2, <1>3, <1>7 DEF BatchedOK
  <2>4. ASSUME NEW f \in Open(inFlight'), NEW g \in Open(inFlight'), f # g
        PROVE  ToSet(f.entries) \cap ToSet(g.entries) = {}
    <3>1. CASE f \in Open(flights) /\ g \in Open(flights)
      BY <3>1, <2>4 DEF BatchedOK
    <3>2. CASE f \in new /\ g \in new
      BY <3>2, <2>4, <1>3
    <3> QED BY <3>1, <3>2, <1>7, <1>8
  <2> QED BY <2>1, <2>2, <2>3, <2>4, <1>5, <1>6 DEF BatchedOK
<1>10. /\ \A j \in Jobs : IF j \in taken THEN guard[j] \in Renewed /\ guard'[j] \in Ending /\ tk[j] = "completing"
                                         ELSE guard'[j] = guard[j]
  <2> SUFFICES ASSUME NEW j \in Jobs, j \in taken
               PROVE  guard[j] \in Renewed /\ Stop(guard[j]) \in Ending /\ tk[j] = "completing"
    BY <1>3
  <2>1. j \in ToSet(waiting)
    BY <1>2
  <2>2. guard[j] \in Renewed /\ tk[j] = "completing"
    BY <2>1 DEF GuardsOK, BatchedOK
  <2> QED BY <2>2 DEF Stop, Renewed, Ending
<1>11. GuardsOK(tk, guard', entries', inFlight')
  <2>1. ASSUME NEW j \in Jobs
        PROVE  /\ tk[j] \in {"absent", "due", "claimed"} => guard'[j] = "none"
               /\ tk[j] \in {"pending", "started", "handling"} => guard'[j] \in Renewed
               /\ tk[j] = "stopping" => guard'[j] \in Ending
               /\ tk[j] = "sent" => guard'[j] = "stopped"
               /\ tk[j] \in {"resolved", "ended", "done"} => guard'[j] \in {"stopped", "lost"}
    BY <1>10 DEF GuardsOK
  <2>2. \A j \in rest : guard'[j] \in Renewed
    BY <1>2, <1>4, <1>10 DEF GuardsOK
  <2>3. ASSUME NEW f \in Open(inFlight'), NEW j \in ToSet(f.entries)
        PROVE  IF f.phase = "stopping" THEN guard'[j] \in Ending ELSE guard'[j] = "stopped"
    <3>1. CASE f \in new
      BY <3>1, <2>3, <1>3, <1>4, <1>10
    <3>2. CASE f \in Open(flights)
      <4>1. j \notin taken
        BY <3>2, <2>3, <1>2 DEF BatchedOK
      <4>2. j \in Jobs
        BY <3>2, <2>3 DEF Open, Batches, ToSet
      <4> QED BY <4>1, <4>2, <3>2, <2>3, <1>10 DEF GuardsOK
    <3> QED BY <3>1, <3>2, <1>7
  <2> QED BY <2>1, <2>2, <2>3, <1>5 DEF GuardsOK
<1>12. guard' \in [Jobs -> Renewed \cup Ending \cup {"none"}]
  BY <1>3, <1>10
<1> QED BY <1>3, <1>5, <1>6, <1>9, <1>11, <1>12

---------------------------------------------------------------------------
(* The steps of the pool.                                                  *)

LEMMA LimitIsNat ==
    ASSUME NEW act \in SUBSET Jobs, Cardinality(act) <= Concurrency
    PROVE  Limit(act) \in Nat
<1>1. Cardinality(act) \in Nat /\ Concurrency \in Nat /\ BatchSize \in Nat
  BY Sizes, FS_Subset, FS_CardinalityType
<1> DEFINE free == Concurrency - Cardinality(act)
<1>2. free \in Nat
  BY <1>1
<1> HIDE DEF free
<1>3. Min({BatchSize, free}) \in {BatchSize, free}
  <2>1. BatchSize \in Int /\ free \in Int
    BY <1>1, <1>2
  <2> QED BY <2>1, MinOfTwo
<1> QED BY <1>1, <1>2, <1>3 DEF Limit, free

\* Where the loop goes on.
LEMMA ProceedOK ==
    ASSUME NEW waiting, NEW act \in SUBSET Jobs, Cardinality(act) <= Concurrency,
           NEW coalesce \in BOOLEAN, Proceed(waiting, act, coalesce)
    PROVE  /\ pc' \in Places /\ claim' \in Claims \cup {None} /\ coalesceBeforeClaim' \in BOOLEAN
           /\ pc' = "claim" => claim' \in Claims /\ ~Stopped
           /\ pc' \in {"returned", "closing", "closed"} => Quiescent(waiting, act)
<1>1. Limit(act) \in Nat
  BY LimitIsNat
<1>2. CASE Stopped /\ pc' = (IF Quiescent(waiting, act) THEN "returned" ELSE "drain") /\ claim' = None
  BY <1>2 DEF Proceed, Places, Waits
<1>3. CASE ~Stopped /\ pc' \in {"full", "window"} /\ claim' = None
  BY <1>3 DEF Proceed, Places, Waits
<1>4. CASE ~Stopped /\ IssueClaim(act)
  BY <1>1, <1>4 DEF Proceed, IssueClaim, Places, Claims
<1> QED BY <1>2, <1>3, <1>4 DEF Proceed

\* What a step of the pool does to the invariant, once jobs have been started.
LEMMA PoolInv ==
    ASSUME Inv, NEW waiting, Waiting(waiting), StartAvailable(waiting),
           guard' = [j \in Jobs |-> IF j \in ToSet(waiting) /\ task[j] = "due" THEN "active" ELSE guard[j]],
           UNCHANGED <<result, entries, inFlight, scheduled, closed, aborted>>,
           {failure', notified', refillEnabled', coalesceBeforeClaim'} \subseteq BOOLEAN,
           pc' \in Places, claim' \in Claims \cup {None}, LoopOK'
    PROVE  Inv'
<1>1. TypeOK /\ SlotsOK(task, active) /\ BroughtOK(task, result)
  BY DEF Inv
<1>2. /\ pending' \in Seq(Jobs) /\ active' \in SUBSET Jobs /\ task' \in [Jobs -> Tasks]
      /\ SlotsOK(task', active') /\ QueueOK(task', pending')
  BY <1>1, Started
<1>3. /\ BroughtOK(task', result') /\ BatchedOK(task', entries', inFlight')
      /\ GuardsOK(task', guard', entries', inFlight')
      /\ guard' \in [Jobs -> Renewed \cup Ending \cup {"none"}]
  BY StartedRest
<1>4. TypeOK'
  BY <1>1, <1>2, <1>3 DEF TypeOK
<1> QED BY <1>2, <1>3, <1>4 DEF Inv

\* No guard is made when no job is new.
LEMMA NoNewGuard ==
    ASSUME Inv, UNCHANGED guard
    PROVE  guard' = [j \in Jobs |-> IF j \in ToSet(pending) /\ task[j] = "due" THEN "active" ELSE guard[j]]
<1>1. \A j \in Jobs : j \in ToSet(pending) => task[j] # "due"
  BY DEF Inv, QueueOK
<1>2. guard = [j \in Jobs |-> guard[j]]
  BY DEF Inv, TypeOK
<1> QED BY <1>1, <1>2

LEMMA ResumeInv ==
    ASSUME Inv, NEW coalesce \in BOOLEAN, Resume(coalesce)
    PROVE  Inv' /\ (pc' = "claim" => ~Stopped)
<1>1. Waiting(pending) /\ StartAvailable(pending) /\ Proceed(pending', active', coalesce)
  BY PendingWaits DEF Resume
<1>2. active' \in SUBSET Jobs /\ Cardinality(active') <= Concurrency
  <2>1. active' \in SUBSET Jobs /\ SlotsOK(task', active')
    BY <1>1, Started DEF Inv
  <2> QED BY <2>1 DEF SlotsOK
<1>3. /\ pc' \in Places /\ claim' \in Claims \cup {None} /\ coalesceBeforeClaim' \in BOOLEAN
      /\ pc' = "claim" => claim' \in Claims /\ ~Stopped
      /\ pc' \in {"returned", "closing", "closed"} => Quiescent(pending', active')
  BY <1>1, <1>2, ProceedOK
<1>4. LoopOK'
  BY <1>3 DEF Resume, Inv, LoopOK, Quiescent, batcher
<1>5. UNCHANGED <<guard, result, entries, inFlight, scheduled, closed, aborted, failure, refillEnabled>> /\ notified' = FALSE
  BY DEF Resume, batcher
<1>6. {failure', notified', refillEnabled', coalesceBeforeClaim'} \subseteq BOOLEAN
  BY <1>3, <1>5 DEF Inv, TypeOK
<1>7. Inv'
  BY <1>1, <1>3, <1>4, <1>5, <1>6, NoNewGuard, PoolInv
<1> QED BY <1>3, <1>7

LEMMA WindowEndsInv ==
    ASSUME Inv, WindowEnds
    PROVE  Inv' /\ (pc' = "claim" => ~Stopped)
<1>1. CASE Resume(FALSE)
  BY <1>1, ResumeInv
<1>2. CASE /\ ~Stopped
           /\ IssueClaim(active)
           /\ coalesceBeforeClaim' = FALSE
           /\ UNCHANGED <<jobVars, pending, active, failure, notified, aborted, batcher>>
  <2>1. Limit(active) \in Nat
    BY LimitIsNat DEF Inv, TypeOK, SlotsOK
  <2>2. pc' = "claim" /\ claim' \in Claims
    BY <1>2, <2>1 DEF IssueClaim, Claims
  <2> QED BY <1>2, <2>2 DEF Inv, TypeOK, LoopOK, Places, jobVars, batcher
<1> QED BY <1>1, <1>2 DEF WindowEnds

LEMMA ClaimAnsweredInv ==
    ASSUME Inv, ClaimAnswered
    PROVE  Inv' /\ (pc' = "claim" => ~Stopped)
<1>1. PICK S \in SUBSET {j \in Jobs : task[j] = "due"} :
         /\ \E new \in SetToSeqs(S) : StartAvailable(pending \o new)
         /\ guard' = [j \in Jobs |-> IF j \in S THEN "active" ELSE guard[j]]
         /\ \/ /\ Stopped \/ Cardinality(S) >= claim.limit
               /\ Proceed(pending', active', coalesceBeforeClaim)
            \/ /\ ~Stopped /\ Cardinality(S) < claim.limit
               /\ pc' = IF Full(active') THEN "full" ELSE "idle"
               /\ claim' = None
               /\ UNCHANGED coalesceBeforeClaim
  BY DEF ClaimAnswered
<1>2. PICK new \in SetToSeqs(S) : StartAvailable(pending \o new)
  BY <1>1
<1> DEFINE waiting == pending \o new
<1>3. /\ S \in SUBSET Jobs /\ new \in Seq(Jobs) /\ ToSet(new) = S /\ Distinct(new)
  BY <1>2, SetInOrder
<1>4. pending \in Seq(Jobs) /\ Distinct(pending) /\ ToSet(pending) \cap S = {}
  <2>1. \A j \in ToSet(pending) : task[j] = "pending"
    BY PendingWaits DEF Inv, QueueOK, TypeOK, ToSet
  <2> QED BY <2>1 DEF Inv, QueueOK, TypeOK
<1>5. waiting \in Seq(Jobs) /\ ToSet(waiting) = ToSet(pending) \cup S /\ Distinct(waiting)
  BY <1>3, <1>4, Joined
<1> HIDE DEF waiting
<1>6. Waiting(waiting)
  BY <1>1, <1>5, PendingWaits DEF Waiting
<1>7. guard' = [j \in Jobs |-> IF j \in ToSet(waiting) /\ task[j] = "due" THEN "active" ELSE guard[j]]
  <2>1. \A j \in Jobs : j \in S <=> j \in ToSet(waiting) /\ task[j] = "due"
    BY <1>5 DEF Inv, QueueOK
  <2> QED BY <2>1, <1>1
<1>8. StartAvailable(waiting)
  BY <1>2 DEF waiting
<1>9. active' \in SUBSET Jobs /\ Cardinality(active') <= Concurrency
  <2>1. active' \in SUBSET Jobs /\ SlotsOK(task', active')
    BY <1>6, <1>8, Started DEF Inv
  <2> QED BY <2>1 DEF SlotsOK
<1>10. /\ pc' \in Places /\ claim' \in Claims \cup {None} /\ coalesceBeforeClaim' \in BOOLEAN
       /\ pc' = "claim" => claim' \in Claims /\ ~Stopped
       /\ pc' \in {"returned", "closing", "closed"} => Quiescent(pending', active')
  <2>1. coalesceBeforeClaim \in BOOLEAN
    BY DEF Inv, TypeOK
  <2>2. CASE Proceed(pending', active', coalesceBeforeClaim)
    BY <2>1, <2>2, <1>9, ProceedOK
  <2>3. CASE pc' = (IF Full(active') THEN "full" ELSE "idle") /\ claim' = None /\ UNCHANGED coalesceBeforeClaim
    BY <2>1, <2>3 DEF Places, Waits
  <2> QED BY <2>2, <2>3, <1>1
<1>11. UNCHANGED <<result, failure, notified, aborted, entries, inFlight, scheduled, refillEnabled, closed>>
  BY DEF ClaimAnswered, batcher
<1>12. LoopOK'
  BY <1>10, <1>11 DEF Inv, LoopOK, Quiescent
<1>13. {failure', notified', refillEnabled', coalesceBeforeClaim'} \subseteq BOOLEAN
  BY <1>10, <1>11 DEF Inv, TypeOK
<1>14. Inv'
  BY <1>6, <1>7, <1>8, <1>10, <1>11, <1>12, <1>13, PoolInv
<1> QED BY <1>10, <1>14

LEMMA ClaimFailsInv ==
    ASSUME Inv, ClaimFails
    PROVE  Inv' /\ pc' # "claim"
<1>1. Waiting(pending) /\ StartAvailable(pending)
  BY PendingWaits DEF ClaimFails
<1>2. UNCHANGED <<guard, result, coalesceBeforeClaim, notified, aborted, entries, inFlight, scheduled, closed>>
  BY DEF ClaimFails
<1>3. /\ pc' = (IF Quiescent(pending', active') THEN "returned" ELSE "drain") /\ claim' = None
      /\ failure' = TRUE /\ refillEnabled' = FALSE
  BY DEF ClaimFails
<1>4. LoopOK'
  BY <1>3 DEF LoopOK, Quiescent
<1>5. {failure', notified', refillEnabled', coalesceBeforeClaim'} \subseteq BOOLEAN
  BY <1>2, <1>3 DEF Inv, TypeOK
<1>6. pc' \in Places /\ claim' \in Claims \cup {None}
  BY <1>3 DEF Places, Waits
<1> QED BY <1>1, <1>2, <1>3, <1>4, <1>5, <1>6, NoNewGuard, PoolInv

\* The job that the pool works on may be the only one that changes.
LEMMA AbortInv ==
    ASSUME Inv, Abort
    PROVE  Inv' /\ UNCHANGED <<pc, claim, inFlight>>
<1>1. UNCHANGED <<task, guard, result, pending, active, failure, pc, claim, coalesceBeforeClaim,
                  entries, inFlight, scheduled, refillEnabled, closed>>
  BY DEF Abort, jobVars, loop, batcher
<1>2. notified' \in BOOLEAN /\ aborted' \in BOOLEAN
  BY DEF Abort, Inv, TypeOK
<1> QED BY <1>1, <1>2 DEF Inv, TypeOK, LoopOK, Quiescent

---------------------------------------------------------------------------
(* The steps of the batcher.                                               *)

\* Every queue and every batch holds jobs.
LEMMA Held ==
    ASSUME Inv
    PROVE  /\ ToSet(pending) \subseteq Jobs /\ ToSet(entries) \subseteq Jobs
           /\ \A f \in inFlight : ToSet(f.entries) \subseteq Jobs /\ f \in Batches
           /\ \A k \in Jobs : ToSet(result[k].items) \subseteq Jobs
           /\ pending \in Seq(Jobs) /\ entries \in Seq(Jobs)
           /\ task \in [Jobs -> Tasks] /\ guard \in [Jobs -> Renewed \cup Ending \cup {"none"}]
           /\ inFlight \in SUBSET Batches /\ IsFiniteSet(inFlight)
<1> QED BY DEF Inv, TypeOK, ToSet, Batches, Results

\* Nothing but the batcher and its guards is changed by pump().
LEMMA PumpInv ==
    ASSUME Inv, NEW flights \in SUBSET inFlight, Open(flights) = Open(inFlight), NEW force \in BOOLEAN,
           Pump(entries, flights, force), UNCHANGED <<task, result, pending, active, failure, notified,
               aborted, refillEnabled, coalesceBeforeClaim>>,
           scheduled' \in BOOLEAN, closed' \in BOOLEAN, pc' \in Places, claim' = claim,
           pc' = pc \/ (pc' = "closing" /\ pc = "returned")
    PROVE  Inv' /\ \A f \in inFlight' \ inFlight : f.phase = "stopping"
<1>1. IsFiniteSet(flights) /\ Cardinality(flights) <= CompleteAsyncDepth
  <2>1. IsFiniteSet(flights) /\ Cardinality(flights) <= Cardinality(inFlight)
    BY Held, FS_Subset
  <2>2. Cardinality(flights) \in Nat /\ Cardinality(inFlight) \in Nat
    BY <2>1, Held, FS_CardinalityType
  <2> QED BY <2>1, <2>2, Sizes DEF Inv, BatchedOK
<1>2. BatchedOK(task, entries, flights) /\ GuardsOK(task, guard, entries, flights)
  BY <1>1 DEF Inv, BatchedOK, GuardsOK
<1>3. /\ entries' \in Seq(Jobs) /\ inFlight' \in SUBSET Batches /\ IsFiniteSet(inFlight')
      /\ guard' \in [Jobs -> Renewed \cup Ending \cup {"none"}]
      /\ BatchedOK(task, entries', inFlight') /\ GuardsOK(task, guard', entries', inFlight')
      /\ \A f \in inFlight' \ flights : f.phase = "stopping"
  <2>1. flights \in SUBSET Batches
    BY Held
  <2> QED BY <1>1, <1>2, <2>1, Held, PumpOK
<1>4. TypeOK'
  BY <1>3 DEF Inv, TypeOK
<1>5. LoopOK'
  BY DEF Inv, LoopOK, Quiescent
<1> QED BY <1>3, <1>4, <1>5 DEF Inv

LEMMA PartialFlushInv ==
    ASSUME Inv, PartialFlush
    PROVE  Inv' /\ \A f \in inFlight' \ inFlight : f.phase = "stopping"
<1>1. /\ Pump(entries, inFlight, TRUE) /\ scheduled' = FALSE
      /\ UNCHANGED <<task, result, pending, active, failure, notified, aborted, refillEnabled,
                     coalesceBeforeClaim, pc, claim, closed>>
  BY DEF PartialFlush, pool, loop
<1> QED BY <1>1, PumpInv DEF Inv, TypeOK

LEMMA CloseInv ==
    ASSUME Inv, Close
    PROVE  Inv' /\ \A f \in inFlight' \ inFlight : f.phase = "stopping"
<1>1. /\ Pump(entries, inFlight, TRUE) /\ scheduled' = FALSE /\ closed' = TRUE
      /\ UNCHANGED <<task, result, pending, active, failure, notified, aborted, refillEnabled,
                     coalesceBeforeClaim, claim>>
      /\ pc = "returned" /\ pc' = "closing"
  BY DEF Close
<1> QED BY <1>1, PumpInv DEF Places

LEMMA BatchDoneInv ==
    ASSUME Inv, NEW f \in inFlight, BatchDone(f)
    PROVE  Inv' /\ \A g \in inFlight' \ inFlight : g.phase = "stopping"
<1>1. /\ Pump(entries, inFlight \ {f}, FALSE) /\ scheduled' = (scheduled \/ (entries' # <<>> /\ ~closed))
      /\ UNCHANGED <<task, result, pending, active, failure, notified, aborted, refillEnabled,
                     coalesceBeforeClaim, pc, claim, closed>>
      /\ f.phase = "settled"
  BY DEF BatchDone, PumpThenSchedule, pool, loop
<1>2. Open(inFlight \ {f}) = Open(inFlight)
  BY <1>1 DEF Open
<1>3. scheduled' \in BOOLEAN
  BY <1>1 DEF Inv, TypeOK
<1>4. inFlight \ {f} \in SUBSET inFlight /\ closed' \in BOOLEAN /\ pc' \in Places
  BY <1>1 DEF Inv, TypeOK
<1> DEFINE flights == inFlight \ {f}
<1> HIDE DEF flights
<1>5. Pump(entries, flights, FALSE) /\ Open(flights) = Open(inFlight) /\ flights \in SUBSET inFlight
  BY <1>1, <1>2, <1>4 DEF flights
<1> QED BY <1>1, <1>3, <1>4, <1>5, PumpInv

\* A batch changes: what it loses it settles.
LEMMA UpdateOK ==
    ASSUME Inv, NEW f \in Open(inFlight), NEW g \in Batches, NEW tk \in [Jobs -> Tasks],
           Update(f, g), UNCHANGED entries,
           IF g.phase = "settled" THEN ToSet(f.entries) = {j \in ToSet(f.entries) : tk[j] = "resolved"}
           ELSE /\ g.entries # <<>> /\ ToSet(g.entries) \subseteq ToSet(f.entries)
                /\ \A j \in ToSet(f.entries) : IF j \in ToSet(g.entries) THEN tk[j] = "completing"
                                                                        ELSE tk[j] = "resolved",
           \A j \in Jobs \ ToSet(f.entries) : tk[j] = "completing" <=> task[j] = "completing"
    PROVE  inFlight' \in SUBSET Batches /\ IsFiniteSet(inFlight') /\ BatchedOK(tk, entries', inFlight')
<1>1. inFlight' = (inFlight \ {f}) \cup {g} /\ entries' = entries
  BY DEF Update
<1>2. f \in inFlight /\ f.phase # "settled"
  BY DEF Open
<1>3. inFlight' \in SUBSET Batches /\ IsFiniteSet(inFlight') /\ Cardinality(inFlight') <= CompleteAsyncDepth
  <2>1. IsFiniteSet(inFlight \ {f}) /\ Cardinality(inFlight \ {f}) = Cardinality(inFlight) - 1
    BY <1>2, Held, FS_RemoveElement
  <2> DEFINE others == inFlight \ {f}
  <2>5. IsFiniteSet(others)
    BY <2>1
  <2> HIDE DEF others
  <2>2. IsFiniteSet(others \cup {g}) /\ Cardinality(others \cup {g}) <= Cardinality(others) + 1
    <3>1. Cardinality(others) \in Nat
      BY <2>5, FS_CardinalityType
    <3>2. /\ IsFiniteSet(others \cup {g})
          /\ Cardinality(others \cup {g}) = (IF g \in others THEN Cardinality(others) ELSE Cardinality(others) + 1)
      BY <2>5, FS_AddElement
    <3> QED BY <3>1, <3>2
  <2>3. Cardinality(inFlight) \in Nat /\ Cardinality(inFlight) <= CompleteAsyncDepth
    BY Held, FS_CardinalityType DEF Inv, BatchedOK
  <2>4. Cardinality(others \cup {g}) \in Nat
    BY <2>2, FS_CardinalityType
  <2> QED BY <2>1, <2>2, <2>3, <2>4, <1>1, Held, Sizes DEF others
<1>4. Open(inFlight') = (Open(inFlight) \ {f}) \cup (IF g.phase = "settled" THEN {} ELSE {g})
  BY <1>1 DEF Open
<1>5. BatchedOK(task, entries, inFlight)
  BY DEF Inv
<1>6. \A h \in Open(inFlight) \ {f} : ToSet(h.entries) \cap ToSet(f.entries) = {}
  BY <1>5 DEF BatchedOK
<1>7. ToSet(f.entries) \subseteq Jobs /\ ToSet(f.entries) \cap ToSet(entries) = {}
  BY <1>2, <1>5, Held DEF BatchedOK
<1>8. ASSUME NEW j \in Jobs
      PROVE  tk[j] = "completing" <=>
                 (j \in ToSet(entries) \/ \E h \in Open(inFlight') : j \in ToSet(h.entries))
  <2>1. CASE j \in ToSet(f.entries)
    <3>1. ~ \E h \in Open(inFlight) \ {f} : j \in ToSet(h.entries)
      BY <2>1, <1>6
    <3>2. j \notin ToSet(entries)
      BY <2>1, <1>7
    <3>3. CASE g.phase = "settled"
      BY <3>1, <3>2, <3>3, <2>1, <1>4
    <3>4. CASE g.phase # "settled"
      BY <3>1, <3>2, <3>4, <2>1, <1>4
    <3> QED BY <3>3, <3>4
  <2>2. CASE j \notin ToSet(f.entries)
    <3>1. tk[j] = "completing" <=>
              (j \in ToSet(entries) \/ \E h \in Open(inFlight) : j \in ToSet(h.entries))
      BY <2>2, <1>5 DEF BatchedOK
    <3>2. g.phase # "settled" => j \notin ToSet(g.entries)
      BY <2>2
    <3> QED BY <3>1, <3>2, <2>2, <1>4
  <2> QED BY <2>1, <2>2
<1>9. ASSUME NEW h \in Open(inFlight')
      PROVE  h.entries # <<>> /\ ToSet(h.entries) \cap ToSet(entries) = {}
  BY <1>4, <1>5, <1>7 DEF BatchedOK
<1>10. ASSUME NEW h \in Open(inFlight'), NEW i \in Open(inFlight'), h # i
       PROVE  ToSet(h.entries) \cap ToSet(i.entries) = {}
  <2>1. CASE h \in Open(inFlight) \ {f} /\ i \in Open(inFlight) \ {f}
    BY <2>1, <1>5, <1>10 DEF BatchedOK
  <2>2. CASE g.phase # "settled" /\ (h = g \/ i = g)
    BY <2>2, <1>4, <1>6, <1>10
  <2> QED BY <2>1, <2>2, <1>4, <1>10
<1> QED BY <1>1, <1>3, <1>5, <1>8, <1>9, <1>10 DEF BatchedOK

\* Jobs of a batch are settled: their results and their guards.
LEMMA SendBatchInv ==
    ASSUME Inv, NEW f \in inFlight, SendBatch(f)
    PROVE  /\ Inv' /\ UNCHANGED <<pc, claim>>
           /\ Stopped => \A g \in inFlight' \ inFlight : g.phase = "sent" => ~g.refill
<1> DEFINE held == {j \in ToSet(f.entries) : guard[j] # "lost"}
           lost == ToSet(f.entries) \ held
<1>1. /\ f.phase = "stopping" /\ GuardsSettled(f)
      /\ task' = [j \in Jobs |-> IF j \in lost THEN "resolved" ELSE task[j]]
      /\ result' = [j \in Jobs |-> IF j \in lost THEN [j2 \in Jobs |-> Error][j] ELSE result[j]]
      /\ UNCHANGED <<guard, pending, active, failure, pc, claim, coalesceBeforeClaim, notified, aborted,
                     entries, scheduled, refillEnabled, closed>>
  BY DEF SendBatch, Settle, pool, loop
<1>2. PICK g : /\ Update(f, g)
               /\ \/ held = {} /\ g = [f EXCEPT !.phase = "settled"]
                  \/ \E ready \in SetToSeqs(held) :
                        held # {} /\ g = [entries |-> ready, phase |-> "sent", refill |-> MayRefill]
  BY DEF SendBatch
<1>3. /\ f \in Open(inFlight) /\ f \in Batches /\ held \subseteq ToSet(f.entries) /\ lost \subseteq Jobs
      /\ ToSet(f.entries) \subseteq Jobs /\ ToSet(f.entries) = held \cup lost /\ held \cap lost = {}
  BY <1>1, Held DEF Open
<1>4. \A j \in ToSet(f.entries) : task[j] = "completing"
  BY <1>3 DEF Inv, BatchedOK
<1>5. /\ \A j \in lost : guard[j] = "lost"
      /\ \A j \in held : guard[j] = "stopped"
  BY <1>1 DEF GuardsSettled
<1>6. /\ g \in Batches /\ g.phase \in {"settled", "sent"}
      /\ g.phase = "settled" => held = {}
      /\ g.phase = "sent" => g.entries # <<>> /\ ToSet(g.entries) = held /\ (g.refill => MayRefill)
  <2>1. CASE held = {} /\ g = [f EXCEPT !.phase = "settled"]
    BY <2>1, <1>3 DEF Batches
  <2>2. ASSUME NEW ready \in SetToSeqs(held), held # {},
               g = [entries |-> ready, phase |-> "sent", refill |-> MayRefill]
        PROVE  /\ g \in Batches /\ g.phase = "sent"
               /\ g.entries # <<>> /\ ToSet(g.entries) = held /\ (g.refill => MayRefill)
    <3>1. ready \in Seq(Jobs) /\ ToSet(ready) = held /\ (ready = <<>> <=> held = {})
      <4>1. held \in SUBSET Jobs
        BY <1>3
      <4> HIDE DEF held
      <4> QED BY <4>1, <2>2, SetInOrder
    <3>2. MayRefill \in BOOLEAN
      BY Sizes DEF MayRefill, Inv, TypeOK
    <3> HIDE DEF held
    <3> QED BY <3>1, <3>2, <2>2 DEF Batches
  <2> QED BY <2>1, <2>2, <1>2
<1>7. task \in [Jobs -> Tasks] /\ result \in [Jobs -> Results] /\ Error \in Results /\ Error.items = <<>>
  BY DEF Inv, TypeOK, Results, Error
<1>8. task' \in [Jobs -> Tasks] /\ result' \in [Jobs -> Results]
  BY <1>1, <1>3, <1>7 DEF Tasks, Unfinished
<1> HIDE DEF held, lost
<1>9. inFlight' \in SUBSET Batches /\ IsFiniteSet(inFlight') /\ BatchedOK(task', entries', inFlight')
  <2>1. \A j \in ToSet(f.entries) : IF j \in held THEN task'[j] = "completing" ELSE task'[j] = "resolved"
    BY <1>1, <1>3, <1>4
  <2>2. \A j \in Jobs \ ToSet(f.entries) : task'[j] = "completing" <=> task[j] = "completing"
    BY <1>1, <1>3
  <2>3. IF g.phase = "settled" THEN ToSet(f.entries) = {j \in ToSet(f.entries) : task'[j] = "resolved"}
        ELSE /\ g.entries # <<>> /\ ToSet(g.entries) \subseteq ToSet(f.entries)
             /\ \A j \in ToSet(f.entries) : IF j \in ToSet(g.entries) THEN task'[j] = "completing"
                                                                     ELSE task'[j] = "resolved"
    BY <2>1, <1>3, <1>6
  <2> QED BY <2>2, <2>3, <1>1, <1>2, <1>3, <1>6, <1>8, UpdateOK
<1>10. SlotsOK(task', active') /\ QueueOK(task', pending')
  BY <1>1, <1>3, <1>4 DEF Inv, SlotsOK, QueueOK, Unfinished
<1>11. BroughtOK(task', result')
  <2>1. \A k \in Jobs : result'[k].items = IF k \in lost THEN <<>> ELSE result[k].items
    BY <1>1, <1>7
  <2>2. ToSet(<<>>) = {} /\ Distinct(<<>>)
    BY DEF ToSet, Distinct
  <2>3. \A k \in lost : task[k] = "completing"
    BY <1>3, <1>4
  <2>4. \A k \in lost : ToSet(result[k].items) = {}
    BY <2>3, <1>3 DEF Inv, BroughtOK
  <2>5. \A k \in Jobs : ToSet(result'[k].items) = ToSet(result[k].items) /\ Distinct(result'[k].items)
    BY <2>1, <2>2, <2>4 DEF Inv, BroughtOK
  <2>6. \A j \in Jobs : j \notin lost => task'[j] = task[j]
    BY <1>1
  <2>7. \A j \in lost : task'[j] = "resolved"
    BY <1>1, <1>3
  <2>8. \A k \in Jobs : ToSet(result[k].items) \subseteq Jobs
    BY Held
  <2> QED BY <2>3, <2>4, <2>5, <2>6, <2>7, <2>8 DEF Inv, BroughtOK
<1>12. GuardsOK(task', guard', entries', inFlight')
  <2>1. \A h \in Open(inFlight') : (h = g /\ g.phase = "sent") \/ h \in Open(inFlight)
    BY <1>2, <1>6 DEF Open, Update
  <2>2. ASSUME NEW h \in Open(inFlight'), NEW j \in ToSet(h.entries)
        PROVE  IF h.phase = "stopping" THEN guard[j] \in Ending ELSE guard[j] = "stopped"
    BY <2>1, <2>2, <1>5, <1>6 DEF Inv, GuardsOK
  <2>3. \A j \in Jobs : IF j \in lost THEN task'[j] = "resolved" /\ guard[j] = "lost" ELSE task'[j] = task[j]
    BY <1>1, <1>5
  <2> QED BY <2>2, <2>3, <1>1 DEF Inv, GuardsOK
<1>13. TypeOK'
  BY <1>1, <1>8, <1>9 DEF Inv, TypeOK
<1>14. LoopOK'
  BY <1>1 DEF Inv, LoopOK, Quiescent
<1>15. Inv'
  BY <1>9, <1>10, <1>11, <1>12, <1>13, <1>14 DEF Inv
<1>16. ASSUME Stopped, NEW h \in inFlight' \ inFlight, h.phase = "sent" PROVE ~h.refill
  <2>1. h = g
    BY <1>2, <1>16 DEF Update
  <2>2. ~MayRefill
    BY <1>16 DEF MayRefill, Stopped, Inv, LoopOK
  <2> QED BY <2>1, <2>2, <1>6, <1>16
<1> QED BY <1>1, <1>15, <1>16

LEMMA BatchAnsweredInv ==
    ASSUME Inv, NEW f \in inFlight, BatchAnswered(f)
    PROVE  /\ Inv' /\ UNCHANGED <<pc, claim>>
           /\ \A g \in inFlight' \ inFlight : g.phase # "sent"
<1>1. PICK S \in SUBSET {j \in Jobs : task[j] = "due"}, failing \in BOOLEAN :
         /\ \E new \in SetToSeqs(S) :
              result' = [j \in Jobs |->
                  IF j \notin ToSet(f.entries) THEN result[j]
                  ELSE [items |-> IF j = Head(f.entries) THEN new ELSE <<>>, error |-> failing]]
         /\ task' = [j \in Jobs |-> IF j \in S THEN "claimed"
                                    ELSE IF j \in ToSet(f.entries) THEN "resolved" ELSE task[j]]
         /\ refillEnabled' = (refillEnabled /\ ~failing)
  BY DEF BatchAnswered
<1>2. PICK new \in SetToSeqs(S) :
              result' = [j \in Jobs |->
                  IF j \notin ToSet(f.entries) THEN result[j]
                  ELSE [items |-> IF j = Head(f.entries) THEN new ELSE <<>>, error |-> failing]]
  BY <1>1
<1> DEFINE g == [f EXCEPT !.phase = "settled"]
           settled == ToSet(f.entries)
           first == Head(f.entries)
<1>3. f.phase = "sent" /\ Update(f, g)
      /\ UNCHANGED <<guard, pending, active, failure, pc, claim, coalesceBeforeClaim, notified, aborted,
                     entries, scheduled, closed>>
  BY DEF BatchAnswered, pool, loop
<1>4. /\ f \in Open(inFlight) /\ f \in Batches /\ settled \subseteq Jobs /\ g \in Batches /\ g.phase = "settled"
      /\ f.entries # <<>>
  <2>1. f \in Open(inFlight) /\ f \in Batches /\ settled \subseteq Jobs
    BY <1>3, Held DEF Open
  <2>2. f.entries # <<>>
    BY <2>1 DEF Inv, BatchedOK
  <2> QED BY <2>1, <2>2 DEF Batches
<1>5. first \in settled
  <2>1. f.entries \in Seq(Jobs) /\ 1 \in DOMAIN f.entries /\ Head(f.entries) = f.entries[1]
    BY <1>4 DEF Batches
  <2> QED BY <2>1 DEF ToSet
<1>6. \A j \in settled : task[j] = "completing" /\ guard[j] = "stopped"
  BY <1>3, <1>4 DEF Inv, BatchedOK, GuardsOK
<1>7. S \in SUBSET Jobs /\ new \in Seq(Jobs) /\ ToSet(new) = S /\ Distinct(new)
  BY <1>2, SetInOrder
<1>8. S \cap settled = {} /\ \A j \in S : task[j] = "due"
  BY <1>6
<1>9. task \in [Jobs -> Tasks] /\ result \in [Jobs -> Results]
  BY DEF Inv, TypeOK
<1> HIDE DEF settled, first, g
<1>10. /\ \A j \in Jobs : task'[j] = (IF j \in S THEN "claimed" ELSE IF j \in settled THEN "resolved" ELSE task[j])
       /\ \A j \in Jobs : result'[j] = (IF j \notin settled THEN result[j]
                                        ELSE [items |-> IF j = first THEN new ELSE <<>>, error |-> failing])
       /\ DOMAIN task' = Jobs /\ DOMAIN result' = Jobs
  BY <1>1, <1>2 DEF settled, first
<1>11. task' \in [Jobs -> Tasks] /\ result' \in [Jobs -> Results]
  <2>1. task' \in [Jobs -> Tasks]
    BY <1>1, <1>9 DEF Tasks, Unfinished
  <2>2. \A j \in Jobs : result'[j] \in Results
    <3>1. <<>> \in Seq(Jobs)
      OBVIOUS
    <3>2. \A items \in Seq(Jobs) : [items |-> items, error |-> failing] \in Results
      BY DEF Results
    <3>3. \A j \in Jobs : (IF j = first THEN new ELSE <<>>) \in Seq(Jobs)
      BY <1>7, <3>1
    <3> QED BY <3>2, <3>3, <1>9, <1>10
  <2> QED BY <2>1, <2>2, <1>2
<1>12. inFlight' \in SUBSET Batches /\ IsFiniteSet(inFlight') /\ BatchedOK(task', entries', inFlight')
  <2>1. settled = {j \in settled : task'[j] = "resolved"}
    BY <1>4, <1>8, <1>10
  <2>2. \A j \in Jobs \ settled : task'[j] = "completing" <=> task[j] = "completing"
    BY <1>8, <1>10
  <2> QED BY <2>1, <2>2, <1>3, <1>4, <1>11, UpdateOK DEF settled
<1>13. SlotsOK(task', active') /\ QueueOK(task', pending')
  <2>1. \A j \in Jobs : /\ task'[j] \in Unfinished <=> task[j] \in Unfinished
                        /\ task'[j] = "pending" <=> task[j] = "pending"
    BY <1>6, <1>8, <1>10 DEF Unfinished
  <2> QED BY <2>1, <1>3 DEF Inv, SlotsOK, QueueOK
<1>14. BroughtOK(task', result')
  <2>1. ToSet(<<>>) = {} /\ Distinct(<<>>)
    BY DEF ToSet, Distinct
  <2>2. \A k \in Jobs : result'[k].items = IF k = first THEN new ELSE IF k \in settled THEN <<>> ELSE result[k].items
    BY <1>5, <1>10
  <2>3. \A k \in settled : ToSet(result[k].items) = {}
    BY <1>4, <1>6 DEF Inv, BroughtOK
  <2>4. \A k \in Jobs : ToSet(result'[k].items) = IF k = first THEN S ELSE ToSet(result[k].items)
    BY <2>1, <2>2, <2>3, <1>7
  <2>5. \A k \in Jobs : Distinct(result'[k].items)
    BY <2>1, <2>2, <1>7 DEF Inv, BroughtOK
  <2>6. \A k \in Jobs : \A j \in ToSet(result[k].items) : task[j] = "claimed" /\ task[k] = "resolved" /\ j \in Jobs
    BY Held DEF Inv, BroughtOK
  <2>7. first \in Jobs /\ task'[first] = "resolved"
    BY <1>4, <1>5, <1>8, <1>10
  <2>8. \A k \in Jobs : \A j \in ToSet(result'[k].items) : task'[j] = "claimed" /\ task'[k] = "resolved"
    <3>1. \A j \in ToSet(result'[first].items) : task'[j] = "claimed" /\ task'[first] = "resolved"
      BY <2>4, <2>7, <1>7, <1>10
    <3>2. ASSUME NEW k \in Jobs, k # first, NEW j \in ToSet(result'[k].items)
          PROVE  task'[j] = "claimed" /\ task'[k] = "resolved"
      <4>1. j \in ToSet(result[k].items)
        BY <3>2, <2>4
      <4>2. task[j] = "claimed" /\ task[k] = "resolved" /\ j \in Jobs
        BY <4>1, <2>6
      <4> QED BY <4>1, <4>2, <3>2, <2>3, <2>4, <2>7, <1>4, <1>6, <1>7, <1>8, <1>10
    <3> QED BY <3>1, <3>2, <2>7
  <2>9. ASSUME NEW j \in Jobs, task'[j] = "claimed" PROVE \E k \in Jobs : j \in ToSet(result'[k].items)
    <3>1. CASE j \in S
      BY <3>1, <2>4, <2>7
    <3>2. CASE j \notin S
      <4>1. task[j] = "claimed"
        BY <3>2, <2>9, <1>10
      <4>2. PICK k \in Jobs : j \in ToSet(result[k].items)
        BY <4>1 DEF Inv, BroughtOK
      <4>3. k # first
        BY <4>2, <2>3, <1>5
      <4> QED BY <4>2, <4>3, <2>4
    <3> QED BY <3>1, <3>2
  <2>10. ASSUME NEW k \in Jobs, NEW l \in Jobs, k # l
         PROVE  ToSet(result'[k].items) \cap ToSet(result'[l].items) = {}
    <3>1. \A m \in Jobs : S \cap ToSet(result[m].items) = {}
      BY <2>6, <1>8
    <3> QED BY <3>1, <2>4, <2>10 DEF Inv, BroughtOK
  <2> QED BY <2>5, <2>8, <2>9, <2>10 DEF BroughtOK
<1>15. GuardsOK(task', guard', entries', inFlight')
  <2>1. Open(inFlight') \subseteq Open(inFlight)
    BY <1>3, <1>4 DEF Open, Update
  <2>2. ASSUME NEW j \in Jobs
        PROVE  /\ task'[j] \in {"absent", "due", "claimed"} => guard[j] = "none"
               /\ task'[j] \in {"pending", "started", "handling"} => guard[j] \in Renewed
               /\ task'[j] = "stopping" => guard[j] \in Ending
               /\ task'[j] = "sent" => guard[j] = "stopped"
               /\ task'[j] \in {"resolved", "ended", "done"} => guard[j] \in {"stopped", "lost"}
    BY <1>6, <1>8, <1>10 DEF Inv, GuardsOK
  <2> QED BY <2>1, <2>2, <1>3 DEF Inv, GuardsOK
<1>16. TypeOK'
  BY <1>1, <1>3, <1>11, <1>12 DEF Inv, TypeOK
<1>17. LoopOK'
  BY <1>1, <1>3 DEF Inv, LoopOK, Quiescent
<1>18. Inv'
  BY <1>12, <1>13, <1>14, <1>15, <1>16, <1>17 DEF Inv
<1>19. \A h \in inFlight' \ inFlight : h.phase # "sent"
  BY <1>3, <1>4 DEF Update
<1> QED BY <1>3, <1>18, <1>19

---------------------------------------------------------------------------
(* The steps of a job, and of its guard.                                   *)

\* The guard of a job that is not in a batch.
GuardFits(t, g) == /\ t \in {"started", "handling"} => g \in Renewed
                   /\ t = "stopping" => g \in Ending
                   /\ t = "sent" => g = "stopped"
                   /\ t = "resolved" => g \in {"stopped", "lost"}

\* A job that the pool handles goes on, or gets a result that brings no other job.
LEMMA JobInv ==
    ASSUME Inv, NEW j \in Jobs, task[j] \in {"started", "handling", "stopping", "sent"},
           NEW t \in {"handling", "stopping", "sent", "resolved"},
           NEW g \in Renewed \cup Ending, GuardFits(t, g),
           task' = [task EXCEPT ![j] = t], guard' = [guard EXCEPT ![j] = g],
           NEW r \in Results, r.items = <<>>,
           result' = result \/ result' = [result EXCEPT ![j] = r],
           UNCHANGED <<pool, batcher>>
    PROVE  Inv' /\ UNCHANGED <<pc, claim, inFlight>>
<1>1. /\ task \in [Jobs -> Tasks] /\ result \in [Jobs -> Results]
      /\ guard \in [Jobs -> Renewed \cup Ending \cup {"none"}]
  BY DEF Inv, TypeOK
<1>2. UNCHANGED <<pending, active, failure, pc, claim, coalesceBeforeClaim, notified, aborted,
                  entries, inFlight, scheduled, refillEnabled, closed>>
  BY DEF pool, loop, batcher
<1>3. /\ \A k \in Jobs : task'[k] = (IF k = j THEN t ELSE task[k]) /\ guard'[k] = (IF k = j THEN g ELSE guard[k])
      /\ task' \in [Jobs -> Tasks] /\ result' \in [Jobs -> Results]
      /\ guard' \in [Jobs -> Renewed \cup Ending \cup {"none"}]
  BY <1>1 DEF Tasks, Unfinished
<1>4. /\ SlotsOK(task', active') /\ QueueOK(task', pending')
  BY <1>2, <1>3 DEF Inv, SlotsOK, QueueOK, Unfinished
<1>5. BroughtOK(task', result')
  <2>1. ToSet(<<>>) = {} /\ Distinct(<<>>)
    BY DEF ToSet, Distinct
  <2>2. ToSet(result[j].items) = {}
    BY DEF Inv, BroughtOK
  <2>3. \A k \in Jobs : ToSet(result'[k].items) = ToSet(result[k].items) /\ Distinct(result'[k].items)
    <3>1. CASE result' = result
      BY <3>1 DEF Inv, BroughtOK
    <3>2. CASE result' = [result EXCEPT ![j] = r]
      <4>1. \A k \in Jobs : result'[k] = IF k = j THEN r ELSE result[k]
        BY <3>2, <1>1
      <4> QED BY <4>1, <2>1, <2>2 DEF Inv, BroughtOK
    <3> QED BY <3>1, <3>2
  <2>4. \A k \in Jobs : task'[k] = "claimed" <=> task[k] = "claimed"
    BY <1>3
  <2>5. \A k \in Jobs : task[k] = "resolved" => task'[k] = "resolved"
    BY <1>3
  <2>6. \A k \in Jobs : ToSet(result[k].items) \subseteq Jobs
    BY Held
  <2>7. BroughtOK(task, result)
    BY DEF Inv
  <2>8. \A k \in Jobs : \A i \in ToSet(result'[k].items) : task'[i] = "claimed" /\ task'[k] = "resolved"
    BY <2>3, <2>4, <2>5, <2>6, <2>7 DEF BroughtOK
  <2>9. \A i \in Jobs : task'[i] = "claimed" => \E k \in Jobs : i \in ToSet(result'[k].items)
    BY <2>3, <2>4, <2>7 DEF BroughtOK
  <2>10. \A k, l \in Jobs : k # l => ToSet(result'[k].items) \cap ToSet(result'[l].items) = {}
    BY <2>3, <2>7 DEF BroughtOK
  <2> QED BY <2>3, <2>8, <2>9, <2>10 DEF BroughtOK
<1>6. BatchedOK(task', entries', inFlight')
  BY <1>2, <1>3 DEF Inv, BatchedOK
<1>7. GuardsOK(task', guard', entries', inFlight')
  <2>1. j \notin ToSet(entries) /\ \A f \in Open(inFlight) : j \notin ToSet(f.entries)
    BY DEF Inv, BatchedOK
  <2>2. /\ ToSet(entries) \subseteq Jobs
        /\ \A f \in Open(inFlight) : ToSet(f.entries) \subseteq Jobs
    BY Held DEF Open
  <2>3. \A k \in ToSet(entries) : guard'[k] = guard[k]
    BY <2>1, <2>2, <1>3
  <2>4. \A f \in Open(inFlight) : \A k \in ToSet(f.entries) : guard'[k] = guard[k]
    BY <2>1, <2>2, <1>3
  <2>5. ASSUME NEW k \in Jobs
        PROVE  /\ task'[k] \in {"absent", "due", "claimed"} => guard'[k] = "none"
               /\ task'[k] \in {"pending", "started", "handling"} => guard'[k] \in Renewed
               /\ task'[k] = "stopping" => guard'[k] \in Ending
               /\ task'[k] = "sent" => guard'[k] = "stopped"
               /\ task'[k] \in {"resolved", "ended", "done"} => guard'[k] \in {"stopped", "lost"}
    BY <1>3 DEF Inv, GuardsOK, GuardFits
  <2> QED BY <2>3, <2>4, <2>5, <1>2 DEF Inv, GuardsOK
<1>8. TypeOK'
  BY <1>2, <1>3 DEF Inv, TypeOK
<1>9. LoopOK'
  BY <1>2 DEF Inv, LoopOK, Quiescent
<1> QED BY <1>2, <1>4, <1>5, <1>6, <1>7, <1>8, <1>9 DEF Inv

\* The results of a single job.
LEMMA OneResult ==
    /\ NoResult \in Results /\ NoResult.items = <<>>
    /\ Error \in Results /\ Error.items = <<>>
<1>1. <<>> \in Seq(Jobs)
  OBVIOUS
<1> QED BY <1>1 DEF NoResult, Error, Results

LEMMA SettleOne ==
    ASSUME Inv, NEW j \in Jobs, NEW r, Settle({j}, [k \in Jobs |-> r])
    PROVE  task' = [task EXCEPT ![j] = "resolved"] /\ result' = [result EXCEPT ![j] = r]
BY DEF Settle, Inv, TypeOK

LEMMA SameGuard ==
    ASSUME Inv, NEW j \in Jobs, UNCHANGED guard
    PROVE  guard' = [guard EXCEPT ![j] = guard[j]]
BY DEF Inv, TypeOK

LEMMA GuardOf ==
    ASSUME Inv, NEW j \in Jobs
    PROVE  /\ task[j] \in {"pending", "started", "handling"} => guard[j] \in Renewed
           /\ task[j] = "stopping" => guard[j] \in Ending
           /\ task[j] = "sent" => guard[j] = "stopped"
           /\ guard[j] \in Renewed => Stop(guard[j]) \in Ending
           /\ Stop("failed") = "lost"
BY DEF Inv, GuardsOK, Stop, Renewed, Ending

LEMMA HandleInv ==
    ASSUME Inv, NEW j \in Jobs, Handle(j)
    PROVE  Inv' /\ UNCHANGED <<pc, claim, inFlight>>
<1>1. task[j] = "started" /\ guard[j] \in Renewed /\ UNCHANGED <<pool, batcher>>
  BY GuardOf DEF Handle
<1>2. CASE /\ guard[j] # "failed"
           /\ task' = [task EXCEPT ![j] = "handling"]
           /\ UNCHANGED <<guard, result>>
  <2>1. guard' = [guard EXCEPT ![j] = guard[j]] /\ GuardFits("handling", guard[j])
    BY <1>1, <1>2, SameGuard DEF GuardFits
  <2> QED BY <1>1, <1>2, <2>1, OneResult, JobInv
<1>3. CASE /\ guard[j] = "failed"
           /\ guard' = [guard EXCEPT ![j] = Stop(@)]
           /\ Settle({j}, [k \in Jobs |-> Error])
  <2>1. guard' = [guard EXCEPT ![j] = "lost"] /\ GuardFits("resolved", "lost") /\ "lost" \in Ending
    BY <1>3, GuardOf DEF GuardFits, Ending
  <2>2. task' = [task EXCEPT ![j] = "resolved"] /\ result' = [result EXCEPT ![j] = Error]
    BY <1>3, SettleOne
  <2> QED BY <1>1, <2>1, <2>2, OneResult, JobInv
<1> QED BY <1>2, <1>3 DEF Handle

LEMMA ApplyInv ==
    ASSUME Inv, NEW j \in Jobs, Apply(j)
    PROVE  Inv' /\ UNCHANGED <<pc, claim, inFlight>>
<1>1. /\ task[j] = "handling" /\ guard[j] \in Renewed /\ UNCHANGED <<pool, batcher>> /\ result' = result
      /\ task' = [task EXCEPT ![j] = "stopping"]
      /\ guard' = [guard EXCEPT ![j] = Stop(guard[j])]
  BY GuardOf DEF Apply
<1>2. Stop(guard[j]) \in Ending /\ GuardFits("stopping", Stop(guard[j]))
  BY <1>1, GuardOf DEF GuardFits
<1> DEFINE g == Stop(guard[j])
<1> HIDE DEF g
<1>3. g \in Ending /\ GuardFits("stopping", g) /\ guard' = [guard EXCEPT ![j] = g]
  BY <1>1, <1>2 DEF g
<1> QED BY <1>1, <1>3, OneResult, JobInv

LEMMA SendInv ==
    ASSUME Inv, NEW j \in Jobs, Send(j)
    PROVE  Inv' /\ UNCHANGED <<pc, claim, inFlight>>
<1>1. task[j] = "stopping" /\ guard[j] \in Ending /\ UNCHANGED <<guard, pool, batcher>>
  BY GuardOf DEF Send
<1>2. guard' = [guard EXCEPT ![j] = guard[j]]
  BY <1>1, SameGuard
<1>3. CASE guard[j] = "stopped" /\ task' = [task EXCEPT ![j] = "sent"] /\ UNCHANGED result
  <2>1. GuardFits("sent", guard[j])
    BY <1>3 DEF GuardFits
  <2> QED BY <1>1, <1>2, <1>3, <2>1, OneResult, JobInv
<1>4. CASE guard[j] = "lost" /\ Settle({j}, [k \in Jobs |-> Error])
  <2>1. GuardFits("resolved", guard[j])
    BY <1>4 DEF GuardFits
  <2>2. task' = [task EXCEPT ![j] = "resolved"] /\ result' = [result EXCEPT ![j] = Error]
    BY <1>4, SettleOne
  <2> QED BY <1>1, <1>2, <2>1, <2>2, OneResult, JobInv
<1> QED BY <1>3, <1>4 DEF Send

LEMMA AppliedInv ==
    ASSUME Inv, NEW j \in Jobs, Applied(j)
    PROVE  Inv' /\ UNCHANGED <<pc, claim, inFlight>>
<1>1. task[j] = "sent" /\ guard[j] = "stopped" /\ UNCHANGED <<guard, pool, batcher>>
  BY GuardOf DEF Applied
<1>2. PICK r \in {NoResult, Error} : Settle({j}, [k \in Jobs |-> r])
  BY DEF Applied
<1>3. task' = [task EXCEPT ![j] = "resolved"] /\ result' = [result EXCEPT ![j] = r]
  BY <1>2, SettleOne
<1>4. r \in Results /\ r.items = <<>>
  BY OneResult
<1>5. GuardFits("resolved", guard[j]) /\ guard[j] \in Ending /\ guard' = [guard EXCEPT ![j] = guard[j]]
  BY <1>1, SameGuard DEF GuardFits, Ending
<1> QED BY <1>1, <1>3, <1>4, <1>5, JobInv

LEMMA CompleteInv ==
    ASSUME Inv, NEW j \in Jobs, Complete(j)
    PROVE  /\ Inv' /\ UNCHANGED <<pc, claim>>
           /\ \A f \in inFlight' \ inFlight : f.phase # "sent"
<1> DEFINE waiting == Append(entries, j)
<1>1. /\ task[j] = "handling" /\ task' = [task EXCEPT ![j] = "completing"]
      /\ Pump(waiting, inFlight, FALSE) /\ scheduled' = (scheduled \/ (entries' # <<>> /\ ~closed))
      /\ UNCHANGED <<result, pending, active, failure, pc, claim, coalesceBeforeClaim, notified, aborted,
                     refillEnabled, closed>>
  BY DEF Complete, PumpThenSchedule, pool, loop
<1>2. j \notin ToSet(entries) /\ \A f \in Open(inFlight) : j \notin ToSet(f.entries)
  BY <1>1 DEF Inv, BatchedOK
<1>3. waiting \in Seq(Jobs) /\ ToSet(waiting) = ToSet(entries) \cup {j} /\ Distinct(waiting)
  <2>1. Distinct(entries)
    BY DEF Inv, BatchedOK
  <2> QED BY <2>1, <1>2, Held, AppendJob
<1> HIDE DEF waiting
<1>4. /\ task' \in [Jobs -> Tasks] /\ task \in [Jobs -> Tasks]
      /\ \A k \in Jobs : task'[k] = IF k = j THEN "completing" ELSE task[k]
  BY <1>1, Held DEF Tasks, Unfinished
<1>5. BatchedOK(task', waiting, inFlight)
  <2>1. \A k \in Jobs : task'[k] = "completing" <=>
           (k \in ToSet(waiting) \/ \E f \in Open(inFlight) : k \in ToSet(f.entries))
    BY <1>2, <1>3, <1>4 DEF Inv, BatchedOK
  <2>2. BatchedOK(task, entries, inFlight)
    BY DEF Inv
  <2>3. \A f \in Open(inFlight) : f.entries # <<>> /\ ToSet(f.entries) \cap ToSet(waiting) = {}
    BY <2>2, <1>2, <1>3 DEF BatchedOK
  <2> QED BY <2>1, <2>2, <2>3, <1>3 DEF BatchedOK
<1>6. GuardsOK(task', guard, waiting, inFlight)
  <2>1. guard[j] \in Renewed
    BY <1>1, GuardOf
  <2> QED BY <2>1, <1>3, <1>4 DEF Inv, GuardsOK
<1>7. /\ entries' \in Seq(Jobs) /\ inFlight' \in SUBSET Batches /\ IsFiniteSet(inFlight')
      /\ guard' \in [Jobs -> Renewed \cup Ending \cup {"none"}]
      /\ BatchedOK(task', entries', inFlight') /\ GuardsOK(task', guard', entries', inFlight')
      /\ \A f \in inFlight' \ inFlight : f.phase = "stopping"
  <2> DEFINE tk == task'
  <2>1. tk \in [Jobs -> Tasks] /\ BatchedOK(tk, waiting, inFlight) /\ GuardsOK(tk, guard, waiting, inFlight)
    BY <1>4, <1>5, <1>6
  <2> HIDE DEF tk
  <2>2. /\ entries' \in Seq(Jobs) /\ inFlight' \in SUBSET Batches /\ IsFiniteSet(inFlight')
        /\ guard' \in [Jobs -> Renewed \cup Ending \cup {"none"}]
        /\ BatchedOK(tk, entries', inFlight') /\ GuardsOK(tk, guard', entries', inFlight')
        /\ \A f \in inFlight' \ inFlight : f.phase = "stopping"
    BY <2>1, <1>1, <1>3, Held, PumpOK
  <2> QED BY <2>2 DEF tk
<1>8. SlotsOK(task', active') /\ QueueOK(task', pending')
  BY <1>1, <1>4 DEF Inv, SlotsOK, QueueOK, Unfinished
<1>9. BroughtOK(task', result')
  <2>1. \A k \in Jobs : /\ task'[k] = "claimed" <=> task[k] = "claimed"
                        /\ task'[k] = "resolved" <=> task[k] = "resolved"
    BY <1>1, <1>4
  <2> QED BY <2>1, <1>1, Held DEF Inv, BroughtOK
<1>10. TypeOK'
  <2>1. scheduled' \in BOOLEAN
    BY <1>1 DEF Inv, TypeOK
  <2> QED BY <2>1, <1>1, <1>4, <1>7 DEF Inv, TypeOK
<1>11. LoopOK'
  BY <1>1 DEF Inv, LoopOK, Quiescent
<1> QED BY <1>1, <1>7, <1>8, <1>9, <1>10, <1>11 DEF Inv

\* The replacements that a result brings join the queue.
LEMMA TakeResultInv ==
    ASSUME Inv, NEW j \in Jobs, TakeResult(j)
    PROVE  Inv' /\ UNCHANGED <<pc, claim, inFlight>>
<1> DEFINE items == result[j].items
           new == ToSet(items)
<1>1. /\ task[j] = "resolved"
      /\ pending' = pending \o items
      /\ task' = [k \in Jobs |-> IF k = j THEN "ended" ELSE IF k \in new THEN "pending" ELSE task[k]]
      /\ guard' = [k \in Jobs |-> IF k \in new THEN "active" ELSE guard[k]]
      /\ failure' = (failure \/ result[j].error)
      /\ refillEnabled' = (refillEnabled /\ ~failure')
      /\ notified' = (notified \/ (result[j].error /\ pc \in Waits))
      /\ result' = [result EXCEPT ![j] = NoResult]
      /\ UNCHANGED <<active, pc, claim, coalesceBeforeClaim, aborted, entries, inFlight, scheduled, closed>>
  BY DEF TakeResult, loop
<1>2. result \in [Jobs -> Results] /\ items \in Seq(Jobs) /\ new \subseteq Jobs /\ Distinct(items) /\ result[j].error \in BOOLEAN
  BY Held DEF Inv, TypeOK, Results, BroughtOK
<1>3. j \notin new /\ \A k \in new : task[k] = "claimed"
  BY <1>1 DEF Inv, BroughtOK
<1> HIDE DEF items, new
<1>4. /\ task' \in [Jobs -> Tasks] /\ task \in [Jobs -> Tasks] /\ guard' \in [Jobs -> Renewed \cup Ending \cup {"none"}]
      /\ \A k \in Jobs : task'[k] = IF k = j THEN "ended" ELSE IF k \in new THEN "pending" ELSE task[k]
      /\ \A k \in Jobs : guard'[k] = IF k \in new THEN "active" ELSE guard[k]
  BY <1>1, Held DEF Tasks, Unfinished, Renewed
<1>5. \A k \in Jobs : result'[k] = IF k = j THEN NoResult ELSE result[k]
  BY <1>1, <1>2
<1>6. ToSet(pending) \cap new = {}
  BY <1>3, Held DEF Inv, QueueOK
<1>7. pending' \in Seq(Jobs) /\ ToSet(pending') = ToSet(pending) \cup new /\ Distinct(pending')
  <2>1. Distinct(pending)
    BY DEF Inv, QueueOK
  <2>2. pending \in Seq(Jobs)
    BY Held
  <2> QED BY <2>1, <2>2, <1>1, <1>2, <1>6, Joined DEF new
<1>8. SlotsOK(task', active') /\ QueueOK(task', pending')
  <2>1. \A k \in Jobs : task'[k] \in Unfinished <=> task[k] \in Unfinished
    BY <1>1, <1>3, <1>4 DEF Unfinished
  <2>2. \A k \in Jobs : task'[k] = "pending" <=> k \in ToSet(pending')
    BY <1>1, <1>3, <1>4, <1>7 DEF Inv, QueueOK
  <2> QED BY <2>1, <2>2, <1>1, <1>7 DEF Inv, SlotsOK, QueueOK
<1>9. BroughtOK(task', result')
  <2>1. ToSet(<<>>) = {} /\ Distinct(<<>>)
    BY DEF ToSet, Distinct
  <2>2. \A k \in Jobs : result'[k].items = IF k = j THEN <<>> ELSE result[k].items
    BY <1>5, OneResult
  <2>3. \A k \in Jobs \ {j} : ToSet(result[k].items) \cap new = {}
    BY <1>3 DEF Inv, BroughtOK, new, items
  <2>4. \A k \in Jobs : Distinct(result'[k].items)
    BY <2>1, <2>2 DEF Inv, BroughtOK
  <2>5. ASSUME NEW k \in Jobs, NEW i \in ToSet(result'[k].items)
        PROVE  task'[i] = "claimed" /\ task'[k] = "resolved"
    <3>1. k # j /\ i \in ToSet(result[k].items)
      BY <2>1, <2>2, <2>5
    <3>2. task[i] = "claimed" /\ task[k] = "resolved" /\ i \in Jobs /\ i \notin new
      BY <3>1, <2>3, Held DEF Inv, BroughtOK
    <3> QED BY <3>1, <3>2, <1>1, <1>3, <1>4
  <2>6. ASSUME NEW i \in Jobs, task'[i] = "claimed" PROVE \E k \in Jobs : i \in ToSet(result'[k].items)
    <3>1. task[i] = "claimed" /\ i \notin new
      BY <2>6, <1>4
    <3>2. PICK k \in Jobs : i \in ToSet(result[k].items)
      BY <3>1 DEF Inv, BroughtOK
    <3>3. k # j
      BY <3>1, <3>2 DEF new, items
    <3> QED BY <3>2, <3>3, <2>2
  <2>7. ASSUME NEW k \in Jobs, NEW l \in Jobs, k # l
        PROVE  ToSet(result'[k].items) \cap ToSet(result'[l].items) = {}
    BY <2>1, <2>2, <2>7 DEF Inv, BroughtOK
  <2> QED BY <2>4, <2>5, <2>6, <2>7 DEF BroughtOK
<1>10. BatchedOK(task', entries', inFlight')
  <2>1. \A k \in Jobs : task'[k] = "completing" <=> task[k] = "completing"
    BY <1>1, <1>3, <1>4
  <2> QED BY <2>1, <1>1 DEF Inv, BatchedOK
<1>11. GuardsOK(task', guard', entries', inFlight')
  <2>1. \A k \in ToSet(entries) : k \in Jobs /\ k \notin new
    BY <1>3, Held DEF Inv, BatchedOK
  <2>2. \A f \in Open(inFlight) : \A k \in ToSet(f.entries) : k \in Jobs /\ k \notin new
    BY <1>3, Held DEF Inv, BatchedOK, Open
  <2>3. ASSUME NEW k \in Jobs
        PROVE  /\ task'[k] \in {"absent", "due", "claimed"} => guard'[k] = "none"
               /\ task'[k] \in {"pending", "started", "handling"} => guard'[k] \in Renewed
               /\ task'[k] = "stopping" => guard'[k] \in Ending
               /\ task'[k] = "sent" => guard'[k] = "stopped"
               /\ task'[k] \in {"resolved", "ended", "done"} => guard'[k] \in {"stopped", "lost"}
    BY <1>1, <1>3, <1>4 DEF Inv, GuardsOK, Renewed
  <2> QED BY <2>1, <2>2, <2>3, <1>1, <1>4 DEF Inv, GuardsOK
<1>12. TypeOK'
  <2>1. result' \in [Jobs -> Results]
    BY <1>1, <1>2, OneResult
  <2>2. {failure', refillEnabled', notified'} \subseteq BOOLEAN
    BY <1>1, <1>2 DEF Inv, TypeOK
  <2> QED BY <2>1, <2>2, <1>1, <1>4, <1>7 DEF Inv, TypeOK
<1>13. LoopOK'
  <2>1. j \in active
    BY <1>1 DEF Inv, SlotsOK, Unfinished
  <2> QED BY <2>1, <1>1 DEF Inv, LoopOK, Quiescent
<1> QED BY <1>1, <1>8, <1>9, <1>10, <1>11, <1>12, <1>13 DEF Inv

LEMMA TaskEndsInv ==
    ASSUME Inv, NEW j \in Jobs, TaskEnds(j)
    PROVE  Inv' /\ UNCHANGED <<pc, claim, inFlight>>
<1>1. /\ task[j] = "ended" /\ task' = [task EXCEPT ![j] = "done"] /\ active' = active \ {j}
      /\ notified' = (notified \/ pc \in Waits)
      /\ UNCHANGED <<guard, result, pending, failure, pc, claim, coalesceBeforeClaim, aborted,
                     entries, inFlight, scheduled, refillEnabled, closed>>
  BY DEF TaskEnds, loop, batcher
<1>2. /\ task' \in [Jobs -> Tasks] /\ task \in [Jobs -> Tasks]
      /\ \A k \in Jobs : task'[k] = IF k = j THEN "done" ELSE task[k]
  BY <1>1, Held DEF Tasks
<1>3. SlotsOK(task', active')
  <2>1. Cardinality(active') <= Concurrency
    <3>1. IsFiniteSet(active) /\ Cardinality(active) \in Nat /\ Cardinality(active) <= Concurrency
      BY Sizes, FS_Subset, FS_CardinalityType DEF Inv, TypeOK, SlotsOK
    <3>2. active' \in SUBSET active
      BY <1>1
    <3>3. IsFiniteSet(active') /\ Cardinality(active') <= Cardinality(active)
      BY <3>1, <3>2, FS_Subset
    <3>4. Cardinality(active') \in Nat
      BY <3>3, FS_CardinalityType
    <3> QED BY <3>1, <3>3, <3>4, Sizes
  <2>2. \A k \in Jobs : task'[k] \in Unfinished <=> k \in active'
    BY <1>1, <1>2 DEF Inv, SlotsOK, Unfinished
  <2> QED BY <2>1, <2>2 DEF SlotsOK
<1>4. QueueOK(task', pending') /\ BatchedOK(task', entries', inFlight')
  BY <1>1, <1>2 DEF Inv, QueueOK, BatchedOK
<1>5. BroughtOK(task', result')
  <2>1. \A k \in Jobs : /\ task'[k] = "claimed" <=> task[k] = "claimed"
                        /\ task'[k] = "resolved" <=> task[k] = "resolved"
    BY <1>1, <1>2
  <2> QED BY <2>1, <1>1, Held DEF Inv, BroughtOK
<1>6. GuardsOK(task', guard', entries', inFlight')
  BY <1>1, <1>2 DEF Inv, GuardsOK
<1>7. TypeOK'
  <2>1. notified' \in BOOLEAN /\ active' \subseteq Jobs
    BY <1>1 DEF Inv, TypeOK
  <2> QED BY <2>1, <1>1, <1>2 DEF Inv, TypeOK
<1>8. LoopOK'
  BY <1>1 DEF Inv, LoopOK, Quiescent
<1> QED BY <1>1, <1>3, <1>4, <1>5, <1>6, <1>7, <1>8 DEF Inv

\* Only the guard of j changes, between values that mean the same where j is.
LEMMA GuardInv ==
    ASSUME Inv, NEW j \in Jobs, NEW g, guard' = [guard EXCEPT ![j] = g],
           \/ guard[j] \in Renewed /\ g \in Renewed
           \/ guard[j] = "stopping" /\ g \in {"stopped", "lost"},
           UNCHANGED <<task, result, pool, batcher>>
    PROVE  Inv' /\ UNCHANGED <<pc, claim, inFlight>>
<1>1. UNCHANGED <<task, result, pending, active, failure, pc, claim, coalesceBeforeClaim, notified, aborted,
                  entries, inFlight, scheduled, refillEnabled, closed>>
  BY DEF pool, loop, batcher
<1>2. /\ guard' \in [Jobs -> Renewed \cup Ending \cup {"none"}]
      /\ \A k \in Jobs : \/ guard'[k] = guard[k]
                         \/ guard[k] \in Renewed /\ guard'[k] \in Renewed
                         \/ guard[k] = "stopping" /\ guard'[k] \in {"stopped", "lost"}
  BY Held DEF Renewed, Ending
<1>3. GuardsOK(task', guard', entries', inFlight')
  <2>1. /\ ToSet(entries) \subseteq Jobs
        /\ \A f \in Open(inFlight) : ToSet(f.entries) \subseteq Jobs
    BY Held DEF Open
  <2>2. \A k \in ToSet(entries) : guard'[k] \in Renewed
    BY <2>1, <1>2 DEF Inv, GuardsOK, Renewed
  <2>3. ASSUME NEW f \in Open(inFlight), NEW k \in ToSet(f.entries)
        PROVE  IF f.phase = "stopping" THEN guard'[k] \in Ending ELSE guard'[k] = "stopped"
    <3>1. k \in Jobs /\ IF f.phase = "stopping" THEN guard[k] \in Ending ELSE guard[k] = "stopped"
      BY <2>1, <2>3 DEF Inv, GuardsOK
    <3> QED BY <3>1, <1>2 DEF Renewed, Ending
  <2>4. ASSUME NEW k \in Jobs
        PROVE  /\ task'[k] \in {"absent", "due", "claimed"} => guard'[k] = "none"
               /\ task'[k] \in {"pending", "started", "handling"} => guard'[k] \in Renewed
               /\ task'[k] = "stopping" => guard'[k] \in Ending
               /\ task'[k] = "sent" => guard'[k] = "stopped"
               /\ task'[k] \in {"resolved", "ended", "done"} => guard'[k] \in {"stopped", "lost"}
    BY <1>1, <1>2 DEF Inv, GuardsOK, Renewed, Ending
  <2> QED BY <2>2, <2>3, <2>4, <1>1 DEF GuardsOK
<1> QED BY <1>1, <1>2, <1>3 DEF Inv, TypeOK, LoopOK, Quiescent

LEMMA DueInv ==
    ASSUME Inv, NEW j \in Jobs, Due(j)
    PROVE  Inv' /\ UNCHANGED <<pc, claim, inFlight>>
<1>1. /\ task[j] = "absent" /\ task' = [task EXCEPT ![j] = "due"]
      /\ UNCHANGED <<guard, result, pending, active, failure, pc, claim, coalesceBeforeClaim, notified, aborted,
                     entries, inFlight, scheduled, refillEnabled, closed>>
  BY DEF Due, pool, loop, batcher
<1>2. /\ task' \in [Jobs -> Tasks] /\ task \in [Jobs -> Tasks]
      /\ \A k \in Jobs : task'[k] = IF k = j THEN "due" ELSE task[k]
  BY <1>1, Held DEF Tasks
<1>3. SlotsOK(task', active') /\ QueueOK(task', pending') /\ BatchedOK(task', entries', inFlight')
  BY <1>1, <1>2 DEF Inv, SlotsOK, QueueOK, BatchedOK, Unfinished
<1>4. BroughtOK(task', result')
  <2>1. \A k \in Jobs : /\ task'[k] = "claimed" <=> task[k] = "claimed"
                        /\ task'[k] = "resolved" <=> task[k] = "resolved"
    BY <1>1, <1>2
  <2> QED BY <2>1, <1>1, Held DEF Inv, BroughtOK
<1>5. GuardsOK(task', guard', entries', inFlight')
  BY <1>1, <1>2 DEF Inv, GuardsOK
<1>6. TypeOK' /\ LoopOK'
  BY <1>1, <1>2 DEF Inv, TypeOK, LoopOK, Quiescent
<1> QED BY <1>1, <1>3, <1>4, <1>5, <1>6 DEF Inv

LEMMA ClosedInv ==
    ASSUME Inv, Closed
    PROVE  Inv' /\ UNCHANGED inFlight /\ pc' # "claim"
<1>1. /\ pc = "closing" /\ pc' = "closed"
      /\ UNCHANGED <<task, guard, result, pending, active, failure, claim, coalesceBeforeClaim, notified,
                     aborted, entries, inFlight, scheduled, refillEnabled, closed>>
  BY DEF Closed, jobVars, batcher
<1> QED BY <1>1 DEF Inv, TypeOK, LoopOK, Quiescent, Places

---------------------------------------------------------------------------
(* The specification.                                                      *)

LEMMA InitInv == Init => Inv
<1> SUFFICES ASSUME Init PROVE Inv
  OBVIOUS
<1>1. Cardinality({}) = 0 /\ IsFiniteSet({})
  BY FS_EmptySet
<1>2. ToSet(<<>>) = {} /\ Distinct(<<>>) /\ <<>> \in Seq(Jobs) /\ Open({}) = {}
  BY DEF ToSet, Distinct, Open
<1>3. TypeOK
  BY <1>1, <1>2, OneResult DEF Init, TypeOK, Tasks, Places
<1>4. SlotsOK(task, active) /\ QueueOK(task, pending)
  BY <1>1, <1>2, Sizes DEF Init, SlotsOK, QueueOK, Unfinished
<1>5. BroughtOK(task, result)
  BY <1>2, OneResult DEF Init, BroughtOK
<1>6. BatchedOK(task, entries, inFlight) /\ GuardsOK(task, guard, entries, inFlight)
  BY <1>1, <1>2, Sizes DEF Init, BatchedOK, GuardsOK
<1>7. LoopOK
  BY DEF Init, LoopOK
<1> QED BY <1>3, <1>4, <1>5, <1>6, <1>7 DEF Inv

\* A stopped worker sends no claim in this step, neither of the pool nor with a completion.
SendsNoClaim ==
    Stopped => /\ pc' = "claim" => pc = "claim" /\ claim' = claim
               /\ \A f \in inFlight' \ inFlight : f.phase = "sent" => ~f.refill

LEMMA PoolStepInv == ASSUME Inv, PoolStep PROVE Inv' /\ SendsNoClaim
<1>1. \A c \in BOOLEAN : Resume(c) => Inv' /\ SendsNoClaim
  BY ResumeInv DEF Resume, batcher, SendsNoClaim
<1>2. coalesceBeforeClaim \in BOOLEAN /\ (coalesceBeforeClaim \/ pc # "drain") \in BOOLEAN
  BY DEF Inv, TypeOK
<1>3. CASE Start \/ Notified \/ IdleTimeout
  BY <1>1, <1>2, <1>3 DEF Start, Notified, IdleTimeout
<1>4. CASE WindowEnds
  BY <1>4, WindowEndsInv DEF WindowEnds, Resume, batcher, SendsNoClaim
<1>5. CASE ClaimAnswered
  BY <1>5, ClaimAnsweredInv DEF ClaimAnswered, batcher, SendsNoClaim
<1>6. CASE ClaimFails
  BY <1>6, ClaimFailsInv DEF ClaimFails, SendsNoClaim
<1>7. CASE Close
  BY <1>7, CloseInv DEF Close, SendsNoClaim
<1>8. CASE Closed
  BY <1>8, ClosedInv DEF SendsNoClaim
<1> QED BY <1>3, <1>4, <1>5, <1>6, <1>7, <1>8 DEF PoolStep

LEMMA BatchStepInv == ASSUME Inv, BatchStep PROVE Inv' /\ SendsNoClaim
<1>1. CASE PartialFlush
  BY <1>1, PartialFlushInv DEF PartialFlush, pool, loop, SendsNoClaim
<1>2. ASSUME NEW f \in inFlight, SendBatch(f) PROVE Inv' /\ SendsNoClaim
  BY <1>2, SendBatchInv DEF SendsNoClaim
<1>3. ASSUME NEW f \in inFlight, BatchAnswered(f) PROVE Inv' /\ SendsNoClaim
  BY <1>3, BatchAnsweredInv DEF SendsNoClaim
<1>4. ASSUME NEW f \in inFlight, BatchDone(f) PROVE Inv' /\ SendsNoClaim
  BY <1>4, BatchDoneInv DEF BatchDone, pool, loop, SendsNoClaim
<1> QED BY <1>1, <1>2, <1>3, <1>4 DEF BatchStep

LEMMA JobStepInv ==
    ASSUME Inv, NEW j \in Jobs, TaskStep(j) \/ Renew(j) \/ RenewalEnds(j) \/ Due(j)
    PROVE  Inv' /\ SendsNoClaim
<1>1. CASE Handle(j) \/ Apply(j) \/ Send(j) \/ Applied(j) \/ TakeResult(j) \/ TaskEnds(j) \/ Due(j)
  BY <1>1, HandleInv, ApplyInv, SendInv, AppliedInv, TakeResultInv, TaskEndsInv, DueInv DEF SendsNoClaim
<1>2. CASE Complete(j)
  BY <1>2, CompleteInv DEF SendsNoClaim
<1>3. CASE Renew(j)
  <2>1. /\ guard' = [guard EXCEPT ![j] = "renewing"] /\ guard[j] \in Renewed /\ "renewing" \in Renewed
        /\ UNCHANGED <<task, result, pool, batcher>>
    BY <1>3 DEF Renew, Renewed
  <2> QED BY <2>1, GuardInv DEF SendsNoClaim
<1>4. CASE RenewalEnds(j)
  <2>1. PICK g : /\ guard' = [guard EXCEPT ![j] = g]
                 /\ \/ guard[j] \in Renewed /\ g \in Renewed
                    \/ guard[j] = "stopping" /\ g \in {"stopped", "lost"}
    BY <1>4 DEF RenewalEnds, Renewed
  <2>2. UNCHANGED <<task, result, pool, batcher>>
    BY <1>4 DEF RenewalEnds
  <2> QED BY <2>1, <2>2, GuardInv DEF SendsNoClaim
<1> QED BY <1>1, <1>2, <1>3, <1>4 DEF TaskStep

LEMMA NextInv == Inv /\ [Next]_vars => Inv' /\ SendsNoClaim
<1> SUFFICES ASSUME Inv, [Next]_vars PROVE Inv' /\ SendsNoClaim
  OBVIOUS
<1>1. CASE Abort
  BY <1>1, AbortInv DEF SendsNoClaim
<1>2. CASE UNCHANGED vars
  BY <1>2 DEF vars, jobVars, pool, loop, batcher, Inv, TypeOK, LoopOK, Quiescent, SendsNoClaim
<1> QED BY <1>1, <1>2, PoolStepInv, BatchStepInv, JobStepInv DEF Next

LEMMA InvHolds == Spec => []Inv
<1>1. Inv /\ [Next]_vars => Inv'
  BY NextInv
<1> QED BY <1>1, InitInv, PTL DEF Spec

\* Every variable of the worker keeps its type: a claim is for a number of jobs, which is
\* never negative (worker-internal.ts, queue-completion-batcher.ts).
THEOREM TypeCorrect == Spec => []TypeOK
<1>1. Inv => TypeOK
  BY DEF Inv
<1> QED BY <1>1, InvHolds, PTL

\* README.md:437: "the worker never exceeds its local concurrency limit", whatever a claim
\* or a completion returns (startAvailable of runContinuousWorkerPool).
THEOREM ConcurrencyIsLimited == Spec => []WithinConcurrency
<1>1. Inv => WithinConcurrency
  <2> SUFFICES ASSUME Inv PROVE WithinConcurrency
    OBVIOUS
  <2> DEFINE handled == {j \in Jobs : task[j] \in Unfinished \ {"resolved", "ended"}}
  <2>1. handled \in SUBSET active /\ active \in SUBSET Jobs /\ Cardinality(active) <= Concurrency
    BY DEF Inv, SlotsOK, TypeOK
  <2> HIDE DEF handled
  <2>2. IsFiniteSet(active)
    BY <2>1, Sizes, FS_Subset
  <2>3. /\ IsFiniteSet(handled) /\ Cardinality(handled) <= Cardinality(active)
        /\ Cardinality(active) \in Nat
    BY <2>1, <2>2, FS_Subset, FS_CardinalityType
  <2>4. Cardinality(handled) \in Nat
    BY <2>3, FS_CardinalityType
  <2>5. Cardinality(handled) <= Concurrency
    BY <2>1, <2>3, <2>4, Sizes
  <2> QED BY <2>5 DEF WithinConcurrency, handled
<1> QED BY <1>1, InvHolds, PTL

LEMMA InvHandsOver == Inv => LeasesHandedOver
<1> SUFFICES ASSUME Inv PROVE LeasesHandedOver
  OBVIOUS
<1>1. ASSUME NEW j \in Jobs
      PROVE  /\ task[j] \in {"pending", "started", "handling"} => guard[j] \in {"active", "renewing", "failed"}
             /\ Sent(j) => guard[j] = "stopped"
  BY GuardOf DEF Renewed, Sent, Inv, GuardsOK, Open
<1>2. ASSUME pending = <<>>, active = {}
      PROVE  /\ \A j \in Jobs : task[j] \notin Leased /\ guard[j] \in {"none", "stopped", "lost"}
             /\ entries = <<>>
             /\ \A f \in inFlight : f.phase = "settled"
  <2>1. \A j \in Jobs : task[j] \notin Unfinished /\ task[j] # "pending"
    BY <1>2 DEF Inv, SlotsOK, QueueOK, ToSet
  <2>2. \A j \in Jobs : task[j] # "claimed"
    BY <2>1 DEF Inv, BroughtOK, Unfinished
  <2>3. \A j \in Jobs : guard[j] \in {"none", "stopped", "lost"}
    BY <2>1, <2>2, Held DEF Inv, GuardsOK, Tasks
  <2>4. \A s \in Seq(Jobs) : s # <<>> => s[1] \in ToSet(s) /\ s[1] \in Jobs
    BY DEF ToSet
  <2>5. \A j \in Jobs : task[j] # "completing"
    BY <2>1 DEF Unfinished
  <2>6. entries = <<>>
    BY <2>4, <2>5, Held DEF Inv, BatchedOK
  <2>7. ASSUME NEW f \in inFlight, f.phase # "settled" PROVE FALSE
    <3>1. f \in Open(inFlight) /\ f.entries \in Seq(Jobs)
      BY <2>7, Held DEF Open, Batches
    <3>2. f.entries # <<>>
      BY <3>1 DEF Inv, BatchedOK
    <3> QED BY <3>1, <3>2, <2>4, <2>5 DEF Inv, BatchedOK
  <2> QED BY <2>1, <2>2, <2>3, <2>6, <2>7 DEF Leased
<1>3. pc \in {"returned", "closing", "closed"} => pending = <<>> /\ active = {}
  BY DEF Inv, LoopOK, Quiescent
<1> QED BY <1>1, <1>2, <1>3 DEF LeasesHandedOver

\* A job is renewed until the request that settles it, which is only sent while the lease is
\* held; a pool that returns has nothing left (QueueCompletionBatcher.flushBatch,
\* LeaseRenewalGuard.stop, runContinuousWorkerPool).
THEOREM EveryLeaseIsHandedOver == Spec => []LeasesHandedOver
BY InvHandsOver, InvHolds, PTL

\* Once the signal has aborted or a handler has failed, no claim is sent any more, by the
\* pool or with a completion (isStopped of runContinuousWorkerPool, stopRefilling).
THEOREM StoppedWorkersClaimNothing == Spec => NoClaimAfterStop
<1>1. Inv /\ [Next]_vars =>
        [Stopped => /\ pc' = "claim" => pc = "claim" /\ claim' = claim
                    /\ \A f \in inFlight' \ inFlight : f.phase = "sent" => ~f.refill]_vars
  BY NextInv DEF SendsNoClaim
<1> QED BY <1>1, InvHolds, PTL DEF Spec, NoClaimAfterStop


---------------------------------------------------------------------------
(* WaveWorker.  The parts of its inductive invariant: where each job is,   *)
(* what its guard does there, and which completions callers were told of.  *)

Steps == {"top", "claim", "handle", "stop", "flush", "drainOne", "await", "release", "sleep",
          "finally", "returned"}
Progress == {"absent", "due", "claimed", "handling", "released", "stopping", "raising", "sent",
             "settled", "succeeded", "decided", "completing", "answered", "failed", "dropped"}
Completions == [jobs : SUBSET Jobs, state : {"sent", "answered", "failed"}]

WaveTypeOK ==
    /\ config \in Configs
    /\ job \in [Jobs -> Progress]
    /\ waveGuard \in [Jobs -> Renewed \cup Ending \cup {"none"}]
    /\ cursor \in Seq(Jobs) /\ completions \in Seq(Jobs)
    /\ inPipeline \subseteq Completions /\ IsFiniteSet(inPipeline)
    /\ step \in Steps
    /\ threw \in {"no", "yes", "flush"}
    /\ completed \in Nat /\ rejected \in BOOLEAN

\* The steps between two waves.
Between == {"top", "claim", "sleep", "finally", "returned"}

\* The batch whose answer is awaited, without a depth.
Asked(j) == step = "await" /\ j \in Waves!Batch(completions, 1)

\* The jobs that no handler has taken.
CursorOK == /\ Distinct(cursor)
            /\ \A j \in Jobs : job[j] = "claimed" <=> j \in ToSet(cursor)

\* The jobs whose handler has ended wait for their completion.
CompletionsOK ==
    /\ Distinct(completions)
    /\ \A j \in Jobs : job[j] \in {"succeeded", "decided"} <=> j \in ToSet(completions) /\ ~Asked(j)
    /\ step = "await" => completions # <<>>
    /\ \A j \in Jobs : Asked(j) => job[j] \in {"completing", "sent"}

\* A completion that is sent is in one of those under way, or is awaited.
PipelineOK ==
    /\ \A e \in inPipeline : \A j \in e.jobs :
           job[j] = (IF e.state = "sent" THEN "completing" ELSE e.state) /\ ~Asked(j)
    /\ \A e, f \in inPipeline : e # f => e.jobs \cap f.jobs = {}
    /\ \A j \in Jobs : job[j] = "completing" => Asked(j) \/ \E e \in inPipeline : j \in e.jobs
    /\ config.depth > 0 => Cardinality(inPipeline) <= config.depth

\* What may be under way at each step.
StepsOK ==
    /\ step # "handle" => \A j \in Jobs : /\ job[j] \notin {"handling", "stopping", "raising"}
                                          /\ job[j] = "sent" => Asked(j)
    /\ step \in Between \cup {"release"} => completions = <<>>
    /\ step \in Between => /\ cursor = <<>> /\ threw = "no"
                           /\ \A j \in Jobs : job[j] # "released"
    /\ step = "returned" => inPipeline = {}
    /\ step = "handle" /\ config.kind = "batch" =>
           /\ completions = <<>> /\ threw = "no"
           /\ \A j \in Jobs : job[j] \notin {"stopping", "raising", "sent"}

\* What the guard of a job does, by where the job is.
WaveGuardsOK == \A j \in Jobs :
    /\ job[j] \in {"absent", "due"} => waveGuard[j] = "none"
    /\ job[j] = "claimed" => waveGuard[j] \in IF step = "release" THEN Ending ELSE Renewed
    /\ job[j] = "handling" => waveGuard[j] \in Renewed
    /\ job[j] \in {"stopping", "raising", "dropped"} => waveGuard[j] \in Ending
    /\ job[j] = "released" => /\ waveGuard[j] \in Ending \cup {"failed"}
                              /\ step = "release" => waveGuard[j] \in Ending
    /\ job[j] \in {"succeeded", "decided"} =>
           IF step = "handle" THEN waveGuard[j] \in Renewed
           ELSE IF step = "stop" THEN waveGuard[j] \in Ending
           ELSE waveGuard[j] = "stopped"
    /\ job[j] \in {"sent", "completing", "answered", "failed", "settled"} => waveGuard[j] = "stopped"

\* Of the completions that were answered and collected callers were told, and of the failures.
Told(s, progress, entered) == {j \in Jobs : progress[j] = s /\ j \notin Waves!JobsIn(entered)}

ToldOK == /\ completed = Cardinality(Told("answered", job, inPipeline))
          /\ Told("failed", job, inPipeline) # {} => rejected \/ threw # "no"

WaveInv == /\ WaveTypeOK /\ CursorOK /\ CompletionsOK /\ PipelineOK /\ StepsOK
           /\ WaveGuardsOK /\ ToldOK

---------------------------------------------------------------------------
(* Facts about the state.                                                  *)

\* The operators of the libraries mean the same in an instance.
LEMMA LibraryOfWaves ==
    \A S : /\ Waves!Cardinality(S) = Cardinality(S) /\ Waves!Min(S) = Min(S)
          /\ Waves!ToSet(S) = ToSet(S)
          /\ Waves!SetToSeq(S) = SetToSeq(S) /\ Waves!SetToSeqs(S) = SetToSeqs(S)
<1> SUFFICES ASSUME NEW S
             PROVE  /\ Waves!Cardinality(S) = Cardinality(S) /\ Waves!Min(S) = Min(S)
                    /\ Waves!ToSet(S) = ToSet(S)
                    /\ Waves!SetToSeq(S) = SetToSeq(S) /\ Waves!SetToSeqs(S) = SetToSeqs(S)
  OBVIOUS
<1>1. Waves!Cardinality(S) = Cardinality(S)
  BY DEF Waves!Cardinality, Cardinality
<1>2. Waves!Min(S) = Min(S)
  BY DEF Waves!Min, Min
<1>3. Waves!ToSet(S) = ToSet(S)
  BY DEF Waves!ToSet, ToSet
<1>4. Waves!SetToSeq(S) = SetToSeq(S)
  BY <1>1 DEF Waves!SetToSeq, SetToSeq, Waves!IsInjective, IsInjective
<1>5. Waves!SetToSeqs(S) = SetToSeqs(S)
  BY <1>1 DEF Waves!SetToSeqs, SetToSeqs
<1> QED BY <1>1, <1>2, <1>3, <1>4, <1>5

LEMMA WaveSizes ==
    ASSUME WaveTypeOK
    PROVE  /\ IsFiniteSet(Jobs) /\ WaveBatchSize \in Nat \ {0}
           /\ config.kind \in {"jobs", "batch"} /\ config.concurrency \in Nat \ {0}
           /\ config.depth \in Nat
BY WorkerAssumption, WorkersAssumption DEF WaveTypeOK

LEMMA WaveHeld ==
    ASSUME WaveTypeOK
    PROVE  /\ ToSet(cursor) \subseteq Jobs /\ ToSet(completions) \subseteq Jobs
           /\ \A e \in inPipeline : e.jobs \subseteq Jobs /\ e.state \in {"sent", "answered", "failed"}
           /\ Waves!JobsIn(inPipeline) \subseteq Jobs
<1>1. ToSet(cursor) \subseteq Jobs /\ ToSet(completions) \subseteq Jobs
  BY DEF WaveTypeOK, ToSet
<1>2. \A e \in inPipeline : e.jobs \subseteq Jobs /\ e.state \in {"sent", "answered", "failed"}
  BY DEF WaveTypeOK, Completions
<1> QED BY <1>1, <1>2 DEF Waves!JobsIn

\* Of a sequence without repetitions.
LEMMA DistinctSize ==
    ASSUME NEW q \in Seq(Jobs), Distinct(q)
    PROVE  IsFiniteSet(ToSet(q)) /\ Cardinality(ToSet(q)) = Len(q)
<1>1. Len(q) \in Nat /\ DOMAIN q = 1..Len(q) /\ q \in [1..Len(q) -> ToSet(q)]
  BY DEF ToSet
<1>2. q \in Surjection(1..Len(q), ToSet(q)) /\ q \in Injection(1..Len(q), ToSet(q))
  BY <1>1 DEF Injection, Surjection, IsInjective, ToSet, Distinct
<1>3. IsFiniteSet(1..Len(q)) /\ Cardinality(1..Len(q)) = Len(q)
  BY <1>1, FS_Interval
<1> QED BY <1>2, <1>3, FS_Surjection

---------------------------------------------------------------------------
(* Steps of the guards.                                                    *)

\* Only the guard of j changes, between values that mean the same where j is.
LEMMA WaveGuardInv ==
    ASSUME WaveInv, NEW j \in Jobs, NEW g, waveGuard' = [waveGuard EXCEPT ![j] = g],
           \/ waveGuard[j] \in Renewed /\ waveGuard[j] # "failed" /\ g \in Renewed
           \/ waveGuard[j] = "stopping" /\ g \in {"stopped", "lost"},
           UNCHANGED <<config, job, cursor, completions, inPipeline, step, threw, completed, rejected>>
    PROVE  WaveInv'
<1>1. /\ waveGuard' \in [Jobs -> Renewed \cup Ending \cup {"none"}]
      /\ \A k \in Jobs : \/ waveGuard'[k] = waveGuard[k]
                         \/ waveGuard[k] \in {"active", "renewing"} /\ waveGuard'[k] \in Renewed
                         \/ waveGuard[k] = "stopping" /\ waveGuard'[k] \in {"stopped", "lost"}
  BY DEF WaveInv, WaveTypeOK, Renewed, Ending
<1>2. WaveTypeOK'
  BY <1>1 DEF WaveInv, WaveTypeOK
<1>3. CursorOK' /\ CompletionsOK' /\ PipelineOK' /\ StepsOK' /\ ToldOK'
  BY DEF WaveInv, CursorOK, CompletionsOK, PipelineOK, StepsOK, ToldOK, Asked
<1>4. WaveGuardsOK'
  BY <1>1 DEF WaveInv, WaveGuardsOK, Renewed, Ending
<1> QED BY <1>2, <1>3, <1>4 DEF WaveInv

LEMMA WaveRenewalInv ==
    ASSUME WaveInv, NEW j \in Jobs, Waves!Renew(j) \/ Waves!RenewalEnds(j)
    PROVE  WaveInv'
<1>1. UNCHANGED <<config, job, cursor, completions, inPipeline, step, threw, completed, rejected>>
  BY DEF Waves!Renew, Waves!RenewalEnds
<1>2. PICK g : /\ waveGuard' = [waveGuard EXCEPT ![j] = g]
               /\ \/ waveGuard[j] \in {"active", "renewing"} /\ g \in Renewed
                  \/ waveGuard[j] = "stopping" /\ g \in {"stopped", "lost"}
  BY DEF Waves!Renew, Waves!RenewalEnds, Renewed
<1> QED BY <1>1, <1>2, WaveGuardInv DEF Renewed

---------------------------------------------------------------------------
(* Steps of the loop that collect what was answered, or change nothing.    *)

\* What a collection keeps and counts.
LEMMA Collected ==
    ASSUME WaveInv
    PROVE  LET kept == Waves!Kept(inPipeline) IN
           /\ kept \subseteq inPipeline /\ IsFiniteSet(kept)
           /\ Cardinality(kept) \in Nat /\ Cardinality(kept) <= Cardinality(inPipeline)
           /\ \A e \in kept : e.state = "sent"
           /\ \A e \in inPipeline : e.state = "sent" => e \in kept
           /\ Waves!Count(inPipeline) \in Nat
           /\ completed + Waves!Count(inPipeline) = Cardinality(Told("answered", job, kept))
           /\ Told("failed", job, kept) # {} =>
                 Told("failed", job, inPipeline) # {} \/ Waves!Failure(inPipeline)
<1> DEFINE kept == Waves!Kept(inPipeline)
           answered == Waves!Answered(inPipeline)
           before == Told("answered", job, inPipeline)
           after == Told("answered", job, kept)
           new == Waves!JobsIn(answered)
<1>1. /\ kept \subseteq inPipeline /\ answered \subseteq inPipeline
      /\ \A e \in kept : e.state = "sent"
      /\ \A e \in answered : e.state = "answered"
      /\ \A e \in inPipeline : /\ e.state = "sent" <=> e \in kept
                               /\ e.state = "answered" <=> e \in answered
  BY DEF Waves!Kept, Waves!Answered, Waves!InFlight
<1>2. /\ WaveTypeOK /\ IsFiniteSet(inPipeline) /\ IsFiniteSet(Jobs)
      /\ \A e \in inPipeline : e.jobs \subseteq Jobs /\ e.state \in {"sent", "answered", "failed"}
  BY WaveHeld, WaveSizes DEF WaveInv, WaveTypeOK
<1>3. IsFiniteSet(kept) /\ Cardinality(kept) \in Nat /\ Cardinality(kept) <= Cardinality(inPipeline)
  BY <1>1, <1>2, FS_Subset, FS_CardinalityType
<1>4. \A e \in inPipeline : \A j \in e.jobs :
          job[j] = (IF e.state = "sent" THEN "completing" ELSE e.state)
  BY DEF WaveInv, PipelineOK
<1> HIDE DEF kept, answered
<1>5. after = before \cup new /\ before \cap new = {}
  <2>1. \A j \in new : j \in Jobs /\ job[j] = "answered" /\ j \in Waves!JobsIn(inPipeline)
    BY <1>1, <1>2, <1>4 DEF Waves!JobsIn
  <2>2. \A j \in new : j \notin Waves!JobsIn(kept)
    BY <2>1, <1>1, <1>4 DEF Waves!JobsIn
  <2>3. \A j \in Jobs : j \in Waves!JobsIn(kept) => j \in Waves!JobsIn(inPipeline)
    BY <1>1 DEF Waves!JobsIn
  <2>4. ASSUME NEW j \in Jobs, job[j] = "answered", j \in Waves!JobsIn(inPipeline) PROVE j \in new
    <3>1. PICK e \in inPipeline : j \in e.jobs
      BY <2>4 DEF Waves!JobsIn
    <3>2. e.state = "answered"
      BY <3>1, <2>4, <1>2, <1>4
    <3> QED BY <3>1, <3>2, <1>1 DEF Waves!JobsIn
  <2> QED BY <2>1, <2>2, <2>3, <2>4 DEF Told
<1>6. before \subseteq Jobs /\ new \subseteq Jobs
  BY <1>1, <1>2 DEF Told, Waves!JobsIn
<1>7. Cardinality(after) = Cardinality(before) + Cardinality(new) /\ Cardinality(new) \in Nat
  <2> HIDE DEF before, after, new
  <2>1. /\ IsFiniteSet(before) /\ IsFiniteSet(new)
        /\ Cardinality(before) \in Nat /\ Cardinality(new) \in Nat
    BY <1>2, <1>6, FS_Subset, FS_CardinalityType
  <2>2. Cardinality(before \cap new) = 0
    BY <1>5, FS_EmptySet
  <2>3. Cardinality(before \cup new) = Cardinality(before) + Cardinality(new) - Cardinality(before \cap new)
    BY <2>1, FS_Union
  <2>4. Cardinality(after) = Cardinality(before \cup new)
    BY <1>5
  <2> QED BY <2>1, <2>2, <2>3, <2>4
<1>8. completed = Cardinality(before) /\ Waves!Count(inPipeline) = Cardinality(new)
  <2>1. completed = Cardinality(before)
    BY DEF WaveInv, ToldOK
  <2>2. Waves!Count(inPipeline) = Cardinality(new)
    BY LibraryOfWaves DEF Waves!Count, answered, new
  <2> QED BY <2>1, <2>2
<1>9. Told("failed", job, kept) # {} =>
          Told("failed", job, inPipeline) # {} \/ Waves!Failure(inPipeline)
  <2> SUFFICES ASSUME NEW j \in Jobs, job[j] = "failed", j \in Waves!JobsIn(inPipeline)
               PROVE  Waves!Failure(inPipeline)
    BY DEF Told
  <2>1. PICK e \in inPipeline : j \in e.jobs
    BY DEF Waves!JobsIn
  <2> QED BY <2>1, <1>2, <1>4 DEF Waves!Failure
<1> HIDE DEF after, before, new
<1> QED BY <1>1, <1>3, <1>7, <1>8, <1>9 DEF kept, after

\* A collection, in a step that makes a call reject when one has failed.
LEMMA CollectInv ==
    ASSUME WaveInv, Waves!Collect(inPipeline),
           UNCHANGED <<config, job, waveGuard, cursor, completions>>,
           step' = step \/ (step # "await" /\ step' # "await"),
           rejected' \in BOOLEAN, threw' \in {"no", "yes", "flush"},
           rejected \/ threw # "no" \/ Waves!Failure(inPipeline) => rejected' \/ threw' # "no"
    PROVE  /\ inPipeline' \subseteq inPipeline /\ IsFiniteSet(inPipeline') /\ completed' \in Nat
           /\ \A e \in inPipeline' : e.state = "sent"
           /\ CursorOK' /\ CompletionsOK' /\ PipelineOK' /\ ToldOK'
<1>1. inPipeline' = Waves!Kept(inPipeline) /\ completed' = completed + Waves!Count(inPipeline)
  BY DEF Waves!Collect
<1>2. /\ inPipeline' \subseteq inPipeline /\ IsFiniteSet(inPipeline')
      /\ Cardinality(inPipeline') \in Nat /\ Cardinality(inPipeline') <= Cardinality(inPipeline)
      /\ \A e \in inPipeline' : e.state = "sent"
      /\ \A e \in inPipeline : e.state = "sent" => e \in inPipeline'
      /\ Waves!Count(inPipeline) \in Nat
      /\ completed' = Cardinality(Told("answered", job, inPipeline'))
      /\ Told("failed", job, inPipeline') # {} =>
                 Told("failed", job, inPipeline) # {} \/ Waves!Failure(inPipeline)
  BY <1>1, Collected
<1>3. completed' \in Nat
  BY <1>1, <1>2 DEF WaveInv, WaveTypeOK
<1>4. \A j : Asked(j)' <=> Asked(j)
  BY DEF Asked
<1>5. CursorOK' /\ CompletionsOK'
  BY <1>4 DEF WaveInv, CursorOK, CompletionsOK
<1>6. PipelineOK'
  <2>1. ASSUME NEW j \in Jobs, job[j] = "completing"
        PROVE  Asked(j) \/ \E e \in inPipeline' : j \in e.jobs
    <3>1. \A e \in inPipeline : j \in e.jobs => e.state = "sent"
      BY <2>1, WaveHeld DEF WaveInv, PipelineOK
    <3> QED BY <2>1, <3>1, <1>2 DEF WaveInv, PipelineOK
  <2>2. config.depth > 0 => Cardinality(inPipeline') <= config.depth
    <3>1. Cardinality(inPipeline) \in Nat /\ config.depth \in Nat
      BY WaveSizes, FS_CardinalityType DEF WaveInv, WaveTypeOK
    <3> QED BY <3>1, <1>2 DEF WaveInv, PipelineOK
  <2> QED BY <2>1, <2>2, <1>2, <1>4 DEF WaveInv, PipelineOK
<1>7. ToldOK'
  BY <1>2 DEF WaveInv, ToldOK
<1> QED BY <1>2, <1>3, <1>5, <1>6, <1>7

\* Between two waves nothing is left of the last one but completions under way.
LEMMA Resting ==
    ASSUME WaveInv, step \in Between
    PROVE  /\ completions = <<>> /\ cursor = <<>> /\ threw = "no"
           /\ \A j \in Jobs : /\ ~Asked(j)
                              /\ job[j] \in {"absent", "due", "settled", "completing", "answered",
                                             "failed", "dropped"}
<1>1. /\ completions = <<>> /\ cursor = <<>> /\ threw = "no"
      /\ \A j \in Jobs : job[j] \notin {"released", "handling", "stopping", "raising"}
      /\ \A j : ~Asked(j)
      /\ \A j \in Jobs : job[j] # "sent"
  BY DEF WaveInv, StepsOK, Between, Asked
<1>2. ToSet(<<>>) = {}
  BY DEF ToSet
<1>3. \A j \in Jobs : job[j] \notin {"claimed", "succeeded", "decided"}
  BY <1>1, <1>2 DEF WaveInv, CursorOK, CompletionsOK
<1>4. \A j \in Jobs : job[j] \in Progress
  BY DEF WaveInv, WaveTypeOK
<1> QED BY <1>1, <1>3, <1>4 DEF Progress

LEMMA RestInv ==
    ASSUME WaveInv, step \in Between, step' \in Between, step' = "returned" => inPipeline' = {},
           UNCHANGED <<config, job, waveGuard, cursor, completions>>, threw' = "no",
           inPipeline' \subseteq inPipeline, IsFiniteSet(inPipeline'),
           completed' \in Nat, rejected' \in BOOLEAN, PipelineOK', ToldOK'
    PROVE  WaveInv'
<1>1. /\ completions = <<>> /\ cursor = <<>>
      /\ \A j \in Jobs : job[j] \in {"absent", "due", "settled", "completing", "answered",
                                     "failed", "dropped"}
      /\ \A j : ~Asked(j) /\ ~Asked(j)'
  BY Resting DEF Asked, Between
<1>2. CursorOK' /\ CompletionsOK'
  BY <1>1 DEF WaveInv, CursorOK, CompletionsOK, Between
<1>3. StepsOK'
  BY <1>1 DEF StepsOK, Between
<1>4. WaveGuardsOK'
  BY <1>1 DEF WaveInv, WaveGuardsOK
<1>5. WaveTypeOK'
  BY DEF WaveInv, WaveTypeOK, Between, Steps
<1> QED BY <1>2, <1>3, <1>4, <1>5 DEF WaveInv

\* What the end of a wave changes.
LEMMA WaveEnded ==
    ASSUME WaveInv, NEW failing \in BOOLEAN, NEW had \in BOOLEAN, Waves!EndWave(failing, had),
           threw # "no" => failing
    PROVE  /\ step' \in {"finally", "top", "claim", "sleep"} /\ threw' = "no"
           /\ rejected' \in BOOLEAN
           /\ rejected \/ threw # "no" => rejected'
<1>1. rejected \in BOOLEAN
  BY DEF WaveInv, WaveTypeOK
<1> QED BY <1>1 DEF Waves!EndWave, Waves!Rejected

LEMMA BeginWaveInv == ASSUME WaveInv, Waves!BeginWave PROVE WaveInv'
<1>1. /\ step = "top" /\ Waves!Collect(inPipeline)
      /\ UNCHANGED <<config, job, waveGuard, cursor, completions, threw>>
      /\ IF Waves!Failure(inPipeline) THEN Waves!Rejected ELSE step' = "claim" /\ UNCHANGED rejected
  BY DEF Waves!BeginWave, Waves!handling
<1>2. /\ rejected' \in BOOLEAN /\ step' \in {"claim", "finally", "top"}
      /\ rejected \/ Waves!Failure(inPipeline) => rejected'
  BY <1>1 DEF Waves!Rejected, WaveInv, WaveTypeOK
<1>3. threw = "no" /\ threw' = "no" /\ step \in Between
  BY <1>1, Resting DEF Between
<1>4. /\ inPipeline' \subseteq inPipeline /\ IsFiniteSet(inPipeline') /\ completed' \in Nat
      /\ PipelineOK' /\ ToldOK'
  BY <1>1, <1>2, <1>3, CollectInv
<1> QED BY <1>1, <1>2, <1>3, <1>4, RestInv DEF Between

LEMMA WaveFinallyInv == ASSUME WaveInv, Waves!Finally PROVE WaveInv'
<1>1. /\ step = "finally" /\ step' = "returned" /\ Waves!Collect(inPipeline)
      /\ \A e \in inPipeline : e.state # "sent"
      /\ UNCHANGED <<config, job, waveGuard, cursor, completions, threw>>
      /\ rejected' = (rejected \/ Waves!Failure(inPipeline))
  BY DEF Waves!Finally, Waves!handling, Waves!Done, Waves!InFlight
<1>2. /\ rejected' \in BOOLEAN
      /\ rejected \/ Waves!Failure(inPipeline) => rejected'
  BY <1>1 DEF WaveInv, WaveTypeOK, Waves!Failure
<1>3. threw = "no" /\ threw' = "no" /\ step \in Between /\ step' \in Between
  BY <1>1, Resting DEF Between
<1>4. /\ inPipeline' \subseteq inPipeline /\ IsFiniteSet(inPipeline') /\ completed' \in Nat
      /\ \A e \in inPipeline' : e.state = "sent"
      /\ PipelineOK' /\ ToldOK'
  BY <1>1, <1>2, <1>3, CollectInv
<1>5. inPipeline' = {}
  BY <1>1, <1>4
<1> QED BY <1>1, <1>2, <1>3, <1>4, <1>5, RestInv

\* Nothing but the step changes, between two waves.
LEMMA WaveIdleInv ==
    ASSUME WaveInv, Waves!SleepEnds \/ Waves!Aborted \/ Waves!ClaimFails
    PROVE  WaveInv'
<1>1. /\ step \in Between /\ step' \in Between \ {"returned"}
      /\ UNCHANGED <<config, job, waveGuard, cursor, completions, inPipeline, completed>>
      /\ threw' = "no" /\ rejected' \in BOOLEAN
      /\ rejected => rejected'
  <2>1. CASE Waves!SleepEnds
    BY <2>1, Resting DEF Waves!SleepEnds, Waves!handling, Between, WaveInv, WaveTypeOK
  <2>2. CASE Waves!Aborted
    BY <2>2, Resting DEF Waves!Aborted, Waves!handling, Between, WaveInv, WaveTypeOK
  <2>3. CASE Waves!ClaimFails
    BY <2>3, WaveEnded DEF Waves!ClaimFails, Waves!handling, Between
  <2> QED BY <2>1, <2>2, <2>3
<1>2. threw = "no"
  BY <1>1, Resting
<1>3. ToldOK'
  BY <1>1, <1>2 DEF WaveInv, ToldOK
<1>4. PipelineOK'
  <2>1. \A j : ~Asked(j) /\ ~Asked(j)'
    BY <1>1 DEF Asked, Between
  <2> QED BY <2>1, <1>1 DEF WaveInv, PipelineOK
<1>5. inPipeline' \subseteq inPipeline /\ IsFiniteSet(inPipeline') /\ completed' \in Nat
  BY <1>1 DEF WaveInv, WaveTypeOK
<1> QED BY <1>1, <1>3, <1>4, <1>5, RestInv

LEMMA FlushReturnsInv == ASSUME WaveInv, Waves!FlushReturns PROVE WaveInv'
<1>1. /\ Waves!Collect(inPipeline)
      /\ UNCHANGED <<config, job, waveGuard, cursor, completions, step, threw>>
      /\ rejected' = (rejected \/ Waves!Failure(inPipeline))
  BY DEF Waves!FlushReturns, Waves!handling
<1>2. rejected' \in BOOLEAN /\ threw' \in {"no", "yes", "flush"}
  BY <1>1 DEF WaveInv, WaveTypeOK, Waves!Failure
<1>3. /\ inPipeline' \subseteq inPipeline /\ IsFiniteSet(inPipeline') /\ completed' \in Nat
      /\ CursorOK' /\ CompletionsOK' /\ PipelineOK' /\ ToldOK'
  BY <1>1, <1>2, CollectInv
<1>4. WaveTypeOK'
  BY <1>1, <1>2, <1>3 DEF WaveInv, WaveTypeOK
<1>5. StepsOK' /\ WaveGuardsOK'
  BY <1>1, <1>3 DEF WaveInv, StepsOK, WaveGuardsOK, Asked
<1> QED BY <1>3, <1>4, <1>5 DEF WaveInv

LEMMA FlushFailedInv == ASSUME WaveInv, Waves!FlushFailed PROVE WaveInv'
<1>1. /\ Waves!Collect(inPipeline) /\ step = "flush" /\ threw' = "yes"
      /\ UNCHANGED <<config, job, waveGuard, cursor, completions, step, rejected>>
  BY DEF Waves!FlushFailed, Waves!handling
<1>2. rejected' \in BOOLEAN
  BY <1>1 DEF WaveInv, WaveTypeOK
<1>3. /\ inPipeline' \subseteq inPipeline /\ IsFiniteSet(inPipeline') /\ completed' \in Nat
      /\ CursorOK' /\ CompletionsOK' /\ PipelineOK' /\ ToldOK'
  BY <1>1, <1>2, CollectInv
<1>4. WaveTypeOK'
  BY <1>1, <1>2, <1>3 DEF WaveInv, WaveTypeOK
<1>5. StepsOK' /\ WaveGuardsOK'
  BY <1>1, <1>3 DEF WaveInv, StepsOK, WaveGuardsOK, Asked, Between
<1> QED BY <1>3, <1>4, <1>5 DEF WaveInv

LEMMA WaveDueInv == ASSUME WaveInv, NEW j \in Jobs, Waves!Due(j) PROVE WaveInv'
<1>1. /\ job[j] = "absent" /\ job' = [job EXCEPT ![j] = "due"]
      /\ UNCHANGED <<config, waveGuard, cursor, completions, inPipeline, step, threw, completed, rejected>>
  BY DEF Waves!Due
<1>2. /\ job' \in [Jobs -> Progress] /\ \A k \in Jobs : job'[k] = IF k = j THEN "due" ELSE job[k]
  BY <1>1 DEF WaveInv, WaveTypeOK, Progress
<1>3. WaveTypeOK'
  BY <1>1, <1>2 DEF WaveInv, WaveTypeOK
<1>4. CursorOK' /\ CompletionsOK' /\ StepsOK'
  BY <1>1, <1>2 DEF WaveInv, CursorOK, CompletionsOK, StepsOK, Asked
<1>5. PipelineOK'
  <2>1. \A e \in inPipeline : e.jobs \subseteq Jobs /\ e.state # "absent"
    BY WaveHeld DEF WaveInv
  <2>2. \A e \in inPipeline : j \notin e.jobs
    BY <1>1, <2>1 DEF WaveInv, PipelineOK
  <2> QED BY <1>1, <1>2, <2>1, <2>2 DEF WaveInv, PipelineOK, Asked
<1>6. WaveGuardsOK'
  BY <1>1, <1>2 DEF WaveInv, WaveGuardsOK
<1>7. ToldOK'
  <2>1. \A s \in {"answered", "failed"} : Told(s, job', inPipeline') = Told(s, job, inPipeline)
    BY <1>1, <1>2 DEF Told
  <2> QED BY <1>1, <2>1 DEF WaveInv, ToldOK
<1> QED BY <1>3, <1>4, <1>5, <1>6, <1>7 DEF WaveInv

\* An entry of the pipeline is settled: whoever collects it next will tell.
LEMMA WaveSettleInv ==
    ASSUME WaveInv, NEW e \in inPipeline, Waves!Settle(e)
    PROVE  WaveInv'
<1>1. PICK s \in {"answered", "failed"} :
         /\ inPipeline' = (inPipeline \ {e}) \cup {[e EXCEPT !.state = s]}
         /\ job' = [j \in Jobs |-> IF j \in e.jobs THEN s ELSE job[j]]
  BY DEF Waves!Settle
<1> DEFINE new == [e EXCEPT !.state = s]
<1>2. /\ e.state = "sent"
      /\ UNCHANGED <<config, waveGuard, cursor, completions, step, threw, completed, rejected>>
  BY DEF Waves!Settle, Waves!InFlight
<1>3. /\ e \in Completions /\ new \in Completions /\ new.jobs = e.jobs /\ new.state = s
      /\ e.jobs \subseteq Jobs
  BY DEF WaveInv, WaveTypeOK, Completions
<1> HIDE DEF new
<1>4. /\ job' \in [Jobs -> Progress]
      /\ \A k \in Jobs : job'[k] = IF k \in e.jobs THEN s ELSE job[k]
      /\ \A k \in e.jobs : job[k] = "completing" /\ ~Asked(k)
  BY <1>1, <1>2 DEF WaveInv, WaveTypeOK, PipelineOK, Progress
<1>5. inPipeline' = (inPipeline \ {e}) \cup {new}
  BY <1>1 DEF new
<1>6. IsFiniteSet(inPipeline') /\ Cardinality(inPipeline') <= Cardinality(inPipeline)
  <2>1. /\ IsFiniteSet(inPipeline \ {e}) /\ Cardinality(inPipeline) \in Nat
        /\ Cardinality(inPipeline \ {e}) = Cardinality(inPipeline) - 1
    BY FS_RemoveElement, FS_CardinalityType DEF WaveInv, WaveTypeOK
  <2>2. /\ IsFiniteSet((inPipeline \ {e}) \cup {new})
        /\ Cardinality((inPipeline \ {e}) \cup {new}) =
              IF new \in inPipeline \ {e} THEN Cardinality(inPipeline \ {e})
              ELSE Cardinality(inPipeline \ {e}) + 1
    BY <2>1, FS_AddElement
  <2> QED BY <2>1, <2>2, <1>5
<1>7. WaveTypeOK'
  BY <1>2, <1>3, <1>4, <1>5, <1>6 DEF WaveInv, WaveTypeOK
<1>8. CursorOK' /\ CompletionsOK' /\ StepsOK'
  <2>1. inPipeline # {}
    OBVIOUS
  <2> QED BY <2>1, <1>2, <1>3, <1>4 DEF WaveInv, CursorOK, CompletionsOK, StepsOK, Asked
<1>9. PipelineOK'
  <2>1. \A f \in inPipeline \ {e} : f.jobs \cap e.jobs = {} /\ f.jobs \subseteq Jobs
    BY WaveHeld DEF WaveInv, PipelineOK
  <2>2. \A f \in inPipeline' : \A k \in f.jobs :
           job'[k] = (IF f.state = "sent" THEN "completing" ELSE f.state) /\ ~Asked(k)
    <3> SUFFICES ASSUME NEW f \in inPipeline', NEW k \in f.jobs
                 PROVE  job'[k] = (IF f.state = "sent" THEN "completing" ELSE f.state) /\ ~Asked(k)
      OBVIOUS
    <3>1. CASE f = new
      BY <3>1, <1>3, <1>4
    <3>2. CASE f \in inPipeline \ {e}
      <4>1. k \in Jobs /\ k \notin e.jobs
        BY <3>2, <2>1
      <4> QED BY <4>1, <3>2, <1>4 DEF WaveInv, PipelineOK
    <3> QED BY <3>1, <3>2, <1>5
  <2>3. \A f, g \in inPipeline' : f # g => f.jobs \cap g.jobs = {}
    BY <2>1, <1>3, <1>5 DEF WaveInv, PipelineOK
  <2>4. \A k \in Jobs : job'[k] = "completing" => Asked(k) \/ \E f \in inPipeline' : k \in f.jobs
    BY <1>3, <1>4, <1>5 DEF WaveInv, PipelineOK
  <2>5. config.depth > 0 => Cardinality(inPipeline') <= config.depth
    <3>1. /\ Cardinality(inPipeline) \in Nat /\ config.depth \in Nat
          /\ Cardinality(inPipeline') \in Nat
      BY WaveSizes, <1>6, FS_CardinalityType DEF WaveInv, WaveTypeOK
    <3> QED BY <3>1, <1>6 DEF WaveInv, PipelineOK
  <2>6. \A k : Asked(k)' <=> Asked(k)
    BY <1>2 DEF Asked
  <2> QED BY <2>2, <2>3, <2>4, <2>5, <2>6, <1>2 DEF PipelineOK
<1>10. WaveGuardsOK'
  BY <1>2, <1>3, <1>4 DEF WaveInv, WaveGuardsOK
<1>11. ToldOK'
  <2>1. Waves!JobsIn(inPipeline') = Waves!JobsIn(inPipeline)
    BY <1>3, <1>5 DEF Waves!JobsIn
  <2>2. \A k \in e.jobs : k \in Waves!JobsIn(inPipeline)
    BY DEF Waves!JobsIn
  <2>3. \A t : Told(t, job', inPipeline') = Told(t, job, inPipeline)
    BY <2>1, <2>2, <1>4 DEF Told
  <2> QED BY <2>3, <1>2 DEF WaveInv, ToldOK
<1> QED BY <1>7, <1>8, <1>9, <1>10, <1>11 DEF WaveInv

\* Nothing the invariant is about changes.
LEMMA WaveQuietInv ==
    ASSUME WaveInv, UNCHANGED <<config, job, waveGuard, cursor, completions, inPipeline, step, threw,
                                completed, rejected>>
    PROVE  WaveInv'
BY DEF WaveInv, WaveTypeOK, CursorOK, CompletionsOK, PipelineOK, StepsOK, WaveGuardsOK, ToldOK, Asked

---------------------------------------------------------------------------
(* Steps of the handlers.                                                  *)

\* The pipeline is left alone, and so are the jobs in it.
LEMMA PipelineKept ==
    ASSUME WaveInv, UNCHANGED <<config, inPipeline>>, step # "await", step' # "await",
           \A k \in Jobs : job[k] \in {"completing", "answered", "failed"} \/ job'[k] = "completing"
                               => job'[k] = job[k]
    PROVE  PipelineOK'
<1>1. \A j : ~Asked(j) /\ ~Asked(j)'
  BY DEF Asked
<1>2. \A e \in inPipeline : \A k \in e.jobs :
          k \in Jobs /\ job[k] = (IF e.state = "sent" THEN "completing" ELSE e.state)
          /\ job[k] \in {"completing", "answered", "failed"}
  BY WaveHeld DEF WaveInv, PipelineOK
<1>3. \A e \in inPipeline : \A k \in e.jobs :
          job'[k] = (IF e.state = "sent" THEN "completing" ELSE e.state)
  BY <1>2
<1> QED BY <1>1, <1>3 DEF WaveInv, PipelineOK

LEMMA ToldKept ==
    ASSUME WaveInv, UNCHANGED <<inPipeline, completed>>,
           \A k \in Jobs : job[k] \in {"answered", "failed"} \/ job'[k] \in {"answered", "failed"}
                               => job'[k] = job[k],
           rejected \/ threw # "no" => rejected' \/ threw' # "no"
    PROVE  ToldOK'
<1>1. \A s \in {"answered", "failed"} : Told(s, job', inPipeline') = Told(s, job, inPipeline)
  BY DEF Told
<1> QED BY <1>1 DEF WaveInv, ToldOK

\* The jobs of a set as a claim answers with them.
LEMMA AnyOrder ==
    ASSUME NEW S \in SUBSET Jobs
    PROVE  /\ SetToSeq(S) \in Seq(Jobs) /\ ToSet(SetToSeq(S)) = S /\ Distinct(SetToSeq(S))
           /\ IsFiniteSet(S) /\ Len(SetToSeq(S)) = Cardinality(S) /\ Cardinality(S) \in Nat
<1>1. IsFiniteSet(S) /\ Cardinality(S) \in Nat /\ ExistsBijection(1..Cardinality(S), S)
  BY Sizes, FS_Subset, FS_CardinalityType
<1>2. \E f \in [1..Cardinality(S) -> S] : IsInjective(f)
  BY <1>1 DEF ExistsBijection, Bijection, Injection
<1>3. SetToSeq(S) \in [1..Cardinality(S) -> S] /\ IsInjective(SetToSeq(S))
  BY <1>2 DEF SetToSeq
<1> DEFINE s == SetToSeq(S)
<1>4. s \in SetToSeqs(S)
  <2>1. s \in [1..Cardinality(S) -> S] /\ IsInjective(s)
    BY <1>3
  <2> HIDE DEF s
  <2> QED BY <2>1 DEF SetToSeqs, IsInjective
<1> HIDE DEF s
<1>5. s \in Seq(Jobs) /\ ToSet(s) = S /\ Distinct(s)
  BY <1>4, SetInOrder
<1>6. Cardinality(ToSet(s)) = Len(s)
  BY <1>5, DistinctSize
<1> QED BY <1>1, <1>5, <1>6 DEF s

LEMMA ClaimedInv == ASSUME WaveInv, Waves!Claimed PROVE WaveInv'
<1> DEFINE due0 == {j \in Jobs : job[j] = "due"}
<1>1. /\ step = "claim"
      /\ UNCHANGED <<config, completions, inPipeline, completed>>
  BY DEF Waves!Claimed
<1>2. /\ completions = <<>> /\ cursor = <<>> /\ threw = "no" /\ step \in Between
      /\ \A j \in Jobs : job[j] \in {"absent", "due", "settled", "completing", "answered",
                                     "failed", "dropped"}
  BY <1>1, Resting DEF Between
<1>3. CASE Waves!EndWave(FALSE, FALSE) /\ UNCHANGED Waves!handling
  <2>1. /\ step' \in Between \ {"returned"} /\ threw' = "no" /\ rejected' \in BOOLEAN
        /\ rejected => rejected'
    BY <1>2, <1>3, WaveEnded DEF Between
  <2>2. UNCHANGED <<job, waveGuard, cursor>>
    BY <1>3 DEF Waves!handling
  <2>3. PipelineOK'
    BY <1>1, <2>1, <2>2, PipelineKept DEF Between
  <2>4. ToldOK'
    BY <1>1, <1>2, <2>1, <2>2, ToldKept
  <2> QED BY <1>1, <1>2, <2>1, <2>2, <2>3, <2>4, RestInv DEF WaveInv, WaveTypeOK
<1>4. ASSUME NEW S \in SUBSET due0, NEW first \in Nat,
             LET taken == SubSeq(SetToSeq(S), 1, Min({first, Cardinality(S)}))
             IN /\ job' = [j \in Jobs |-> IF j \in ToSet(taken) THEN "handling"
                                          ELSE IF j \in S THEN "claimed" ELSE job[j]]
                /\ waveGuard' = [j \in Jobs |-> IF j \in S THEN "active" ELSE waveGuard[j]]
                /\ cursor' = SubSeq(SetToSeq(S), Len(taken) + 1, Cardinality(S))
                /\ step' = "handle" /\ UNCHANGED <<threw, rejected>>
      PROVE  WaveInv'
  <2> DEFINE s == SetToSeq(S)
             n == Min({first, Cardinality(S)})
  <2>1. s \in Seq(Jobs) /\ ToSet(s) = S /\ Distinct(s) /\ Len(s) = Cardinality(S) /\ Cardinality(S) \in Nat
    BY AnyOrder
  <2>2. n \in 0..Len(s)
    <3>1. first \in Int /\ Cardinality(S) \in Int
      BY <2>1
    <3>2. n \in {first, Cardinality(S)} /\ n <= Cardinality(S)
      BY <3>1, MinOfTwo
    <3> HIDE DEF n, s
    <3> QED BY <3>2, <2>1
  <2>3. /\ Taken(s, n) \in Seq(Jobs) /\ Len(Taken(s, n)) = n /\ Kept(s, n) \in Seq(Jobs)
        /\ S = ToSet(Taken(s, n)) \cup ToSet(Kept(s, n)) /\ Distinct(Kept(s, n))
        /\ ToSet(Taken(s, n)) \cap ToSet(Kept(s, n)) = {}
    <3> HIDE DEF s, n
    <3> QED BY <2>1, <2>2, TakenAndKept
  <2>4. /\ job' = [j \in Jobs |-> IF j \in ToSet(Taken(s, n)) THEN "handling"
                                  ELSE IF j \in S THEN "claimed" ELSE job[j]]
        /\ cursor' = Kept(s, n)
    BY <1>4, <2>1, <2>3 DEF Taken, Kept
  <2> HIDE DEF s, n
  <2>5. /\ waveGuard' = [j \in Jobs |-> IF j \in S THEN "active" ELSE waveGuard[j]]
        /\ step' = "handle" /\ UNCHANGED <<threw, rejected>>
    BY <1>4
  <2>6. /\ job' \in [Jobs -> Progress] /\ waveGuard' \in [Jobs -> Renewed \cup Ending \cup {"none"}]
        /\ \A j \in Jobs : IF j \in S THEN /\ job[j] = "due" /\ waveGuard'[j] = "active"
                                           /\ job'[j] = IF j \in ToSet(Kept(s, n)) THEN "claimed" ELSE "handling"
                           ELSE job'[j] = job[j] /\ waveGuard'[j] = waveGuard[j]
    BY <2>3, <2>4, <2>5 DEF WaveInv, WaveTypeOK, Progress, Renewed
  <2>7. WaveTypeOK'
    BY <1>1, <2>3, <2>4, <2>5, <2>6 DEF WaveInv, WaveTypeOK, Steps
  <2>8. CursorOK'
    BY <1>2, <2>3, <2>4, <2>6 DEF CursorOK
  <2>9. CompletionsOK'
    <3>1. ToSet(<<>>) = {}
      BY DEF ToSet
    <3> QED BY <1>1, <1>2, <2>5, <2>6, <3>1 DEF WaveInv, CompletionsOK, Asked
  <2>10. PipelineOK'
    BY <1>1, <2>5, <2>6, PipelineKept
  <2>11. StepsOK'
    BY <1>1, <1>2, <2>5, <2>6 DEF StepsOK, Between
  <2>12. WaveGuardsOK'
    BY <1>2, <2>5, <2>6 DEF WaveInv, WaveGuardsOK, Renewed
  <2>13. ToldOK'
    BY <1>1, <2>5, <2>6, ToldKept
  <2> QED BY <2>7, <2>8, <2>9, <2>10, <2>11, <2>12, <2>13 DEF WaveInv
<1>5. config.concurrency \in Nat /\ Cardinality(due0) \in Nat
  BY WaveSizes, FS_Subset, FS_CardinalityType DEF WaveInv
<1>6. CASE ~(Waves!EndWave(FALSE, FALSE) /\ UNCHANGED Waves!handling)
  <2>1. PICK S \in SUBSET due0 :
           LET first == IF config.kind = "jobs" THEN config.concurrency ELSE Cardinality(due0)
               taken == SubSeq(SetToSeq(S), 1, Min({first, Cardinality(S)}))
           IN /\ job' = [j \in Jobs |-> IF j \in ToSet(taken) THEN "handling"
                                        ELSE IF j \in S THEN "claimed" ELSE job[j]]
              /\ waveGuard' = [j \in Jobs |-> IF j \in S THEN "active" ELSE waveGuard[j]]
              /\ cursor' = SubSeq(SetToSeq(S), Len(taken) + 1, Cardinality(S))
              /\ step' = "handle" /\ UNCHANGED <<threw, rejected>>
    BY <1>6, LibraryOfWaves DEF Waves!Claimed
  <2>2. (IF config.kind = "jobs" THEN config.concurrency ELSE Cardinality(due0)) \in Nat
    BY <1>5
  <2> QED BY <2>1, <2>2, <1>4
<1> QED BY <1>3, <1>6

LEMMA TailOf ==
    ASSUME NEW q \in Seq(Jobs), q # <<>>, Distinct(q)
    PROVE  /\ Tail(q) \in Seq(Jobs) /\ Distinct(Tail(q)) /\ Head(q) \in ToSet(q) /\ Head(q) \in Jobs
           /\ ToSet(Tail(q)) = ToSet(q) \ {Head(q)}
<1>1. /\ Len(q) \in Nat \ {0} /\ DOMAIN q = 1..Len(q) /\ Tail(q) \in Seq(Jobs)
      /\ Len(Tail(q)) = Len(q) - 1 /\ DOMAIN Tail(q) = 1..(Len(q) - 1) /\ Head(q) = q[1]
      /\ \A i \in 1..(Len(q) - 1) : Tail(q)[i] = q[i + 1]
      /\ \A i \in 1..Len(q) : q[i] \in Jobs
  OBVIOUS
<1>2. Head(q) \in ToSet(q) /\ Head(q) \in Jobs
  BY <1>1 DEF ToSet
<1>3. Distinct(Tail(q))
  <2> SUFFICES ASSUME NEW i \in 1..(Len(q) - 1), NEW k \in 1..(Len(q) - 1), q[i + 1] = q[k + 1]
               PROVE  i = k
    BY <1>1 DEF Distinct
  <2>1. i + 1 \in 1..Len(q) /\ k + 1 \in 1..Len(q)
    BY <1>1
  <2>2. i + 1 = k + 1
    BY <2>1, <1>1 DEF Distinct
  <2> QED BY <2>2, <1>1
<1>4. ToSet(Tail(q)) = ToSet(q) \ {Head(q)}
  <2>1. ASSUME NEW i \in 1..(Len(q) - 1) PROVE q[i + 1] \in ToSet(q) /\ q[i + 1] # q[1]
    <3>1. i + 1 \in 1..Len(q) /\ 1 \in 1..Len(q) /\ i + 1 # 1
      BY <1>1
    <3> QED BY <3>1, <1>1 DEF ToSet, Distinct
  <2>2. ASSUME NEW i \in 1..Len(q), q[i] # q[1] PROVE q[i] \in ToSet(Tail(q))
    <3>1. i - 1 \in 1..(Len(q) - 1) /\ i = (i - 1) + 1
      BY <2>2, <1>1
    <3> QED BY <3>1, <1>1 DEF ToSet
  <2> QED BY <2>1, <2>2, <1>1 DEF ToSet
<1> QED BY <1>1, <1>2, <1>3, <1>4

\* The runner of j has left j with progress s, and may have gone on with another job.
WentOn(j, s) ==
    /\ Distinct(cursor') /\ cursor' \in Seq(Jobs)
    /\ \A k \in Jobs : job'[k] = "claimed" <=> k \in ToSet(cursor')
    /\ threw' \in {"no", "yes", "flush"}
    /\ threw # "no" => threw' # "no"
    /\ job' \in [Jobs -> Progress] /\ job'[j] = s
    /\ \A k \in Jobs \ {j} : \/ job'[k] = job[k]
                             \/ /\ job[k] = "claimed"
                                /\ \/ job'[k] = "released" /\ waveGuard[k] = "failed"
                                   \/ job'[k] = "handling" /\ waveGuard[k] \in Renewed

LEMMA RanNext ==
    ASSUME WaveInv, NEW j \in Jobs, step = "handle", job[j] # "claimed",
           NEW s \in Progress \ {"claimed"}, Waves!RunNext(Waves!Ended(j, s))
    PROVE  WentOn(j, s)
<1> DEFINE ended == [job EXCEPT ![j] = s]
<1>1. /\ job \in [Jobs -> Progress] /\ ended \in [Jobs -> Progress] /\ threw \in {"no", "yes", "flush"}
      /\ cursor \in Seq(Jobs) /\ Distinct(cursor)
      /\ \A k \in Jobs : job[k] = "claimed" <=> k \in ToSet(cursor)
      /\ \A k \in Jobs : ended[k] = IF k = j THEN s ELSE job[k]
  BY DEF WaveInv, WaveTypeOK, CursorOK
<1>2. CASE cursor = <<>>
  <2>1. job' = ended /\ UNCHANGED <<cursor, threw>>
    BY <1>2 DEF Waves!RunNext, Waves!Ended
  <2> HIDE DEF ended
  <2> QED BY <2>1, <1>1 DEF WentOn
<1>3. CASE cursor # <<>>
  <2> DEFINE k == Head(cursor)
             t == IF waveGuard[k] = "failed" THEN "released" ELSE "handling"
  <2>1. /\ job' = [ended EXCEPT ![k] = t] /\ cursor' = Tail(cursor)
        /\ threw' = IF waveGuard[k] = "failed" THEN "yes" ELSE threw
    BY <1>3 DEF Waves!RunNext, Waves!Ended
  <2>2. /\ Tail(cursor) \in Seq(Jobs) /\ Distinct(Tail(cursor)) /\ k \in ToSet(cursor) /\ k \in Jobs
        /\ ToSet(Tail(cursor)) = ToSet(cursor) \ {k}
    BY <1>1, <1>3, TailOf
  <2>3. t \in {"released", "handling"} /\ t \in Progress
    BY DEF Progress
  <2>4. job[k] = "claimed" /\ k # j /\ waveGuard[k] \in Renewed
    BY <2>2, <1>1 DEF WaveInv, WaveGuardsOK
  <2> HIDE DEF ended
  <2>5. /\ job' \in [Jobs -> Progress]
        /\ \A l \in Jobs : job'[l] = IF l = k THEN t ELSE IF l = j THEN s ELSE job[l]
    BY <2>1, <2>2, <2>3, <2>4, <1>1
  <2>6. threw' \in {"no", "yes", "flush"} /\ (threw # "no" => threw' # "no")
    BY <2>1, <1>1
  <2>7. \A l \in Jobs : job'[l] = "claimed" <=> l \in ToSet(cursor')
    BY <2>1, <2>2, <2>3, <2>5, <1>1
  <2> QED BY <2>1, <2>2, <2>3, <2>4, <2>5, <2>6, <2>7 DEF WentOn
<1> QED BY <1>2, <1>3

LEMMA Threw ==
    ASSUME WaveInv, NEW j \in Jobs, job[j] # "claimed", Waves!RunnerThrows(j)
    PROVE  WentOn(j, "released")
<1>1. job' = [job EXCEPT ![j] = "released"] /\ threw' = "yes" /\ cursor' = cursor
  BY DEF Waves!RunnerThrows, Waves!Ended
<1> QED BY <1>1 DEF WentOn, WaveInv, WaveTypeOK, CursorOK, Progress

\* Whatever its runner does next, a job is where its guard says.
LEMMA RunnerInv ==
    ASSUME WaveInv, NEW j \in Jobs, NEW s, WentOn(j, s),
           step = "handle", config.kind = "jobs",
           job[j] \in {"handling", "stopping", "raising", "sent"},
           \/ s = "succeeded" /\ completions' = Append(completions, j) /\ waveGuard[j] \in Renewed
           \/ s \in {"settled", "sent"} /\ completions' = completions /\ waveGuard[j] = "stopped"
           \/ s = "released" /\ completions' = completions /\ waveGuard[j] \in {"stopped", "lost"},
           UNCHANGED <<config, waveGuard, inPipeline, step, completed, rejected>>
    PROVE  WaveInv'
<1>1. /\ job'[j] = s /\ job' \in [Jobs -> Progress]
      /\ s \in {"succeeded", "settled", "sent", "released"}
      /\ \A k \in Jobs \ {j} : \/ job'[k] = job[k]
                               \/ /\ job[k] = "claimed"
                                  /\ \/ job'[k] = "released" /\ waveGuard[k] = "failed"
                                     \/ job'[k] = "handling" /\ waveGuard[k] \in Renewed
  BY DEF WentOn
<1>2. completions \in Seq(Jobs) /\ Distinct(completions) /\ j \notin ToSet(completions)
      /\ \A k : ~Asked(k) /\ ~Asked(k)'
  BY DEF WaveInv, WaveTypeOK, CompletionsOK, Asked
<1>3. /\ completions' \in Seq(Jobs) /\ Distinct(completions')
      /\ ToSet(completions') = IF s = "succeeded" THEN ToSet(completions) \cup {j} ELSE ToSet(completions)
  BY <1>2, AppendJob
<1>4. WaveTypeOK'
  BY <1>1, <1>3 DEF WaveInv, WaveTypeOK, WentOn
<1>5. CursorOK'
  BY DEF WentOn, CursorOK
<1>6. CompletionsOK'
  BY <1>1, <1>2, <1>3 DEF WaveInv, CompletionsOK
<1>7. PipelineOK'
  BY <1>1, PipelineKept
<1>8. StepsOK'
  BY DEF StepsOK, Between
<1>9. WaveGuardsOK'
  BY <1>1 DEF WaveInv, WaveGuardsOK, Renewed, Ending
<1>10. ToldOK'
  <2>1. rejected \/ threw # "no" => rejected' \/ threw' # "no"
    BY DEF WentOn
  <2> QED BY <1>1, <2>1, ToldKept
<1> QED BY <1>4, <1>5, <1>6, <1>7, <1>8, <1>9, <1>10 DEF WaveInv

LEMMA SucceedsInv == ASSUME WaveInv, NEW j \in Jobs, Waves!Succeeds(j) PROVE WaveInv'
<1>1. /\ step = "handle" /\ config.kind = "jobs" /\ job[j] = "handling"
      /\ completions' = Append(completions, j)
      /\ Waves!RunNext(Waves!Ended(j, "succeeded"))
      /\ UNCHANGED <<config, waveGuard, inPipeline, step, completed, rejected>>
  BY DEF Waves!Succeeds
<1>2. WentOn(j, "succeeded")
  <2>1. "succeeded" \in Progress \ {"claimed"}
    BY DEF Progress
  <2> QED BY <1>1, <2>1, RanNext
<1>3. waveGuard[j] \in Renewed
  BY <1>1 DEF WaveInv, WaveGuardsOK
<1> QED BY <1>1, <1>2, <1>3, RunnerInv

\* At "handle", a job whose guard is awaited, or whose outcome is sent, is one of run().
LEMMA OfRun ==
    ASSUME WaveInv, NEW j \in Jobs,
           job[j] \in {"stopping", "raising"} \/ (step = "handle" /\ job[j] = "sent")
    PROVE  step = "handle" /\ config.kind = "jobs"
<1>1. step = "handle"
  BY DEF WaveInv, StepsOK
<1>2. config.kind # "batch"
  BY <1>1 DEF WaveInv, StepsOK
<1> QED BY <1>1, <1>2, WaveSizes DEF WaveInv

LEMMA WaveStoppedInv == ASSUME WaveInv, NEW j \in Jobs, Waves!Stopped(j) PROVE WaveInv'
<1>1. /\ job[j] \in {"stopping", "raising"} /\ waveGuard[j] \in {"stopped", "lost"}
      /\ UNCHANGED <<config, waveGuard, completions, inPipeline, step, completed, rejected>>
  BY DEF Waves!Stopped
<1>2. step = "handle" /\ config.kind = "jobs"
  BY <1>1, OfRun
<1>3. CASE Waves!RunnerThrows(j)
  BY <1>1, <1>2, <1>3, Threw, RunnerInv
<1>4. CASE ~Waves!RunnerThrows(j)
  <2>1. /\ waveGuard[j] = "stopped" /\ job' = [job EXCEPT ![j] = "sent"] /\ UNCHANGED <<cursor, threw>>
    BY <1>1, <1>4 DEF Waves!Stopped, Waves!Ended
  <2>2. WentOn(j, "sent")
    BY <1>1, <2>1 DEF WentOn, WaveInv, WaveTypeOK, CursorOK, Progress
  <2> QED BY <1>1, <1>2, <2>1, <2>2, RunnerInv
<1> QED BY <1>3, <1>4

LEMMA WaveAppliedInv == ASSUME WaveInv, NEW j \in Jobs, Waves!Applied(j) PROVE WaveInv'
<1>1. /\ step = "handle" /\ job[j] = "sent"
      /\ Waves!RunNext(Waves!Ended(j, "settled")) \/ Waves!RunnerThrows(j)
      /\ UNCHANGED <<config, waveGuard, completions, inPipeline, step, completed, rejected>>
  BY DEF Waves!Applied
<1>2. config.kind = "jobs" /\ waveGuard[j] = "stopped"
  BY <1>1, OfRun DEF WaveInv, WaveGuardsOK
<1>3. CASE Waves!RunnerThrows(j)
  BY <1>1, <1>2, <1>3, Threw, RunnerInv
<1>4. CASE Waves!RunNext(Waves!Ended(j, "settled"))
  <2>1. "settled" \in Progress \ {"claimed"}
    BY DEF Progress
  <2>2. WentOn(j, "settled")
    BY <1>1, <1>4, <2>1, RanNext
  <2> QED BY <1>1, <1>2, <2>2, RunnerInv
<1> QED BY <1>1, <1>3, <1>4

\* What stop() does to the guards of some jobs.
LEMMA StoppedGuards ==
    ASSUME WaveTypeOK, NEW S, waveGuard' = Waves!StopAll(S)
    PROVE  /\ waveGuard' \in [Jobs -> Renewed \cup Ending \cup {"none"}]
           /\ \A j \in Jobs : j \notin S => waveGuard'[j] = waveGuard[j]
           /\ \A j \in Jobs : waveGuard[j] \in Renewed /\ j \in S => waveGuard'[j] \in Ending
           /\ \A j \in Jobs : waveGuard[j] \in Ending => waveGuard'[j] = waveGuard[j]
           /\ \A j \in Jobs : waveGuard[j] = "none" => waveGuard'[j] = "none"
<1>1. /\ waveGuard \in [Jobs -> Renewed \cup Ending \cup {"none"}]
      /\ waveGuard' = [j \in Jobs |-> IF j \in S THEN Waves!Stop(waveGuard[j]) ELSE waveGuard[j]]
  BY DEF WaveTypeOK, Waves!StopAll
<1>2. /\ \A g \in Renewed : Waves!Stop(g) \in Ending
      /\ \A g \in Ending \cup {"none"} : Waves!Stop(g) = g
  BY DEF Waves!Stop, Renewed, Ending
<1> QED BY <1>1, <1>2

LEMMA WaveStopsInv == ASSUME WaveInv, NEW j \in Jobs, Waves!Stops(j) PROVE WaveInv'
<1>1. /\ step = "handle" /\ config.kind = "jobs" /\ job[j] = "handling"
      /\ waveGuard' = Waves!StopAll({j})
      /\ UNCHANGED <<config, cursor, completions, inPipeline, step, threw, completed, rejected>>
  BY DEF Waves!Stops
<1>2. PICK s \in {"stopping", "raising"} : job' = [job EXCEPT ![j] = s]
  BY DEF Waves!Stops, Waves!Ended
<1>3. /\ job' \in [Jobs -> Progress] /\ \A k \in Jobs : job'[k] = IF k = j THEN s ELSE job[k]
  BY <1>2 DEF WaveInv, WaveTypeOK, Progress
<1>4. /\ waveGuard' \in [Jobs -> Renewed \cup Ending \cup {"none"}]
      /\ \A k \in Jobs : k # j => waveGuard'[k] = waveGuard[k]
      /\ waveGuard'[j] \in Ending
  BY <1>1, StoppedGuards DEF WaveInv, WaveGuardsOK
<1>5. WaveTypeOK'
  BY <1>1, <1>3, <1>4 DEF WaveInv, WaveTypeOK
<1>6. CursorOK' /\ CompletionsOK'
  BY <1>1, <1>3 DEF WaveInv, CursorOK, CompletionsOK, Asked
<1>7. PipelineOK' /\ ToldOK'
  BY <1>1, <1>3, PipelineKept, ToldKept
<1>8. StepsOK'
  BY <1>1 DEF StepsOK, Between
<1>9. WaveGuardsOK'
  BY <1>1, <1>3, <1>4 DEF WaveInv, WaveGuardsOK
<1> QED BY <1>5, <1>6, <1>7, <1>8, <1>9 DEF WaveInv

LEMMA BatchHandledInv == ASSUME WaveInv, Waves!BatchHandled PROVE WaveInv'
<1> DEFINE held == {j \in Jobs : job[j] = "handling"}
<1>1. /\ step = "handle" /\ config.kind = "batch" /\ step' = "stop"
      /\ completions' = SetToSeq(held) /\ waveGuard' = Waves!StopAll(held)
      /\ threw' \in {"no", "yes"}
      /\ UNCHANGED <<config, cursor, inPipeline, completed, rejected>>
  BY LibraryOfWaves DEF Waves!BatchHandled
<1>2. PICK s \in {"succeeded", "decided"} : job' = [j \in Jobs |-> IF j \in held THEN s ELSE job[j]]
  BY DEF Waves!BatchHandled
<1>3. /\ completions' \in Seq(Jobs) /\ ToSet(completions') = held /\ Distinct(completions')
  BY <1>1, AnyOrder
<1>4. /\ threw = "no" /\ completions = <<>>
      /\ \A j \in Jobs : job[j] \notin {"stopping", "raising", "sent"}
  BY <1>1 DEF WaveInv, StepsOK
<1>5. /\ job' \in [Jobs -> Progress]
      /\ \A j \in Jobs : IF job[j] = "handling" THEN job'[j] = s ELSE job'[j] = job[j]
  BY <1>2 DEF WaveInv, WaveTypeOK, Progress
<1>6. /\ waveGuard' \in [Jobs -> Renewed \cup Ending \cup {"none"}]
      /\ \A j \in Jobs : IF job[j] = "handling" THEN waveGuard'[j] \in Ending ELSE waveGuard'[j] = waveGuard[j]
  BY <1>1, StoppedGuards DEF WaveInv, WaveGuardsOK
<1>7. \A j \in Jobs : job[j] \notin {"succeeded", "decided"}
  <2>1. ToSet(<<>>) = {}
    BY DEF ToSet
  <2> QED BY <2>1, <1>4 DEF WaveInv, CompletionsOK
<1>8. WaveTypeOK'
  BY <1>1, <1>3, <1>5, <1>6 DEF WaveInv, WaveTypeOK, Steps
<1>9. CursorOK' /\ CompletionsOK'
  BY <1>1, <1>3, <1>5, <1>7 DEF WaveInv, CursorOK, CompletionsOK, Asked
<1>10. PipelineOK' /\ ToldOK'
  BY <1>1, <1>4, <1>5, PipelineKept, ToldKept
<1>11. StepsOK'
  BY <1>1, <1>4, <1>5 DEF StepsOK, Between
<1>12. WaveGuardsOK'
  BY <1>1, <1>5, <1>6, <1>7 DEF WaveInv, WaveGuardsOK
<1> QED BY <1>8, <1>9, <1>10, <1>11, <1>12 DEF WaveInv

LEMMA HandledInv == ASSUME WaveInv, Waves!Handled PROVE WaveInv'
<1>1. /\ step = "handle" /\ step' = "stop" /\ waveGuard' = Waves!StopAll(ToSet(completions))
      /\ \A j \in Jobs : job[j] \notin {"handling", "stopping", "sent", "raising"}
      /\ UNCHANGED <<config, job, cursor, completions, inPipeline, threw, completed, rejected>>
  BY LibraryOfWaves DEF Waves!Handled, Waves!Running
<1>2. \A j \in Jobs : job[j] \in {"succeeded", "decided"} <=> j \in ToSet(completions)
  BY <1>1 DEF WaveInv, CompletionsOK, Asked
<1>3. /\ waveGuard' \in [Jobs -> Renewed \cup Ending \cup {"none"}]
      /\ \A j \in Jobs : j \notin ToSet(completions) => waveGuard'[j] = waveGuard[j]
      /\ \A j \in Jobs : waveGuard[j] \in Renewed /\ j \in ToSet(completions) => waveGuard'[j] \in Ending
  BY <1>1, StoppedGuards DEF WaveInv
<1>4. WaveTypeOK'
  BY <1>1, <1>3 DEF WaveInv, WaveTypeOK, Steps
<1>5. CursorOK' /\ CompletionsOK'
  BY <1>1 DEF WaveInv, CursorOK, CompletionsOK, Asked
<1>6. PipelineOK' /\ ToldOK'
  BY <1>1, PipelineKept, ToldKept
<1>7. StepsOK'
  BY <1>1 DEF StepsOK, Between
<1>8. WaveGuardsOK'
  BY <1>1, <1>2, <1>3 DEF WaveInv, WaveGuardsOK
<1> QED BY <1>4, <1>5, <1>6, <1>7, <1>8 DEF WaveInv

LEMMA AllStoppedInv == ASSUME WaveInv, Waves!AllStopped PROVE WaveInv'
<1>1. PICK lost \in SUBSET ToSet(completions) :
        /\ \A j \in ToSet(completions) : waveGuard[j] = "lost" => j \in lost
        /\ completions' \in SetToSeqs(ToSet(completions) \ lost)
        /\ job' = [j \in Jobs |-> IF j \in lost THEN "dropped" ELSE job[j]]
        /\ threw' = IF lost # {} THEN "yes" ELSE threw
  <2> DEFINE lost == {j \in ToSet(completions) :
                          waveGuard[j] = "lost" \/ (config.kind = "batch" /\ threw = "yes")}
  <2> WITNESS lost \in SUBSET ToSet(completions)
  <2> QED BY LibraryOfWaves DEF Waves!AllStopped
<1>2. /\ step = "stop" /\ step' = "flush"
      /\ \A j \in ToSet(completions) : waveGuard[j] \in {"stopped", "lost"}
      /\ UNCHANGED <<config, waveGuard, cursor, inPipeline, completed, rejected>>
  BY LibraryOfWaves DEF Waves!AllStopped
<1>3. ToSet(completions) \subseteq Jobs /\ threw \in {"no", "yes", "flush"}
  BY WaveHeld DEF WaveInv, WaveTypeOK
<1>4. completions' \in Seq(Jobs) /\ ToSet(completions') = ToSet(completions) \ lost /\ Distinct(completions')
  BY <1>1, <1>3, SetInOrder
<1>5. \A j \in Jobs : job[j] \in {"succeeded", "decided"} <=> j \in ToSet(completions)
  BY <1>2 DEF WaveInv, CompletionsOK, Asked
<1>6. /\ job' \in [Jobs -> Progress]
      /\ \A j \in Jobs : IF j \in lost THEN job[j] \in {"succeeded", "decided"} /\ job'[j] = "dropped"
                                       ELSE job'[j] = job[j]
  BY <1>1, <1>5 DEF WaveInv, WaveTypeOK, Progress
<1>7. WaveTypeOK'
  BY <1>1, <1>2, <1>3, <1>4, <1>6 DEF WaveInv, WaveTypeOK, Steps
<1>8. CursorOK' /\ CompletionsOK'
  BY <1>1, <1>2, <1>4, <1>5, <1>6 DEF WaveInv, CursorOK, CompletionsOK, Asked
<1>9. PipelineOK' /\ ToldOK'
  BY <1>1, <1>2, <1>3, <1>6, PipelineKept, ToldKept
<1>10. StepsOK'
  BY <1>2, <1>6 DEF WaveInv, StepsOK, Between, Asked
<1>11. WaveGuardsOK'
  <2>1. \A j \in Jobs : job'[j] \in {"succeeded", "decided"} => waveGuard[j] = "stopped"
    BY <1>1, <1>2, <1>5, <1>6
  <2>2. \A j \in lost : waveGuard[j] \in Ending
    BY <1>1, <1>2 DEF Ending
  <2> QED BY <2>1, <2>2, <1>2, <1>6 DEF WaveInv, WaveGuardsOK
<1> QED BY <1>7, <1>8, <1>9, <1>10, <1>11 DEF WaveInv

---------------------------------------------------------------------------
(* Steps of the completions.                                               *)

\* The batches that are sent next, of a queue of completions.
LEMMA WavePieces ==
    ASSUME NEW q \in Seq(Jobs), Distinct(q), NEW n \in Nat, n <= Waves!Batches(q)
    PROVE  LET t == Waves!Upto(q, n) IN
           /\ t \in 0..Len(q) /\ Waves!Rest(q, n) = Kept(q, t)
           /\ \A i \in 1..n : Waves!Batch(q, i) \subseteq ToSet(Taken(q, t)) /\ Waves!Batch(q, i) # {}
           /\ \A j \in ToSet(Taken(q, t)) : \E i \in 1..n : j \in Waves!Batch(q, i)
           /\ \A i, k \in 1..n : i # k => Waves!Batch(q, i) \cap Waves!Batch(q, k) = {}
<1> DEFINE t == Waves!Upto(q, n)
<1>1. /\ Waves!Rest(q, n) = Kept(q, t) /\ t = Min({n * WaveBatchSize, Len(q)})
      /\ \A i \in 1..n : Waves!Batch(q, i) = ToSet(Piece(WaveBatchSize, q, i))
  BY LibraryOfWaves DEF Waves!Rest, Waves!Upto, Waves!Batch, Kept, Piece, Lower, Upper
<1>2. WaveBatchSize \in Nat \ {0} /\ Len(q) \in Nat
  BY WorkersAssumption
<1>3. WaveBatchSize - 1 \in 0..(WaveBatchSize - 1) /\ n <= (Len(q) + (WaveBatchSize - 1)) \div WaveBatchSize
  <2>1. Len(q) + WaveBatchSize - 1 = Len(q) + (WaveBatchSize - 1)
    BY <1>2
  <2> QED BY <2>1, <1>2 DEF Waves!Batches
<1>4. Cut(WaveBatchSize, q, n, t)
  BY <1>1, <1>2, <1>3, CutWell
<1>5. t \in 0..Len(q)
  BY <1>4 DEF Cut
<1> HIDE DEF t
<1>6. /\ \A i \in 1..n : /\ ToSet(Piece(WaveBatchSize, q, i)) # {}
                         /\ ToSet(Piece(WaveBatchSize, q, i)) \subseteq ToSet(Taken(q, t))
      /\ \A j \in ToSet(Taken(q, t)) : \E i \in 1..n : j \in ToSet(Piece(WaveBatchSize, q, i))
      /\ \A i, k \in 1..n : i # k =>
             ToSet(Piece(WaveBatchSize, q, i)) \cap ToSet(Piece(WaveBatchSize, q, k)) = {}
  BY <1>4, CutParts
<1>7. /\ \A i \in 1..n : Waves!Batch(q, i) \subseteq ToSet(Taken(q, t)) /\ Waves!Batch(q, i) # {}
      /\ \A j \in ToSet(Taken(q, t)) : \E i \in 1..n : j \in Waves!Batch(q, i)
  <2>1. ASSUME NEW i \in 1..n
        PROVE  Waves!Batch(q, i) \subseteq ToSet(Taken(q, t)) /\ Waves!Batch(q, i) # {}
    <3>1. Waves!Batch(q, i) = ToSet(Piece(WaveBatchSize, q, i))
      BY <1>1
    <3>2. /\ ToSet(Piece(WaveBatchSize, q, i)) # {}
          /\ ToSet(Piece(WaveBatchSize, q, i)) \subseteq ToSet(Taken(q, t))
      BY ONLY <1>6, i \in 1..n
    <3> QED BY ONLY <3>1, <3>2
  <2>2. ASSUME NEW j \in ToSet(Taken(q, t)) PROVE \E i \in 1..n : j \in Waves!Batch(q, i)
    <3>1. PICK i \in 1..n : j \in ToSet(Piece(WaveBatchSize, q, i))
      BY <1>6
    <3> QED BY <3>1, <1>1
  <2> QED BY <2>1, <2>2
<1>8. ASSUME NEW i \in 1..n, NEW k \in 1..n, i # k PROVE Waves!Batch(q, i) \cap Waves!Batch(q, k) = {}
  <2>1. /\ Waves!Batch(q, i) = ToSet(Piece(WaveBatchSize, q, i))
        /\ Waves!Batch(q, k) = ToSet(Piece(WaveBatchSize, q, k))
    BY <1>1
  <2> QED BY <2>1, <1>6, <1>8
<1> QED BY <1>1, <1>5, <1>7, <1>8 DEF t

\* The first of them, of a queue that is not empty.
LEMMA FirstBatch ==
    ASSUME NEW q \in Seq(Jobs), Distinct(q), q # <<>>
    PROVE  LET u == Waves!Upto(q, 1) IN
           /\ u \in 1..Len(q) /\ Waves!Rest(q, 1) = Kept(q, u)
           /\ Waves!Batch(q, 1) = ToSet(Taken(q, u))
           /\ IsFiniteSet(Waves!Batch(q, 1)) /\ Cardinality(Waves!Batch(q, 1)) = u
<1> DEFINE u == Waves!Upto(q, 1)
<1>1. WaveBatchSize \in Nat \ {0} /\ Len(q) \in Nat \ {0}
  BY WorkersAssumption
<1>2. 1 * WaveBatchSize = WaveBatchSize /\ (1 - 1) * WaveBatchSize + 1 = 1
  BY <1>1
<1>3. /\ u = Min({WaveBatchSize, Len(q)}) /\ Waves!Rest(q, 1) = Kept(q, u)
      /\ Waves!Batch(q, 1) = ToSet(Taken(q, u))
  BY <1>2, LibraryOfWaves DEF Waves!Upto, Waves!Rest, Waves!Batch, Kept, Taken
<1>4. u \in 1..Len(q)
  <2>1. WaveBatchSize \in Int /\ Len(q) \in Int
    BY <1>1
  <2>2. u \in {WaveBatchSize, Len(q)} /\ u <= Len(q)
    BY <2>1, <1>3, MinOfTwo
  <2> QED BY <2>2, <1>1
<1> HIDE DEF u
<1>5. /\ Taken(q, u) \in Seq(Jobs) /\ Len(Taken(q, u)) = u
      /\ \A i \in 1..u : Taken(q, u)[i] = q[i]
  BY <1>4, TakenAndKept
<1>6. Distinct(Taken(q, u))
  <2>1. DOMAIN Taken(q, u) = 1..u /\ DOMAIN q = 1..Len(q) /\ \A i \in 1..u : i \in 1..Len(q)
    BY <1>4, <1>5
  <2> QED BY <2>1, <1>5 DEF Distinct
<1>7. IsFiniteSet(ToSet(Taken(q, u))) /\ Cardinality(ToSet(Taken(q, u))) = u
  BY <1>5, <1>6, DistinctSize
<1> QED BY <1>3, <1>4, <1>7 DEF u

\* Of what the pipeline still holds callers will be told when it is collected.
LEMMA CollectsOrNot ==
    ASSUME WaveInv, NEW kept, NEW collects \in BOOLEAN,
           kept = IF collects THEN Waves!Kept(inPipeline) ELSE inPipeline,
           IF collects
           THEN /\ completed' = completed + Waves!Count(inPipeline)
                /\ threw' = IF Waves!Failure(inPipeline) THEN "flush" ELSE threw
           ELSE UNCHANGED <<completed, threw>>
    PROVE  /\ kept \subseteq inPipeline /\ IsFiniteSet(kept)
           /\ Cardinality(kept) \in Nat /\ Cardinality(kept) <= Cardinality(inPipeline)
           /\ \A e \in inPipeline : e.state = "sent" => e \in kept
           /\ completed' \in Nat /\ completed' = Cardinality(Told("answered", job, kept))
           /\ threw' \in {"no", "yes", "flush"}
           /\ Told("failed", job, kept) # {} => rejected \/ threw' # "no"
<1>1. CASE collects
  <2>1. /\ completed \in Nat /\ threw \in {"no", "yes", "flush"}
        /\ Told("failed", job, inPipeline) # {} => rejected \/ threw # "no"
    BY DEF WaveInv, WaveTypeOK, ToldOK
  <2> QED BY <1>1, <2>1, Collected
<1>2. CASE ~collects
  <2>1. Cardinality(inPipeline) \in Nat
    BY FS_CardinalityType DEF WaveInv, WaveTypeOK
  <2> QED BY <1>2, <2>1 DEF WaveInv, WaveTypeOK, ToldOK
<1> QED BY <1>1, <1>2

\* New completions are added to those that are kept, for jobs that have succeeded.
LEMMA SentInv ==
    ASSUME WaveInv, step \in {"flush", "drainOne"}, step' \in {"flush", "drainOne"},
           UNCHANGED <<config, waveGuard, cursor, rejected>>,
           NEW t \in 0..Len(completions), completions' = Kept(completions, t),
           \A j \in ToSet(completions) : job[j] = "succeeded",
           job' = [j \in Jobs |-> IF j \in ToSet(Taken(completions, t)) THEN "completing" ELSE job[j]],
           NEW kept, NEW new, inPipeline' = kept \cup new,
           kept \subseteq inPipeline, IsFiniteSet(kept),
           \A e \in inPipeline : e.state = "sent" => e \in kept,
           completed' \in Nat, completed' = Cardinality(Told("answered", job, kept)),
           threw' \in {"no", "yes", "flush"},
           Told("failed", job, kept) # {} => rejected \/ threw' # "no",
           new \subseteq Completions, IsFiniteSet(new),
           \A e \in new : e.state = "sent" /\ e.jobs \subseteq ToSet(Taken(completions, t)),
           \A j \in ToSet(Taken(completions, t)) : \E e \in new : j \in e.jobs,
           \A e, f \in new : e # f => e.jobs \cap f.jobs = {},
           config.depth > 0 => Cardinality(kept) + Cardinality(new) <= config.depth
    PROVE  WaveInv'
<1> DEFINE sent == ToSet(Taken(completions, t))
<1>1. /\ completions \in Seq(Jobs) /\ Distinct(completions) /\ ToSet(completions) \subseteq Jobs
      /\ \A j : ~Asked(j) /\ ~Asked(j)'
  BY WaveHeld DEF WaveInv, WaveTypeOK, CompletionsOK, Asked
<1>2. /\ completions' \in Seq(Jobs) /\ Distinct(completions')
      /\ ToSet(completions) = sent \cup ToSet(completions') /\ sent \cap ToSet(completions') = {}
  BY <1>1, TakenAndKept
<1>3. /\ sent \subseteq Jobs /\ \A j \in sent : job[j] = "succeeded"
  BY <1>1, <1>2
<1>4. /\ job' \in [Jobs -> Progress]
      /\ \A j \in Jobs : job'[j] = IF j \in sent THEN "completing" ELSE job[j]
  BY DEF WaveInv, WaveTypeOK, Progress
<1> HIDE DEF sent
<1>5. WaveTypeOK'
  <2>1. inPipeline' \subseteq Completions /\ IsFiniteSet(inPipeline')
    BY FS_Union DEF WaveInv, WaveTypeOK
  <2> QED BY <2>1, <1>2, <1>4 DEF WaveInv, WaveTypeOK, Steps
<1>6. CursorOK' /\ CompletionsOK'
  BY <1>1, <1>2, <1>3, <1>4 DEF WaveInv, CursorOK, CompletionsOK
<1>7. \A e \in kept : \A j \in e.jobs :
          /\ j \in Jobs /\ j \notin sent /\ job'[j] = job[j]
          /\ job[j] = (IF e.state = "sent" THEN "completing" ELSE e.state)
  <2> SUFFICES ASSUME NEW e \in kept, NEW j \in e.jobs
               PROVE  /\ j \in Jobs /\ j \notin sent /\ job'[j] = job[j]
                      /\ job[j] = (IF e.state = "sent" THEN "completing" ELSE e.state)
    OBVIOUS
  <2>1. /\ j \in Jobs /\ e.state \in {"sent", "answered", "failed"}
        /\ job[j] = (IF e.state = "sent" THEN "completing" ELSE e.state)
    BY WaveHeld DEF WaveInv, PipelineOK
  <2>2. j \notin sent
    BY <2>1, <1>3
  <2> QED BY <2>1, <2>2, <1>4
<1>8. PipelineOK'
  <2>1. ASSUME NEW e \in inPipeline', NEW j \in e.jobs
        PROVE  job'[j] = (IF e.state = "sent" THEN "completing" ELSE e.state)
    <3>1. CASE e \in kept
      BY <3>1, <1>7
    <3>2. CASE e \in new
      <4>1. j \in sent /\ e.state = "sent"
        BY <3>2 DEF sent
      <4> QED BY <4>1, <1>3, <1>4
    <3> QED BY <3>1, <3>2
  <2>2. ASSUME NEW e \in inPipeline', NEW f \in inPipeline', e # f
        PROVE  e.jobs \cap f.jobs = {}
    <3>1. CASE e \in kept /\ f \in kept
      BY <3>1, <2>2 DEF WaveInv, PipelineOK
    <3>2. CASE e \in new /\ f \in new
      BY <3>2, <2>2
    <3>3. CASE (e \in kept /\ f \in new) \/ (e \in new /\ f \in kept)
      BY <3>3, <1>7 DEF sent
    <3> QED BY <3>1, <3>2, <3>3
  <2>3. ASSUME NEW j \in Jobs, job'[j] = "completing"
        PROVE  \E e \in inPipeline' : j \in e.jobs
    <3>1. CASE j \in sent
      BY <3>1 DEF sent
    <3>2. CASE j \notin sent
      <4>1. PICK e \in inPipeline : j \in e.jobs
        BY <3>2, <2>3, <1>1, <1>4 DEF WaveInv, PipelineOK
      <4>2. e.state = "sent"
        BY <4>1, <3>2, <2>3, <1>4, WaveHeld DEF WaveInv, PipelineOK
      <4> QED BY <4>1, <4>2
    <3> QED BY <3>1, <3>2
  <2>4. config.depth > 0 => Cardinality(inPipeline') <= config.depth
    <3>1. /\ Cardinality(inPipeline') = Cardinality(kept) + Cardinality(new) - Cardinality(kept \cap new)
          /\ Cardinality(kept) \in Nat /\ Cardinality(new) \in Nat
      BY FS_Union, FS_CardinalityType
    <3>2. Cardinality(kept \cap new) \in Nat
      BY FS_Intersection, FS_CardinalityType
    <3>3. config.depth \in Nat
      BY WaveSizes DEF WaveInv
    <3> QED BY <3>1, <3>2, <3>3
  <2> QED BY <2>1, <2>2, <2>3, <2>4, <1>1 DEF PipelineOK
<1>9. StepsOK'
  BY <1>4 DEF WaveInv, StepsOK, Between, Asked
<1>10. WaveGuardsOK'
  BY <1>3, <1>4 DEF WaveInv, WaveGuardsOK
<1>11. ToldOK'
  <2>1. \A s \in {"answered", "failed"} : Told(s, job', inPipeline') = Told(s, job, kept)
    <3> SUFFICES ASSUME NEW s \in {"answered", "failed"}, NEW j \in Jobs
                 PROVE  job'[j] = s /\ j \notin Waves!JobsIn(inPipeline') <=>
                           job[j] = s /\ j \notin Waves!JobsIn(kept)
      BY DEF Told
    <3>1. job'[j] = s <=> job[j] = s
      BY <1>3, <1>4
    <3>2. job[j] = s => (j \in Waves!JobsIn(inPipeline') <=> j \in Waves!JobsIn(kept))
      <4>1. job[j] = s => \A e \in new : j \notin e.jobs
        BY <1>3 DEF sent
      <4> QED BY <4>1 DEF Waves!JobsIn
    <3> QED BY <3>1, <3>2
  <2> QED BY <2>1 DEF ToldOK
<1> QED BY <1>5, <1>6, <1>8, <1>9, <1>10, <1>11 DEF WaveInv

LEMMA SendCompletionsInv == ASSUME WaveInv, Waves!SendCompletions PROVE WaveInv'
<1> DEFINE collects == step = "drainOne" \/ Waves!Batches(completions) > config.depth - Cardinality(inPipeline)
           kept == IF collects THEN Waves!Kept(inPipeline) ELSE inPipeline
           n == Min({Waves!Batches(completions), config.depth - Cardinality(kept)})
           t == Waves!Upto(completions, n)
           new == {[jobs |-> Waves!Batch(completions, i), state |-> "sent"] : i \in 1..n}
<1>1. /\ config.depth > 0 /\ \A j \in ToSet(completions) : job[j] = "succeeded"
      /\ step \in {"flush", "drainOne"} /\ step' \in {"flush", "drainOne"}
      /\ UNCHANGED <<config, waveGuard, cursor, rejected>>
  BY LibraryOfWaves DEF Waves!SendCompletions, Waves!Deferred
<1>2. IF collects
      THEN /\ completed' = completed + Waves!Count(inPipeline)
           /\ threw' = IF Waves!Failure(inPipeline) THEN "flush" ELSE threw
      ELSE UNCHANGED <<completed, threw>>
  BY LibraryOfWaves DEF Waves!SendCompletions
<1>3. /\ inPipeline' = kept \cup new /\ completions' = Waves!Rest(completions, n)
      /\ job' = [j \in Jobs |-> IF j \in ToSet(SubSeq(completions, 1, t)) THEN "completing" ELSE job[j]]
  BY LibraryOfWaves DEF Waves!SendCompletions
<1>4. completions \in Seq(Jobs) /\ Distinct(completions) /\ ToSet(completions) \subseteq Jobs
  BY WaveHeld DEF WaveInv, WaveTypeOK, CompletionsOK
<1>5. collects \in BOOLEAN /\ kept = IF collects THEN Waves!Kept(inPipeline) ELSE inPipeline
  OBVIOUS
<1> HIDE DEF collects, kept
<1>6. /\ kept \subseteq inPipeline /\ IsFiniteSet(kept)
      /\ Cardinality(kept) \in Nat /\ Cardinality(kept) <= Cardinality(inPipeline)
      /\ \A e \in inPipeline : e.state = "sent" => e \in kept
      /\ completed' \in Nat /\ completed' = Cardinality(Told("answered", job, kept))
      /\ threw' \in {"no", "yes", "flush"}
      /\ Told("failed", job, kept) # {} => rejected \/ threw' # "no"
  BY <1>2, <1>5, CollectsOrNot
<1>7. config.depth - Cardinality(kept) \in Nat /\ config.depth \in Nat
  <2>1. config.depth \in Nat /\ Cardinality(inPipeline) \in Nat /\ Cardinality(inPipeline) <= config.depth
    BY <1>1, WaveSizes, FS_CardinalityType DEF WaveInv, WaveTypeOK, PipelineOK
  <2> QED BY <2>1, <1>6
<1>8. Waves!Batches(completions) \in Nat
  <2>1. Len(completions) + WaveBatchSize - 1 \in Nat /\ WaveBatchSize \in Nat \ {0}
    BY <1>4, WorkersAssumption
  <2> QED BY <2>1, Quotient DEF Waves!Batches
<1>9. n \in Nat /\ n <= Waves!Batches(completions) /\ n <= config.depth - Cardinality(kept)
  <2> DEFINE a == Waves!Batches(completions)
             b == config.depth - Cardinality(kept)
  <2>1. a \in Nat /\ b \in Nat /\ a \in Int /\ b \in Int
    BY <1>7, <1>8
  <2> HIDE DEF a, b
  <2>2. Min({a, b}) \in {a, b} /\ Min({a, b}) <= a /\ Min({a, b}) <= b
    BY <2>1, MinOfTwo
  <2> QED BY <2>1, <2>2 DEF a, b
<1> HIDE DEF n
<1>10. /\ t \in 0..Len(completions) /\ Waves!Rest(completions, n) = Kept(completions, t)
       /\ \A i \in 1..n : Waves!Batch(completions, i) \subseteq ToSet(Taken(completions, t))
       /\ \A j \in ToSet(Taken(completions, t)) : \E i \in 1..n : j \in Waves!Batch(completions, i)
       /\ \A i, k \in 1..n : i # k => Waves!Batch(completions, i) \cap Waves!Batch(completions, k) = {}
  BY <1>4, <1>9, WavePieces
<1>11. job' = [j \in Jobs |-> IF j \in ToSet(Taken(completions, t)) THEN "completing" ELSE job[j]]
  BY <1>3 DEF Taken
<1> HIDE DEF t
<1>12. ToSet(Taken(completions, t)) \subseteq Jobs
  BY <1>4, <1>10, TakenAndKept
<1>13. IsFiniteSet(new) /\ Cardinality(new) <= n
  <2> DEFINE f == [i \in 1..n |-> [jobs |-> Waves!Batch(completions, i), state |-> "sent"]]
  <2>1. f \in Surjection(1..n, new)
    BY DEF Surjection
  <2>2. IsFiniteSet(1..n) /\ Cardinality(1..n) = n
    BY FS_Interval, <1>9
  <2> HIDE DEF f, new
  <2> QED BY <2>1, <2>2, FS_Surjection
<1>14. new \subseteq Completions
  BY <1>10, <1>12 DEF Completions
<1>15. \A e \in new : e.state = "sent" /\ e.jobs \subseteq ToSet(Taken(completions, t))
  BY <1>10
<1>16. \A j \in ToSet(Taken(completions, t)) : \E e \in new : j \in e.jobs
  <2> SUFFICES ASSUME NEW j \in ToSet(Taken(completions, t)) PROVE \E e \in new : j \in e.jobs
    OBVIOUS
  <2>1. PICK i \in 1..n : j \in Waves!Batch(completions, i)
    BY <1>10
  <2> DEFINE e == [jobs |-> Waves!Batch(completions, i), state |-> "sent"]
  <2>2. e \in new /\ j \in e.jobs
    BY <2>1
  <2> QED BY <2>2
<1>17. \A e, f \in new : e # f => e.jobs \cap f.jobs = {}
  <2> DEFINE entry(i) == [jobs |-> Waves!Batch(completions, i), state |-> "sent"]
  <2> SUFFICES ASSUME NEW i \in 1..n, NEW k \in 1..n, entry(i) # entry(k)
               PROVE  entry(i).jobs \cap entry(k).jobs = {}
    OBVIOUS
  <2>1. i # k
    OBVIOUS
  <2>2. \A a, b \in 1..n : a # b => Waves!Batch(completions, a) \cap Waves!Batch(completions, b) = {}
    BY ONLY <1>10
  <2>3. Waves!Batch(completions, i) \cap Waves!Batch(completions, k) = {}
    BY ONLY <2>1, <2>2, i \in 1..n, k \in 1..n
  <2> QED BY <2>3
<1> HIDE DEF new
<1>18. Cardinality(kept) + Cardinality(new) <= config.depth
  <2>1. Cardinality(new) \in Nat
    BY <1>13, FS_CardinalityType
  <2> QED BY <2>1, <1>6, <1>7, <1>9, <1>13
<1>19. completions' = Kept(completions, t)
  BY <1>3, <1>10
<1> QED BY <1>1, <1>3, <1>6, <1>10, <1>11, <1>13, <1>14, <1>15, <1>16, <1>17, <1>18, <1>19, SentInv

LEMMA WaveSendBatchInv == ASSUME WaveInv, Waves!SendBatch PROVE WaveInv'
<1> DEFINE first == Waves!Batch(completions, 1)
<1>1. /\ step = "flush" /\ step' = "await" /\ completions # <<>>
      /\ job' = [j \in Jobs |-> IF j \notin first THEN job[j]
                                ELSE IF job[j] = "succeeded" THEN "completing" ELSE "sent"]
      /\ UNCHANGED <<config, waveGuard, cursor, completions, inPipeline, threw, completed, rejected>>
  BY DEF Waves!SendBatch
<1>2. completions \in Seq(Jobs) /\ Distinct(completions) /\ ToSet(completions) \subseteq Jobs
  BY WaveHeld DEF WaveInv, WaveTypeOK, CompletionsOK
<1>3. first \subseteq ToSet(completions)
  <2>1. LET u == Waves!Upto(completions, 1) IN u \in 1..Len(completions) /\ first = ToSet(Taken(completions, u))
    BY <1>1, <1>2, FirstBatch
  <2> QED BY <2>1, <1>2, TakenAndKept
<1>4. \A j : ~Asked(j) /\ (Asked(j)' <=> j \in first)
  BY <1>1 DEF Asked, Waves!Batch, Waves!Upto
<1> HIDE DEF first
<1>5. \A j \in first : j \in Jobs /\ job[j] \in {"succeeded", "decided"}
  BY <1>2, <1>3, <1>4 DEF WaveInv, CompletionsOK
<1>6. /\ job' \in [Jobs -> Progress]
      /\ \A j \in Jobs : IF j \in first THEN job'[j] \in {"completing", "sent"} ELSE job'[j] = job[j]
  BY <1>1 DEF WaveInv, WaveTypeOK, Progress
<1>7. WaveTypeOK'
  BY <1>1, <1>6 DEF WaveInv, WaveTypeOK, Steps
<1>8. CursorOK' /\ CompletionsOK'
  BY <1>1, <1>4, <1>5, <1>6 DEF WaveInv, CursorOK, CompletionsOK
<1>9. PipelineOK'
  <2>1. \A e \in inPipeline : \A j \in e.jobs :
           j \in Jobs /\ j \notin first /\ job[j] = (IF e.state = "sent" THEN "completing" ELSE e.state)
    BY <1>5, WaveHeld DEF WaveInv, PipelineOK
  <2> QED BY <2>1, <1>1, <1>4, <1>6 DEF WaveInv, PipelineOK
<1>10. StepsOK'
  BY <1>1, <1>4, <1>6 DEF WaveInv, StepsOK, Between
<1>11. WaveGuardsOK'
  BY <1>1, <1>5, <1>6 DEF WaveInv, WaveGuardsOK
<1>12. ToldOK'
  BY <1>1, <1>5, <1>6, ToldKept
<1> QED BY <1>7, <1>8, <1>9, <1>10, <1>11, <1>12 DEF WaveInv

LEMMA WaveBatchAnsweredInv == ASSUME WaveInv, Waves!BatchAnswered PROVE WaveInv'
<1> DEFINE first == Waves!Batch(completions, 1)
           u == Waves!Upto(completions, 1)
<1>1. /\ step = "await" /\ step' = "flush" /\ completions' = Waves!Rest(completions, 1)
      /\ UNCHANGED <<config, waveGuard, cursor, inPipeline, rejected>>
  BY DEF Waves!BatchAnswered
<1>2. PICK s \in {"failed", "answered", "settled"} :
        /\ job' = [j \in Jobs |-> IF j \in first THEN s ELSE job[j]]
        /\ completed' = completed + (IF s = "answered" THEN u ELSE 0)
        /\ threw' = IF s = "failed" THEN "flush" ELSE threw
  BY DEF Waves!BatchAnswered
<1>3. completions \in Seq(Jobs) /\ Distinct(completions) /\ ToSet(completions) \subseteq Jobs /\ completions # <<>>
  BY <1>1, WaveHeld DEF WaveInv, WaveTypeOK, CompletionsOK
<1>4. /\ u \in 1..Len(completions) /\ completions' = Kept(completions, u)
      /\ first = ToSet(Taken(completions, u)) /\ IsFiniteSet(first) /\ Cardinality(first) = u
  BY <1>1, <1>3, FirstBatch
<1>5. \A j : (Asked(j) <=> j \in first) /\ ~Asked(j)'
  BY <1>1 DEF Asked
<1> HIDE DEF first, u
<1>6. /\ completions' \in Seq(Jobs) /\ Distinct(completions')
      /\ ToSet(completions) = first \cup ToSet(completions') /\ first \cap ToSet(completions') = {}
  <2>1. u \in 0..Len(completions)
    BY <1>4
  <2> QED BY <2>1, <1>3, <1>4, TakenAndKept
<1>7. \A j \in first : j \in Jobs /\ job[j] \in {"completing", "sent"}
  BY <1>3, <1>5, <1>6 DEF WaveInv, CompletionsOK
<1>8. /\ job' \in [Jobs -> Progress]
      /\ \A j \in Jobs : IF j \in first THEN job'[j] = s ELSE job'[j] = job[j]
  BY <1>2 DEF WaveInv, WaveTypeOK, Progress
<1>9. u \in Nat /\ completed \in Nat /\ completed' \in Nat
  BY <1>2, <1>3, <1>4 DEF WaveInv, WaveTypeOK
<1>10. WaveTypeOK'
  BY <1>1, <1>2, <1>6, <1>8, <1>9 DEF WaveInv, WaveTypeOK, Steps
<1>11. CursorOK' /\ CompletionsOK'
  BY <1>1, <1>5, <1>6, <1>7, <1>8 DEF WaveInv, CursorOK, CompletionsOK
<1>12. \A e \in inPipeline : \A j \in e.jobs :
           j \in Jobs /\ j \notin first /\ job[j] = (IF e.state = "sent" THEN "completing" ELSE e.state)
  BY <1>5, WaveHeld DEF WaveInv, PipelineOK
<1>13. PipelineOK'
  BY <1>1, <1>5, <1>8, <1>12 DEF WaveInv, PipelineOK
<1>14. StepsOK'
  BY <1>1, <1>5, <1>8 DEF WaveInv, StepsOK, Between
<1>15. WaveGuardsOK'
  BY <1>1, <1>7, <1>8 DEF WaveInv, WaveGuardsOK
<1>16. ToldOK'
  <2> DEFINE before == Told("answered", job, inPipeline)
             after == Told("answered", job', inPipeline')
  <2>1. \A j \in first : j \notin Waves!JobsIn(inPipeline)
    BY <1>12 DEF Waves!JobsIn
  <2>2. completed = Cardinality(before) /\ (Told("failed", job, inPipeline) # {} => rejected \/ threw # "no")
    BY DEF WaveInv, ToldOK
  <2>3. before \cap first = {} /\ IsFiniteSet(before)
    <3>1. before \subseteq Jobs /\ IsFiniteSet(Jobs)
      BY WaveSizes DEF Told, WaveInv
    <3>2. before \cap first = {}
      BY <1>7 DEF Told
    <3> QED BY <3>1, <3>2, FS_Subset
  <2>4. after = IF s = "answered" THEN before \cup first ELSE before
    BY <1>1, <1>7, <1>8, <2>1 DEF Told
  <2>5. Told("failed", job', inPipeline') # {} => Told("failed", job, inPipeline) # {} \/ s = "failed"
    BY <1>1, <1>8 DEF Told
  <2> HIDE DEF before, after
  <2>6. Cardinality(before \cup first) = Cardinality(before) + Cardinality(first)
    <3>1. Cardinality(before \cap first) = 0 /\ Cardinality(before) \in Nat /\ Cardinality(first) \in Nat
      BY <2>3, <1>4, FS_EmptySet, FS_CardinalityType
    <3>2. Cardinality(before \cup first) = Cardinality(before) + Cardinality(first) - Cardinality(before \cap first)
      BY <2>3, <1>4, FS_Union
    <3> QED BY <3>1, <3>2
  <2>7. completed' = Cardinality(after)
    BY <2>2, <2>4, <2>6, <1>2, <1>4, <1>9
  <2> QED BY <2>2, <2>5, <2>7, <1>1, <1>2 DEF ToldOK, after
<1> QED BY <1>10, <1>11, <1>13, <1>14, <1>15, <1>16 DEF WaveInv

LEMMA ReleaseInv == ASSUME WaveInv, Waves!Release PROVE WaveInv'
<1>1. /\ step = "flush" /\ step' = "release" /\ completions = <<>>
      /\ waveGuard' = Waves!StopAll(Waves!Left)
      /\ UNCHANGED <<config, job, cursor, completions, inPipeline, threw, completed, rejected>>
  BY DEF Waves!Release
<1>2. \A j \in Jobs : j \in Waves!Left <=> job[j] \in {"claimed", "released"}
  BY DEF Waves!Left
<1>3. /\ waveGuard' \in [Jobs -> Renewed \cup Ending \cup {"none"}]
      /\ \A j \in Jobs : j \notin Waves!Left => waveGuard'[j] = waveGuard[j]
      /\ \A j \in Jobs : waveGuard[j] \in Renewed /\ j \in Waves!Left => waveGuard'[j] \in Ending
      /\ \A j \in Jobs : waveGuard[j] \in Ending => waveGuard'[j] = waveGuard[j]
  BY <1>1, StoppedGuards DEF WaveInv
<1>4. WaveTypeOK'
  BY <1>1, <1>3 DEF WaveInv, WaveTypeOK, Steps
<1>5. CursorOK' /\ CompletionsOK'
  BY <1>1 DEF WaveInv, CursorOK, CompletionsOK, Asked
<1>6. PipelineOK' /\ ToldOK'
  BY <1>1, PipelineKept, ToldKept
<1>7. StepsOK'
  BY <1>1 DEF WaveInv, StepsOK, Between, Asked
<1>8. WaveGuardsOK'
  <2>1. \A j \in Jobs : job[j] \in {"claimed", "released"} => waveGuard'[j] \in Ending
    BY <1>1, <1>2, <1>3 DEF WaveInv, WaveGuardsOK, Renewed
  <2> QED BY <2>1, <1>1, <1>2, <1>3 DEF WaveInv, WaveGuardsOK
<1> QED BY <1>4, <1>5, <1>6, <1>7, <1>8 DEF WaveInv

LEMMA ReleasedInv == ASSUME WaveInv, Waves!Released PROVE WaveInv'
<1> DEFINE failing == (\E j \in Waves!Left : waveGuard[j] = "lost") \/ threw # "no"
<1>1. /\ step = "release" /\ cursor' = <<>>
      /\ job' = [j \in Jobs |-> IF j \in Waves!Left THEN "dropped" ELSE job[j]]
      /\ Waves!EndWave(failing, TRUE)
      /\ UNCHANGED <<config, waveGuard, completions, inPipeline, completed>>
  BY DEF Waves!Released
<1>2. /\ step' \in Between \ {"returned"} /\ threw' = "no" /\ rejected' \in BOOLEAN
      /\ rejected \/ threw # "no" => rejected'
  <2>1. failing \in BOOLEAN /\ TRUE \in BOOLEAN /\ (threw # "no" => failing)
    OBVIOUS
  <2> HIDE DEF failing
  <2> QED BY <2>1, <1>1, WaveEnded DEF Between
<1>3. /\ job' \in [Jobs -> Progress]
      /\ \A j \in Jobs : job'[j] = IF job[j] \in {"claimed", "released"} THEN "dropped" ELSE job[j]
  BY <1>1 DEF WaveInv, WaveTypeOK, Progress, Waves!Left
<1>4. completions = <<>>
  BY <1>1 DEF WaveInv, StepsOK
<1>5. ToSet(<<>>) = {} /\ <<>> \in Seq(Jobs) /\ Distinct(<<>>)
  BY DEF ToSet, Distinct
<1>6. WaveTypeOK'
  BY <1>1, <1>2, <1>3, <1>5 DEF WaveInv, WaveTypeOK, Steps, Between
<1>7. CursorOK' /\ CompletionsOK'
  BY <1>1, <1>2, <1>3, <1>5 DEF WaveInv, CursorOK, CompletionsOK, Asked, Between
<1>8. PipelineOK'
  BY <1>1, <1>2, <1>3, PipelineKept DEF Between
<1>9. ToldOK'
  BY <1>1, <1>2, <1>3, ToldKept
<1>10. StepsOK'
  BY <1>1, <1>2, <1>3, <1>4 DEF WaveInv, StepsOK, Between, Asked
<1>11. WaveGuardsOK'
  BY <1>1, <1>2, <1>3 DEF WaveInv, WaveGuardsOK, Between
<1> QED BY <1>6, <1>7, <1>8, <1>9, <1>10, <1>11 DEF WaveInv

---------------------------------------------------------------------------
(* The specification.                                                      *)

LEMMA InitWave == ASSUME Waves!Init PROVE WaveInv
<1>1. /\ config \in Configs /\ job = [j \in Jobs |-> "absent"] /\ waveGuard = [j \in Jobs |-> "none"]
      /\ cursor = <<>> /\ completions = <<>> /\ inPipeline = {} /\ step = "top"
      /\ threw = "no" /\ completed = 0 /\ rejected = FALSE
  BY DEF Waves!Init
<1>2. /\ ToSet(<<>>) = {} /\ Distinct(<<>>) /\ <<>> \in Seq(Jobs)
      /\ IsFiniteSet({}) /\ Cardinality({}) = 0
  BY FS_EmptySet DEF ToSet, Distinct
<1>3. WaveTypeOK
  BY <1>1, <1>2 DEF WaveTypeOK, Progress, Steps
<1>4. CursorOK /\ CompletionsOK /\ StepsOK /\ WaveGuardsOK
  BY <1>1, <1>2 DEF CursorOK, CompletionsOK, StepsOK, WaveGuardsOK, Asked
<1>5. PipelineOK
  BY <1>1, <1>2, <1>3, WaveSizes DEF PipelineOK
<1>6. ToldOK
  <2>1. Told("answered", job, inPipeline) = {} /\ Told("failed", job, inPipeline) = {}
    BY <1>1 DEF Told
  <2> QED BY <2>1, <1>1, <1>2 DEF ToldOK
<1> QED BY <1>3, <1>4, <1>5, <1>6 DEF WaveInv

LEMMA WaveNextInv == ASSUME WaveInv, Waves!Next PROVE WaveInv'
<1>1. CASE Waves!BeginWave \/ Waves!SleepEnds \/ Waves!Aborted \/ Waves!Finally \/ Waves!ClaimFails
             \/ Waves!Claimed
  BY <1>1, BeginWaveInv, WaveIdleInv, WaveFinallyInv, ClaimedInv
<1>2. CASE Waves!BatchHandled \/ Waves!Handled \/ Waves!AllStopped
  BY <1>2, BatchHandledInv, HandledInv, AllStoppedInv
<1>3. CASE Waves!SendCompletions \/ Waves!SendBatch \/ Waves!BatchAnswered \/ Waves!FlushFailed
  BY <1>3, SendCompletionsInv, WaveSendBatchInv, WaveBatchAnsweredInv, FlushFailedInv
<1>4. CASE Waves!Release \/ Waves!Released \/ Waves!FlushReturns \/ \E e \in inPipeline : Waves!Settle(e)
  BY <1>4, ReleaseInv, ReleasedInv, FlushReturnsInv, WaveSettleInv
<1>5. ASSUME NEW j \in Jobs,
             \/ Waves!Succeeds(j) \/ Waves!Stops(j) \/ Waves!Stopped(j) \/ Waves!Applied(j)
             \/ Waves!Due(j) \/ Waves!Renew(j) \/ Waves!RenewalEnds(j)
      PROVE  WaveInv'
  BY <1>5, SucceedsInv, WaveStopsInv, WaveStoppedInv, WaveAppliedInv, WaveDueInv, WaveRenewalInv
<1>6. CASE Waves!Abort \/ Waves!FlushCalled
  BY <1>6, WaveQuietInv DEF Waves!Abort, Waves!FlushCalled, Waves!handling
<1> QED BY <1>1, <1>2, <1>3, <1>4, <1>5, <1>6 DEF Waves!Next, Waves!Continue

LEMMA WavesHandOver == ASSUME WaveInv PROVE Waves!WaveHandsOver
<1>1. \A j \in Jobs : /\ job[j] \in {"claimed", "handling"} /\ step # "release"
                            => waveGuard[j] \in {"active", "renewing", "failed"}
                      /\ job[j] \in {"sent", "completing"} => waveGuard[j] = "stopped"
  <2> SUFFICES ASSUME NEW j \in Jobs
               PROVE  /\ job[j] \in {"claimed", "handling"} /\ step # "release"
                            => waveGuard[j] \in {"active", "renewing", "failed"}
                      /\ job[j] \in {"sent", "completing"} => waveGuard[j] = "stopped"
    OBVIOUS
  <2> QED BY DEF WaveInv, WaveGuardsOK, Renewed
<1>2. ASSUME step = "returned"
      PROVE  /\ inPipeline = {}
             /\ \A j \in Jobs : /\ job[j] \in {"absent", "due", "answered", "failed", "settled", "dropped"}
                                /\ waveGuard[j] \notin {"active", "renewing"}
  <2>1. inPipeline = {}
    BY <1>2 DEF WaveInv, StepsOK
  <2>2. \A j \in Jobs : ~Asked(j) /\ job[j] \in {"absent", "due", "settled", "completing", "answered",
                                                 "failed", "dropped"}
    BY <1>2, Resting DEF Between
  <2>3. \A j \in Jobs : job[j] # "completing"
    BY <2>1, <2>2 DEF WaveInv, PipelineOK
  <2> QED BY <2>1, <2>2, <2>3 DEF WaveInv, WaveGuardsOK, Ending
<1> QED BY <1>1, <1>2 DEF Waves!WaveHandsOver

LEMMA WavesAccount == ASSUME WaveInv PROVE Waves!CompletionsAccounted
<1>1. config.depth > 0 => Cardinality(inPipeline) <= config.depth
  BY DEF WaveInv, PipelineOK
<1>2. completed = Cardinality(Told("answered", job, inPipeline))
      /\ (Told("failed", job, inPipeline) # {} => rejected \/ threw # "no")
  BY DEF WaveInv, ToldOK
<1> QED BY <1>1, <1>2, LibraryOfWaves DEF Waves!CompletionsAccounted, Told


---------------------------------------------------------------------------
(* WorkflowWorker.                                                         *)

FlowTypeOK ==
    /\ strategy \in {"waves", "continuous"}
    /\ due \subseteq Jobs /\ handling \subseteq Jobs /\ queue \in Seq(Jobs)
    /\ stage \in {"asking", "waiting", "idle", "draining", "ended"}

\* A job the worker has is queued, or in a handler.
HeldOK == /\ Distinct(queue) /\ ToSet(queue) \cap handling = {}
          /\ Cardinality(handling) <= Concurrency
          /\ guarded = handling \cup ToSet(queue) /\ guarded \cap due = {}

\* Between two waves the worker has no jobs, and when it has ended.
FlowStepsOK == /\ strategy = "waves" => stage # "draining" /\ (stage # "waiting" => guarded = {})
               /\ stage = "ended" => guarded = {}

FlowInv == FlowTypeOK /\ HeldOK /\ FlowStepsOK

\* The operators of the libraries mean the same in an instance.
LEMMA LibraryOfWorkflow ==
    \A S : /\ Workflow!Cardinality(S) = Cardinality(S) /\ Workflow!Range(S) = ToSet(S)
           /\ Workflow!IsInjective(S) = IsInjective(S)
<1> SUFFICES ASSUME NEW S
             PROVE  /\ Workflow!Cardinality(S) = Cardinality(S) /\ Workflow!Range(S) = ToSet(S)
                    /\ Workflow!IsInjective(S) = IsInjective(S)
  OBVIOUS
<1>1. Workflow!Cardinality(S) = Cardinality(S)
  BY DEF Workflow!Cardinality, Cardinality
<1>2. Workflow!Range(S) = ToSet(S)
  BY DEF Workflow!Range, ToSet
<1>3. Workflow!IsInjective(S) = IsInjective(S)
  BY DEF Workflow!IsInjective, IsInjective
<1> QED BY <1>1, <1>2, <1>3

\* As many handlers start as there are free places; the other jobs stay queued.
LEMMA FlowStarts ==
    ASSUME NEW jobs \in Seq(Jobs), Distinct(jobs), NEW busy \in SUBSET Jobs,
           ToSet(jobs) \cap busy = {}, Cardinality(busy) <= Concurrency, Workflow!Start(jobs, busy)
    PROVE  /\ handling' \subseteq Jobs /\ Cardinality(handling') <= Concurrency
           /\ queue' \in Seq(Jobs) /\ Distinct(queue') /\ ToSet(queue') \cap handling' = {}
           /\ handling' \cup ToSet(queue') = busy \cup ToSet(jobs)
<1> DEFINE free == Concurrency - Cardinality(busy)
           n == IF free < Len(jobs) THEN free ELSE Len(jobs)
<1>1. IsFiniteSet(busy) /\ Cardinality(busy) \in Nat /\ Concurrency \in Nat
  BY Sizes, FS_Subset, FS_CardinalityType
<1>2. n \in 0..Len(jobs) /\ n + Cardinality(busy) <= Concurrency
  BY <1>1
<1>3. handling' = busy \cup ToSet(Taken(jobs, n)) /\ queue' = Kept(jobs, n)
  BY LibraryOfWorkflow DEF Workflow!Start, Taken, Kept
<1> HIDE DEF n
<1> DEFINE taken == ToSet(Taken(jobs, n))
<1>4. /\ Kept(jobs, n) \in Seq(Jobs) /\ Distinct(Kept(jobs, n))
      /\ ToSet(jobs) = taken \cup ToSet(Kept(jobs, n)) /\ taken \cap ToSet(Kept(jobs, n)) = {}
      /\ IsFiniteSet(taken) /\ Cardinality(taken) <= n
  BY <1>2, TakenAndKept
<1>5. ToSet(jobs) \subseteq Jobs
  BY DEF ToSet
<1> HIDE DEF taken
<1>6. Cardinality(busy \cup taken) <= Concurrency
  <2>1. /\ Cardinality(busy \cup taken) = Cardinality(busy) + Cardinality(taken) - Cardinality(busy \cap taken)
        /\ Cardinality(taken) \in Nat
    BY <1>1, <1>4, FS_Union, FS_CardinalityType
  <2>2. Cardinality(busy \cap taken) \in Nat
    BY <1>1, FS_Intersection, FS_CardinalityType
  <2> QED BY <2>1, <2>2, <1>1, <1>2, <1>4
<1> QED BY <1>3, <1>4, <1>5, <1>6 DEF taken

\* What an ask returns.
LEMMA AnswerOf ==
    ASSUME FlowInv, NEW answer \in Workflow!Answers
    PROVE  answer \in Seq(Jobs) /\ Distinct(answer) /\ ToSet(answer) \subseteq due
<1> DEFINE of == {j \in due : StateOf[j] = StateNames[asking]}
<1>1. CASE answer = <<>>
  BY <1>1 DEF ToSet, Distinct
<1>2. CASE answer # <<>>
  <2>1. PICK most : answer \in UNION {[1..n -> of] : n \in 1..most} /\ IsInjective(answer)
    BY <1>2, LibraryOfWorkflow DEF Workflow!Answers
  <2>2. PICK n \in 1..most : answer \in [1..n -> of]
    BY <2>1
  <2>3. n \in Nat /\ of \subseteq due /\ due \subseteq Jobs
    BY DEF FlowInv, FlowTypeOK
  <2> HIDE DEF of
  <2>4. answer \in Seq(Jobs) /\ DOMAIN answer = 1..n
    BY <2>2, <2>3
  <2> QED BY <2>1, <2>2, <2>3, <2>4 DEF ToSet, Distinct, IsInjective
<1> QED BY <1>1, <1>2

LEMMA FlowClaimInv ==
    ASSUME FlowInv, NEW answer \in Workflow!Answers, Workflow!Claim(answer)
    PROVE  FlowInv'
<1>1. /\ stage = "asking" /\ UNCHANGED strategy
      /\ due' = due \ ToSet(answer) /\ guarded' = guarded \cup ToSet(answer)
      /\ Workflow!Start(queue \o answer, handling)
  BY LibraryOfWorkflow DEF Workflow!Claim
<1>2. answer \in Seq(Jobs) /\ Distinct(answer) /\ ToSet(answer) \subseteq due
  BY AnswerOf
<1>3. /\ queue \in Seq(Jobs) /\ Distinct(queue) /\ ToSet(queue) \cap handling = {}
      /\ handling \in SUBSET Jobs /\ due \subseteq Jobs /\ Cardinality(handling) <= Concurrency
      /\ guarded = handling \cup ToSet(queue) /\ guarded \cap due = {}
      /\ strategy \in {"waves", "continuous"}
  BY DEF FlowInv, FlowTypeOK, HeldOK
<1>4. /\ queue \o answer \in Seq(Jobs) /\ ToSet(queue \o answer) = ToSet(queue) \cup ToSet(answer)
      /\ Distinct(queue \o answer) /\ ToSet(queue \o answer) \cap handling = {}
  <2>1. ToSet(queue) \cap ToSet(answer) = {}
    BY <1>2, <1>3
  <2> QED BY <2>1, <1>2, <1>3, Joined
<1>5. /\ handling' \subseteq Jobs /\ Cardinality(handling') <= Concurrency
      /\ queue' \in Seq(Jobs) /\ Distinct(queue') /\ ToSet(queue') \cap handling' = {}
      /\ handling' \cup ToSet(queue') = handling \cup ToSet(queue \o answer)
  BY <1>1, <1>3, <1>4, FlowStarts
<1>6. HeldOK'
  BY <1>1, <1>2, <1>3, <1>4, <1>5 DEF HeldOK
<1>7. /\ stage' \in {"asking", "waiting", "idle", "draining", "ended"}
      /\ strategy = "continuous" => stage' # "ended"
      /\ strategy = "waves" => stage' # "draining" /\ (stage' # "waiting" => answer = <<>>)
  <2>1. CASE strategy = "waves"
    BY <2>1, <1>1 DEF Workflow!Claim, Workflow!NextState
  <2>2. CASE strategy = "continuous"
    BY <2>2, <1>1 DEF Workflow!Claim
  <2> QED BY <2>1, <2>2, <1>3
<1>8. FlowTypeOK'
  BY <1>1, <1>3, <1>5, <1>7 DEF FlowTypeOK
<1>9. FlowStepsOK'
  <2>1. ASSUME strategy = "waves", stage' # "waiting" PROVE guarded' = {}
    <3>1. guarded = {}
      BY <2>1, <1>1 DEF FlowInv, FlowStepsOK
    <3>2. ToSet(answer) = {}
      BY <2>1, <1>7 DEF ToSet
    <3> QED BY <3>1, <3>2, <1>1
  <2> QED BY <2>1, <1>1, <1>3, <1>7 DEF FlowStepsOK
<1> QED BY <1>6, <1>8, <1>9 DEF FlowInv

LEMMA HandlerEndsInv ==
    ASSUME FlowInv, NEW j \in Jobs, Workflow!HandlerEnds(j)
    PROVE  FlowInv'
<1>1. /\ j \in handling /\ UNCHANGED strategy
      /\ guarded' = guarded \ {j} /\ Workflow!Start(queue, handling \ {j})
  BY DEF Workflow!HandlerEnds
<1>2. due' \subseteq due \cup {j}
  BY DEF Workflow!HandlerEnds
<1>3. /\ queue \in Seq(Jobs) /\ Distinct(queue) /\ ToSet(queue) \cap handling = {}
      /\ handling \in SUBSET Jobs /\ due \subseteq Jobs /\ Cardinality(handling) <= Concurrency
      /\ guarded = handling \cup ToSet(queue) /\ guarded \cap due = {}
      /\ strategy \in {"waves", "continuous"}
  BY DEF FlowInv, FlowTypeOK, HeldOK
<1>4. handling \ {j} \in SUBSET Jobs /\ Cardinality(handling \ {j}) <= Concurrency
  <2>1. /\ IsFiniteSet(handling) /\ Cardinality(handling) \in Nat /\ Concurrency \in Nat
        /\ Cardinality(handling \ {j}) = Cardinality(handling) - 1
    BY <1>1, <1>3, Sizes, FS_Subset, FS_CardinalityType, FS_RemoveElement
  <2> QED BY <2>1, <1>3
<1>5. /\ handling' \subseteq Jobs /\ Cardinality(handling') <= Concurrency
      /\ queue' \in Seq(Jobs) /\ Distinct(queue') /\ ToSet(queue') \cap handling' = {}
      /\ handling' \cup ToSet(queue') = (handling \ {j}) \cup ToSet(queue)
  <2>1. ToSet(queue) \cap (handling \ {j}) = {}
    BY <1>3
  <2> QED BY <2>1, <1>1, <1>3, <1>4, FlowStarts
<1>6. HeldOK'
  BY <1>1, <1>2, <1>3, <1>5 DEF HeldOK
<1>7. j \in guarded /\ stage # "ended" /\ (strategy = "waves" => stage = "waiting")
  BY <1>1, <1>3 DEF FlowInv, FlowStepsOK
<1>8. /\ stage' \in {"asking", "waiting", "idle", "draining"}
      /\ strategy = "waves" => stage' = "waiting"
  BY <1>7 DEF Workflow!HandlerEnds, Workflow!PoolGoesOn, FlowInv, FlowTypeOK
<1> QED BY <1>1, <1>2, <1>3, <1>5, <1>6, <1>8 DEF FlowInv, FlowTypeOK, FlowStepsOK

\* The worker has what it had.
LEMMA FlowStageInv ==
    ASSUME FlowInv, UNCHANGED <<strategy, due, queue, handling, guarded>>,
           stage' \in {"asking", "waiting", "idle", "draining", "ended"},
           FlowStepsOK'
    PROVE  FlowInv'
BY DEF FlowInv, FlowTypeOK, HeldOK

LEMMA FlowNextInv == ASSUME FlowInv, Workflow!Next PROVE FlowInv'
<1>1. strategy \in {"waves", "continuous"}
      /\ stage \in {"asking", "waiting", "idle", "draining", "ended"}
  BY DEF FlowInv, FlowTypeOK
<1>2. queue = <<>> /\ handling = {} => guarded = {}
  BY DEF FlowInv, HeldOK, ToSet
<1>3. CASE Workflow!ClaimFails
  BY <1>1, <1>3, FlowStageInv DEF Workflow!ClaimFails, FlowInv, FlowStepsOK
<1>4. CASE Workflow!WaveEnds
  <2>1. /\ strategy = "waves" /\ guarded = {}
        /\ UNCHANGED <<strategy, due, queue, handling, guarded>>
        /\ stage' \in {"asking", "idle", "ended"}
    BY <1>2, <1>4 DEF Workflow!WaveEnds, Workflow!NextState
  <2> QED BY <2>1, FlowStageInv DEF FlowStepsOK
<1>5. CASE Workflow!Wake
  BY <1>1, <1>5, FlowStageInv DEF Workflow!Wake, FlowInv, FlowStepsOK
<1>6. CASE Workflow!Abort
  BY <1>1, <1>6, FlowStageInv DEF Workflow!Abort, FlowInv, FlowStepsOK
<1>7. CASE Workflow!Drained
  BY <1>1, <1>2, <1>7, FlowStageInv DEF Workflow!Drained, FlowInv, FlowStepsOK
<1> QED BY <1>3, <1>4, <1>5, <1>6, <1>7, FlowClaimInv, HandlerEndsInv DEF Workflow!Next, Workflow!Continue

LEMMA InitFlow == ASSUME Workflow!Init PROVE FlowInv
<1>1. /\ ToSet(<<>>) = {} /\ Distinct(<<>>) /\ <<>> \in Seq(Jobs) /\ Cardinality({}) = 0
  BY FS_EmptySet DEF ToSet, Distinct
<1> QED BY <1>1, Sizes DEF Workflow!Init, FlowInv, FlowTypeOK, HeldOK, FlowStepsOK

LEMMA WorkflowKeepsJobs == ASSUME FlowInv PROVE Workflow!JobsKept
BY LibraryOfWorkflow DEF FlowInv, HeldOK, FlowStepsOK, Workflow!JobsKept

---------------------------------------------------------------------------
(* The three workers: whichever a behaviour picks, the others rest.        *)

PartsNext == ContinuousNext \/ WavesNext \/ WorkflowNext

LEMMA PartsInit == PartInit => Inv /\ WaveInv /\ FlowInv
BY InitInv, InitWave, InitFlow DEF PartInit

LEMMA ContinuousKept == Inv /\ [PartsNext]_all => Inv'
<1> SUFFICES ASSUME Inv, [PartsNext]_all PROVE Inv'
  OBVIOUS
<1>1. [Next]_vars
  BY DEF PartsNext, ContinuousNext, WavesNext, WorkflowNext, all
<1> QED BY <1>1, NextInv

LEMMA WavesKept == WaveInv /\ [PartsNext]_all => WaveInv'
<1> SUFFICES ASSUME WaveInv, [PartsNext]_all PROVE WaveInv'
  OBVIOUS
<1>1. Waves!Next \/ UNCHANGED wave
  BY DEF PartsNext, ContinuousNext, WavesNext, WorkflowNext, all
<1>2. CASE UNCHANGED wave
  BY <1>2, WaveQuietInv DEF wave
<1> QED BY <1>1, <1>2, WaveNextInv

LEMMA WorkflowKept == FlowInv /\ [PartsNext]_all => FlowInv'
<1> SUFFICES ASSUME FlowInv, [PartsNext]_all PROVE FlowInv'
  OBVIOUS
<1>1. Workflow!Next \/ UNCHANGED workflow
  BY DEF PartsNext, ContinuousNext, WavesNext, WorkflowNext, all
<1>2. CASE UNCHANGED workflow
  BY <1>2 DEF workflow, FlowInv, FlowTypeOK, HeldOK, FlowStepsOK
<1> QED BY <1>1, <1>2, FlowNextInv

LEMMA PartsHold == PartSpec => [](Inv /\ WaveInv /\ FlowInv)
<1>1. Inv /\ WaveInv /\ FlowInv /\ [PartsNext]_all => (Inv /\ WaveInv /\ FlowInv)'
  BY ContinuousKept, WavesKept, WorkflowKept
<1>2. PartSpec => PartInit /\ [][PartsNext]_all
  BY PTL DEF PartSpec, PartsNext
<1> QED BY <1>1, <1>2, PartsInit, PTL

\* Whichever worker it is, the lease of a job is renewed until the request that settles it,
\* which is only sent while the lease is held; a worker that has returned has nothing under
\* way (flushBatch, stopQueueBatchGuards and the finally block of runBatchOnce, run() of a
\* workflow worker).
THEOREM LeasesAreHandedOver == PartSpec => []EveryLeaseHandedOver
<1>1. Inv /\ WaveInv /\ FlowInv => EveryLeaseHandedOver
  BY InvHandsOver, WavesHandOver, WorkflowKeepsJobs DEF EveryLeaseHandedOver
<1> QED BY <1>1, PartsHold, PTL

\* However waves, the collection of what was answered and calls of flush() interleave, the
\* completions under way are never more than the depth, each that was answered is counted to
\* exactly one caller, and one that failed makes some call reject
\* (QueuePendingCompletions.collectSettled, flushQueueCompletions).
THEOREM CompletionsAreAccounted == PartSpec => []CompletionsAccounted
<1>1. WaveInv => CompletionsAccounted
  BY WavesAccount DEF CompletionsAccounted
<1> QED BY <1>1, PartsHold, PTL
=============================================================================
