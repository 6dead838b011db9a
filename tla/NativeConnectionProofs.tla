----------------------- MODULE NativeConnectionProofs -----------------------
(***************************************************************************)
(* One native connection, for any number of requests and any limits.       *)
(***************************************************************************)
EXTENDS NativeConnection, FiniteSetTheorems, FunctionTheorems, WellFoundedInduction, TLAPS

TypeOK ==
    /\ st \in [Requests -> {"idle", "waiting", "granted", "pending", "done"}]
    /\ outcome \in [Requests -> {"none", "value", "error", "unsent", "possibly_sent", "overloaded"}]
    /\ server \in [Requests -> {"none", "owns", "answered", "lost"}]
    /\ timedOut \subseteq Data
    /\ chunks \in [Requests -> Nat]
    /\ discarded \in [Requests -> Nat]
    /\ credits \subseteq Data /\ IsFiniteSet(credits)
    /\ waiters \in Seq(Data)
    /\ limit \in Nat
    /\ writes \in Seq(Requests)
    /\ writeBlocked \in BOOLEAN
    /\ IsFiniteSet(Pending \ Data)
    /\ closed \in BOOLEAN
    /\ draining \in BOOLEAN
    /\ retirement \in {"none", "waiting", "resolved"}

Distinct(s) == \A i, j \in 1..Len(s) : s[i] = s[j] => i = j

\* What is known of a request where it stands; the heartbeat is sent again and again.
Stage(r) ==
    /\ st[r] \in {"waiting", "granted"} => r \in Data
    /\ r \in timedOut => st[r] = "pending" /\ outcome[r] = "possibly_sent"
    /\ chunks[r] > 0 => st[r] = "pending" /\ r \notin timedOut
    /\ r # Ping =>
         /\ st[r] \in {"idle", "waiting", "granted"} => server[r] = "none" /\ outcome[r] = "none"
         /\ st[r] = "pending" /\ r \notin timedOut => outcome[r] = "none"
         /\ st[r] = "done" => outcome[r] # "none"
         /\ outcome[r] \in {"unsent", "overloaded"} => server[r] = "none"
    /\ r \in Data /\ server[r] = "owns" /\ ~closed /\ ~draining => st[r] = "pending"

\* Who waits for a credit, and who has one.
WindowOK ==
    /\ {r \in Requests : st[r] = "waiting"} = Items(waiters)
    /\ Distinct(waiters)
    /\ waiters # <<>> => ~closed /\ ~draining /\ Cardinality(credits) >= limit
    /\ credits = {r \in Data : st[r] \in {"granted", "pending"}}
    /\ pendingControlRequests = Cardinality(Pending \ Data)

WritesOK ==
    /\ Items(writes) \subseteq {r \in Pending \ timedOut : server[r] = "none"}
    /\ draining => Items(writes) \subseteq {Ping}

LifeOK ==
    /\ draining /\ ~closed => Pending # {}
    /\ closed => Pending = {} /\ waiters = <<>> /\ writes = <<>> /\ retirement # "waiting"

\* The assembler's count.
FramesOK ==
    /\ IsFiniteSet(Buffered(Requests))
    /\ totalFrames = Cardinality(Buffered(Requests))
    /\ totalFrames <= MaxChunkFrames

Inv == TypeOK /\ (\A r \in Requests : Stage(r)) /\ WindowOK /\ WritesOK /\ LifeOK /\ FramesOK

---------------------------------------------------------------------------
(* Sequences and sets.                                                     *)

\* Induction over the natural numbers, for a set.
LEMMA Induction ==
    ASSUME NEW P, 0 \in P, \A n \in Nat : n \in P => n + 1 \in P
    PROVE  Nat \subseteq P
<1> SUFFICES ASSUME ~(Nat \subseteq P) PROVE FALSE
  OBVIOUS
<1> DEFINE T == Nat \ P
           R == OpToRel(<, Nat)
<1>1. T \subseteq Nat /\ T # {}
  OBVIOUS
<1>2. IsWellFoundedOn(R, Nat)
  BY NatLessThanWellFounded
<1> HIDE DEF R
<1>3. PICK x \in T : \A y \in T : <<y, x>> \notin R
  BY <1>1, <1>2, WFMin
<1>4. x \in Nat /\ x # 0 /\ x - 1 \in Nat /\ x - 1 < x /\ (x - 1) + 1 = x
  BY <1>3
<1>5. <<x - 1, x>> \in R
  BY <1>4 DEF R, OpToRel
<1>6. x - 1 \in P
  BY <1>3, <1>4, <1>5
<1> QED BY <1>3, <1>4, <1>6

\* What Drop collects of the first n items.
Kept(s, R, n, prev) == IF n = 0 THEN <<>>
                       ELSE IF s[n] \in R THEN prev ELSE Append(prev, s[n])

Collects(f, s, R, m) == f = [n \in 0..m |-> Kept(s, R, n, f[n - 1])]

\* The function that Drop is defined with exists.
LEMMA DropDefined ==
    ASSUME NEW s, NEW R, NEW m \in Nat
    PROVE  \E f : Collects(f, s, R, m)
<1> DEFINE P == {k \in Nat : \E f : Collects(f, s, R, k)}
<1>1. 0 \in P
  <2> DEFINE f == [n \in 0..0 |-> <<>>]
  <2>1. Collects(f, s, R, 0)
    BY DEF Kept, Collects
  <2> QED BY <2>1
<1>2. ASSUME NEW k \in Nat, k \in P PROVE k + 1 \in P
  <2>1. PICK f : f = [n \in 0..k |-> Kept(s, R, n, f[n - 1])]
    BY <1>2 DEF Collects
  <2> DEFINE g == [n \in 0..(k + 1) |-> IF n = k + 1 THEN Kept(s, R, k + 1, f[k]) ELSE f[n]]
  <2>2. \A n \in 0..(k + 1) : g[n] = Kept(s, R, n, g[n - 1])
    <3> SUFFICES ASSUME NEW n \in 0..(k + 1) PROVE g[n] = Kept(s, R, n, g[n - 1])
      OBVIOUS
    <3>1. CASE n = 0
      BY <2>1, <3>1 DEF Kept
    <3>2. CASE n # 0 /\ n # k + 1
      <4>1. n \in 0..k /\ n - 1 \in 0..(k + 1) /\ n - 1 # k + 1
        BY <3>2
      <4>2. g[n] = f[n] /\ g[n - 1] = f[n - 1]
        BY <3>2, <4>1
      <4>3. f[n] = Kept(s, R, n, f[n - 1])
        BY <2>1, <4>1
      <4> QED BY <4>2, <4>3
    <3>3. CASE n = k + 1
      <4>1. n - 1 = k /\ k \in 0..(k + 1) /\ k # k + 1
        BY <3>3
      <4> QED BY <3>3, <4>1
    <3> QED BY <3>1, <3>2, <3>3
  <2>3. g = [n \in 0..(k + 1) |-> Kept(s, R, n, g[n - 1])]
    <3> DEFINE h == [n \in 0..(k + 1) |-> Kept(s, R, n, g[n - 1])]
    <3>1. DOMAIN g = 0..(k + 1) /\ DOMAIN h = 0..(k + 1) /\ \A n \in 0..(k + 1) : g[n] = h[n]
      BY <2>2
    <3> QED BY <3>1
  <2> HIDE DEF g
  <2>4. \E h : Collects(h, s, R, k + 1)
    BY <2>3 DEF Collects
  <2> QED BY <2>4
<1> HIDE DEF P
<1>3. m \in P
  BY <1>1, <1>2, Induction
<1> QED BY <1>3 DEF P

LEMMA AppendItems ==
    ASSUME NEW S, NEW s \in Seq(S), NEW x \in S
    PROVE  Append(s, x) \in Seq(S) /\ Items(Append(s, x)) = Items(s) \cup {x}
<1>1. /\ Append(s, x) \in Seq(S) /\ Len(s) \in Nat /\ Len(Append(s, x)) = Len(s) + 1
      /\ Append(s, x)[Len(s) + 1] = x /\ \A i \in 1..Len(s) : Append(s, x)[i] = s[i]
  OBVIOUS
<1>2. 1..(Len(s) + 1) = (1..Len(s)) \cup {Len(s) + 1}
  BY <1>1
<1> QED BY <1>1, <1>2 DEF Items

\* Nobody waits twice when somebody new is added.
LEMMA AppendDistinct ==
    ASSUME NEW S, NEW s \in Seq(S), NEW x \in S, Distinct(s), x \notin Items(s)
    PROVE  Distinct(Append(s, x))
<1>1. /\ Len(s) \in Nat /\ Len(Append(s, x)) = Len(s) + 1 /\ Append(s, x)[Len(s) + 1] = x
      /\ \A i \in 1..Len(s) : Append(s, x)[i] = s[i] /\ s[i] # x
  BY DEF Items
<1>2. \A i \in 1..(Len(s) + 1) : i \in 1..Len(s) \/ i = Len(s) + 1
  BY <1>1
<1> QED BY <1>1, <1>2 DEF Distinct

\* Drop(s, R) has the items of s that are not in R.
LEMMA DropFacts ==
    ASSUME NEW S, NEW s \in Seq(S), NEW R
    PROVE  /\ Drop(s, R) \in Seq(S) /\ Items(Drop(s, R)) = Items(s) \ R
           /\ Distinct(s) => Distinct(Drop(s, R))
<1> DEFINE f == CHOOSE kept : Collects(kept, s, R, Len(s))
           P == {n \in Nat : n <= Len(s) =>
                    /\ f[n] \in Seq(S) /\ Items(f[n]) = {s[i] : i \in 1..n} \ R
                    /\ Distinct(s) => Distinct(f[n])}
<1>1. Drop(s, R) = f[Len(s)]
  BY DEF Drop, Kept, Collects
<1>2. f = [n \in 0..Len(s) |-> Kept(s, R, n, f[n - 1])]
  <2>1. Len(s) \in Nat
    OBVIOUS
  <2>2. \E kept : Collects(kept, s, R, Len(s))
    BY <2>1, DropDefined
  <2>3. Collects(f, s, R, Len(s))
    BY <2>2
  <2> QED BY <2>3 DEF Collects
<1> HIDE DEF f
<1>3. Len(s) \in Nat /\ \A i \in 1..Len(s) : s[i] \in S
  OBVIOUS
<1>4. 0 \in P
  <2>1. f[0] = <<>>
    BY <1>2, <1>3 DEF Kept
  <2>2. Items(<<>>) = {} /\ {s[i] : i \in 1..0} = {} /\ <<>> \in Seq(S) /\ Distinct(<<>>)
    BY DEF Items, Distinct
  <2> QED BY <2>1, <2>2
<1>5. ASSUME NEW n \in Nat, n \in P PROVE n + 1 \in P
  <2> SUFFICES ASSUME n + 1 <= Len(s)
               PROVE  /\ f[n + 1] \in Seq(S)
                      /\ Items(f[n + 1]) = {s[i] : i \in 1..(n + 1)} \ R
                      /\ Distinct(s) => Distinct(f[n + 1])
    OBVIOUS
  <2>1. /\ n + 1 \in 0..Len(s) /\ n + 1 # 0 /\ (n + 1) - 1 = n /\ n <= Len(s) /\ s[n + 1] \in S
        /\ 1..(n + 1) = (1..n) \cup {n + 1}
    BY <1>3
  <2>2. /\ f[n] \in Seq(S) /\ Items(f[n]) = {s[i] : i \in 1..n} \ R
        /\ Distinct(s) => Distinct(f[n])
    BY <1>5, <2>1
  <2>3. f[n + 1] = IF s[n + 1] \in R THEN f[n] ELSE Append(f[n], s[n + 1])
    BY <1>2, <2>1 DEF Kept
  <2>4. {s[i] : i \in 1..(n + 1)} = {s[i] : i \in 1..n} \cup {s[n + 1]}
    BY <2>1
  <2>5. CASE s[n + 1] \in R
    BY <2>2, <2>3, <2>4, <2>5
  <2>6. CASE s[n + 1] \notin R
    <3>1. f[n + 1] = Append(f[n], s[n + 1])
      BY <2>3, <2>6
    <3>2. f[n + 1] \in Seq(S) /\ Items(f[n + 1]) = Items(f[n]) \cup {s[n + 1]}
      BY <2>1, <2>2, <3>1, AppendItems
    <3>3. ASSUME Distinct(s) PROVE Distinct(f[n + 1])
      <4>1. \A i \in 1..n : s[i] # s[n + 1]
        <5>1. \A i \in 1..n : i \in 1..Len(s) /\ n + 1 \in 1..Len(s) /\ i # n + 1
          BY <1>3, <2>1
        <5> QED BY <3>3, <5>1 DEF Distinct
      <4>2. s[n + 1] \notin Items(f[n])
        BY <2>2, <4>1
      <4> QED BY <2>1, <2>2, <3>1, <3>3, <4>2, AppendDistinct
    <3> QED BY <2>2, <2>4, <2>6, <3>2, <3>3
  <2> QED BY <2>5, <2>6
<1>6. Len(s) \in P
  <2> HIDE DEF P
  <2>1. \A n \in Nat : n \in P => n + 1 \in P
    BY <1>5
  <2> QED BY <1>3, <1>4, <2>1, Induction
<1>7. /\ f[Len(s)] \in Seq(S) /\ Items(f[Len(s)]) = {s[i] : i \in 1..Len(s)} \ R
      /\ Distinct(s) => Distinct(f[Len(s)])
  BY <1>3, <1>6
<1> HIDE DEF P
<1>8. Items(s) = {s[i] : i \in 1..Len(s)}
  BY DEF Items
<1> QED BY <1>1, <1>7, <1>8

Front(s, n) == {s[i] : i \in 1..n}
Rest(s, n) == SubSeq(s, n + 1, Len(s))

\* The first n items of s, and the others.
LEMMA Served ==
    ASSUME NEW S, NEW s \in Seq(S), Distinct(s), NEW n \in 0..Len(s)
    PROVE  /\ Rest(s, n) \in Seq(S) /\ Distinct(Rest(s, n)) /\ Len(Rest(s, n)) = Len(s) - n
           /\ Items(Rest(s, n)) = Items(s) \ Front(s, n) /\ Front(s, n) \subseteq Items(s)
           /\ IsFiniteSet(Front(s, n)) /\ Cardinality(Front(s, n)) = n
<1>1. Len(s) \in Nat /\ n \in Nat /\ n <= Len(s) /\ \A i \in 1..Len(s) : s[i] \in S
  OBVIOUS
<1>2. /\ Rest(s, n) \in Seq(S) /\ Len(Rest(s, n)) = Len(s) - n
      /\ \A i \in 1..(Len(s) - n) : Rest(s, n)[i] = s[i + n]
  BY <1>1 DEF Rest
<1>3. Distinct(Rest(s, n))
  <2> SUFFICES ASSUME NEW i \in 1..Len(Rest(s, n)), NEW j \in 1..Len(Rest(s, n)), Rest(s, n)[i] = Rest(s, n)[j] PROVE i = j
    BY DEF Distinct
  <2>1. i + n \in 1..Len(s) /\ j + n \in 1..Len(s) /\ s[i + n] = s[j + n]
    BY <1>1, <1>2
  <2>2. i + n = j + n
    BY <2>1 DEF Distinct
  <2> QED BY <1>1, <1>2, <2>2
<1>4. Front(s, n) \subseteq Items(s)
  BY <1>1 DEF Items, Front
<1>5. Items(Rest(s, n)) = Items(s) \ Front(s, n)
  <2>1. ASSUME NEW x \in Items(Rest(s, n)) PROVE x \in Items(s) \ Front(s, n)
    <3>1. PICK i \in 1..(Len(s) - n) : x = s[i + n]
      BY <1>2, <2>1 DEF Items
    <3>2. i + n \in 1..Len(s) /\ i + n \notin 1..n
      BY <1>1
    <3>3. ASSUME NEW j \in 1..n, x = s[j] PROVE FALSE
      <4>1. j \in 1..Len(s) /\ s[j] = s[i + n]
        BY <1>1, <3>1, <3>3
      <4>2. j = i + n
        BY <3>2, <4>1 DEF Distinct
      <4> QED BY <3>2, <4>2
    <3> QED BY <3>1, <3>2, <3>3 DEF Items, Front
  <2>2. ASSUME NEW x \in Items(s), x \notin Front(s, n) PROVE x \in Items(Rest(s, n))
    <3>1. PICK i \in 1..Len(s) : x = s[i]
      BY <2>2 DEF Items
    <3>2. i \notin 1..n
      BY <2>2, <3>1 DEF Front
    <3>3. i - n \in 1..(Len(s) - n) /\ (i - n) + n = i
      BY <1>1, <3>2
    <3>4. x = Rest(s, n)[i - n] /\ i - n \in 1..Len(Rest(s, n))
      BY <1>2, <3>1, <3>3
    <3> QED BY <3>4 DEF Items
  <2> QED BY <2>1, <2>2
<1>6. IsFiniteSet(Front(s, n)) /\ Cardinality(Front(s, n)) = n
  <2> DEFINE f == [i \in 1..n |-> s[i]]
  <2>1. f \in Bijection(1..n, Front(s, n))
    <3>1. f \in [1..n -> Front(s, n)] /\ \A x \in Front(s, n) : \E i \in 1..n : f[i] = x
      BY DEF Front
    <3>2. \A i, j \in 1..n : f[i] = f[j] => i = j
      BY <1>1 DEF Distinct
    <3> QED BY <3>1, <3>2, Fun_IsBij
  <2> HIDE DEF f
  <2>2. IsFiniteSet(1..n) /\ Cardinality(1..n) = n
    BY <1>1, FS_Interval
  <2>3. ExistsBijection(1..n, Front(s, n))
    BY <2>1 DEF ExistsBijection
  <2> QED BY <2>2, <2>3, FS_Bijection
<1> QED BY <1>2, <1>3, <1>4, <1>5, <1>6

LEMMA MinMax ==
    ASSUME NEW a \in Int, NEW b \in Int
    PROVE  Min({a, b}) = (IF a <= b THEN a ELSE b) /\ Max({a, b}) = (IF a >= b THEN a ELSE b)
<1>1. \A x \in {a, b} : (\A y \in {a, b} : x <= y) <=> x = IF a <= b THEN a ELSE b
  OBVIOUS
<1>2. \A x \in {a, b} : (\A y \in {a, b} : x >= y) <=> x = IF a >= b THEN a ELSE b
  OBVIOUS
<1>3. Min({a, b}) = IF a <= b THEN a ELSE b
  BY <1>1 DEF Min
<1>4. Max({a, b}) = IF a >= b THEN a ELSE b
  BY <1>2 DEF Max
<1> QED BY <1>3, <1>4

\* The pump of the window: as many of those who wait are served as there is room for, and
\* one who waits on finds no credit free.
LEMMA Pumped ==
    ASSUME NEW left \in Seq(Data), Distinct(left), NEW held \in SUBSET Data, IsFiniteSet(held),
           Items(left) \cap held = {}, NEW n \in Nat, NEW stop, stop => left = <<>>,
           NEW room, stop \/ Cardinality(held) >= n => room = 0,
           ~stop /\ Cardinality(held) < n => room = Min({Len(left), n - Cardinality(held)})
    PROVE  /\ Rest(left, room) \in Seq(Data) /\ Distinct(Rest(left, room))
           /\ Items(Rest(left, room)) = Items(left) \ Front(left, room) /\ Front(left, room) \subseteq Items(left)
           /\ Front(left, room) \subseteq Data /\ IsFiniteSet(held \cup Front(left, room))
           /\ Rest(left, room) # <<>> => left # <<>> /\ Cardinality(held \cup Front(left, room)) >= n
<1>1. Len(left) \in Nat /\ Cardinality(held) \in Nat
  BY FS_CardinalityType
<1>2. room \in 0..Len(left)
  <2>1. CASE stop \/ Cardinality(held) >= n
    BY <1>1, <2>1
  <2>2. CASE ~stop /\ Cardinality(held) < n
    <3>1. n - Cardinality(held) \in Nat
      BY <1>1, <2>2
    <3> QED BY <1>1, <2>2, <3>1, MinMax
  <2> QED BY <1>1, <2>1, <2>2
<1>3. /\ Rest(left, room) \in Seq(Data) /\ Distinct(Rest(left, room)) /\ Len(Rest(left, room)) = Len(left) - room
      /\ Items(Rest(left, room)) = Items(left) \ Front(left, room) /\ Front(left, room) \subseteq Items(left)
      /\ IsFiniteSet(Front(left, room)) /\ Cardinality(Front(left, room)) = room
  BY <1>2, Served
<1>4. Front(left, room) \subseteq Data
  BY <1>2 DEF Front
<1>5. IsFiniteSet(held \cup Front(left, room)) /\ Cardinality(held \cup Front(left, room)) = Cardinality(held) + room
  <2>1. held \cap Front(left, room) = {} /\ Cardinality({}) = 0
    BY <1>3, FS_EmptySet
  <2>2. /\ IsFiniteSet(held \cup Front(left, room))
        /\ Cardinality(held \cup Front(left, room))
             = Cardinality(held) + Cardinality(Front(left, room)) - Cardinality(held \cap Front(left, room))
    BY <1>3, FS_Union
  <2>3. Cardinality(held \cap Front(left, room)) = 0
    BY <2>1
  <2> QED BY <1>1, <1>2, <1>3, <2>2, <2>3
<1>6. ASSUME Rest(left, room) # <<>> PROVE left # <<>> /\ Cardinality(held \cup Front(left, room)) >= n
  <2>1. room < Len(left) /\ left # <<>>
    BY <1>1, <1>2, <1>3, <1>6
  <2>2. CASE Cardinality(held) >= n
    BY <1>1, <1>2, <1>5, <2>1, <2>2
  <2>3. CASE Cardinality(held) < n
    <3>1. room = n - Cardinality(held)
      <4>1. n - Cardinality(held) \in Nat
        BY <1>1, <2>3
      <4> QED BY <1>1, <2>1, <2>3, <4>1, MinMax
    <3> QED BY <1>1, <1>5, <2>1, <3>1
  <2> QED BY <1>1, <2>1, <2>2, <2>3
<1> QED BY <1>3, <1>4, <1>5, <1>6

LEMMA NoItems ==
    ASSUME NEW S, NEW s \in Seq(S)
    PROVE  Items(s) = {} <=> s = <<>>
<1>1. Len(s) \in Nat
  OBVIOUS
<1>2. ASSUME s # <<>> PROVE Items(s) # {}
  <2>1. 1 \in 1..Len(s)
    BY <1>1, <1>2
  <2> QED BY <2>1 DEF Items
<1>3. ASSUME s = <<>> PROVE Items(s) = {}
  <2>1. Len(s) = 0 /\ 1..0 = {}
    BY <1>3
  <2> QED BY <2>1 DEF Items
<1> QED BY <1>2, <1>3

---------------------------------------------------------------------------
(* The count of buffered frames.                                           *)

LEMMA FramesStay ==
    ASSUME FramesOK, UNCHANGED <<chunks, totalFrames>>
    PROVE  FramesOK'
BY DEF FramesOK, Buffered

\* What was buffered for the requests R leaves the count.
LEMMA FramesTaken ==
    ASSUME FramesOK, chunks \in [Requests -> Nat], MaxChunkFrames \in Nat, NEW R, R \subseteq Requests,
           chunks' = [r \in Requests |-> IF r \in R THEN 0 ELSE chunks[r]],
           totalFrames' = totalFrames - Cardinality(Buffered(R))
    PROVE  FramesOK'
<1>1. Buffered(Requests)' = UNION {{r} \X (1..chunks'[r]) : r \in Requests}
  BY DEF Buffered
<1>2. \A r \in Requests : 1..chunks'[r] = IF r \in R THEN {} ELSE 1..chunks[r]
  OBVIOUS
<1>3. Buffered(Requests)' = Buffered(Requests) \ Buffered(R)
  BY <1>1, <1>2 DEF Buffered
<1>4. Buffered(Requests) \cap Buffered(R) = Buffered(R) /\ Buffered(R) \subseteq Buffered(Requests)
  BY DEF Buffered
<1>5. IsFiniteSet(Buffered(Requests)) /\ totalFrames = Cardinality(Buffered(Requests)) /\ totalFrames <= MaxChunkFrames
  BY DEF FramesOK
<1>6. /\ IsFiniteSet(Buffered(Requests) \ Buffered(R)) /\ IsFiniteSet(Buffered(R))
      /\ Cardinality(Buffered(Requests) \ Buffered(R))
           = Cardinality(Buffered(Requests)) - Cardinality(Buffered(Requests) \cap Buffered(R))
  BY <1>4, <1>5, FS_Difference, FS_Subset
<1>7. Cardinality(Buffered(R)) \in Nat /\ Cardinality(Buffered(Requests)) \in Nat
  BY <1>5, <1>6, FS_CardinalityType
<1>8. totalFrames' = Cardinality(Buffered(Requests)') /\ totalFrames' <= MaxChunkFrames /\ IsFiniteSet(Buffered(Requests)')
  BY <1>3, <1>4, <1>5, <1>6, <1>7
<1> QED BY <1>8 DEF FramesOK

\* As many frames are buffered for a request as its counter says.
LEMMA FramesOfOne ==
    ASSUME NEW r, chunks[r] \in Nat
    PROVE  Cardinality(Buffered({r})) = chunks[r]
<1> DEFINE n == chunks[r]
           f == [i \in 1..n |-> <<r, i>>]
<1>1. Buffered({r}) = {r} \X (1..n)
  BY DEF Buffered
<1> HIDE DEF n
<1>2. f \in Bijection(1..n, {r} \X (1..n))
  <2>1. f \in [1..n -> {r} \X (1..n)] /\ \A x \in {r} \X (1..n) : \E i \in 1..n : f[i] = x
    OBVIOUS
  <2>2. \A i, j \in 1..n : f[i] = f[j] => i = j
    OBVIOUS
  <2> QED BY <2>1, <2>2, Fun_IsBij
<1> HIDE DEF f
<1>3. n \in Nat
  BY DEF n
<1>4. IsFiniteSet(1..n) /\ Cardinality(1..n) = n
  BY <1>3, FS_Interval
<1>5. ExistsBijection(1..n, {r} \X (1..n))
  BY <1>2 DEF ExistsBijection
<1>6. Cardinality({r} \X (1..n)) = n
  BY <1>4, <1>5, FS_Bijection
<1> QED BY <1>1, <1>6 DEF n

\* One more frame is buffered.
LEMMA FrameAdded ==
    ASSUME FramesOK, chunks \in [Requests -> Nat], MaxChunkFrames \in Nat, NEW r \in Requests,
           chunks' = [chunks EXCEPT ![r] = @ + 1],
           totalFrames < MaxChunkFrames, totalFrames' = totalFrames + 1
    PROVE  FramesOK'
<1>1. Buffered(Requests)' = UNION {{q} \X (1..chunks'[q]) : q \in Requests}
  BY DEF Buffered
<1>2. /\ chunks[r] \in Nat
      /\ \A q \in Requests : chunks'[q] = IF q = r THEN chunks[q] + 1 ELSE chunks[q]
      /\ 1..(chunks[r] + 1) = (1..chunks[r]) \cup {chunks[r] + 1}
  OBVIOUS
<1>3. <<r, chunks[r] + 1>> \notin Buffered(Requests)
  BY <1>2 DEF Buffered
<1>4. Buffered(Requests)' = Buffered(Requests) \cup {<<r, chunks[r] + 1>>}
  <2>1. ASSUME NEW x \in Buffered(Requests)' PROVE x \in Buffered(Requests) \cup {<<r, chunks[r] + 1>>}
    BY <1>1, <1>2, <2>1 DEF Buffered
  <2>2. ASSUME NEW x \in Buffered(Requests) PROVE x \in Buffered(Requests)'
    <3>1. PICK q \in Requests : x \in {q} \X (1..chunks[q])
      BY <2>2 DEF Buffered
    <3>2. 1..chunks[q] \subseteq 1..chunks'[q]
      BY <1>2
    <3> QED BY <1>1, <3>1, <3>2
  <2>3. <<r, chunks[r] + 1>> \in Buffered(Requests)'
    BY <1>1, <1>2
  <2> QED BY <2>1, <2>2, <2>3
<1>5. IsFiniteSet(Buffered(Requests)) /\ totalFrames = Cardinality(Buffered(Requests)) /\ totalFrames <= MaxChunkFrames
  BY DEF FramesOK
<1>6. /\ IsFiniteSet(Buffered(Requests) \cup {<<r, chunks[r] + 1>>})
      /\ Cardinality(Buffered(Requests) \cup {<<r, chunks[r] + 1>>}) = Cardinality(Buffered(Requests)) + 1
  BY <1>3, <1>5, FS_AddElement
<1>7. Cardinality(Buffered(Requests)) \in Nat
  BY <1>5, FS_CardinalityType
<1>8. totalFrames' = Cardinality(Buffered(Requests)') /\ totalFrames' <= MaxChunkFrames /\ IsFiniteSet(Buffered(Requests)')
  BY <1>4, <1>5, <1>6, <1>7
<1> QED BY <1>8 DEF FramesOK

---------------------------------------------------------------------------
(* The shared effects keep the invariant.                                  *)

\* What the callers of TakePending guarantee: the requests R hold a credit or are
\* registered, and nobody is told that a frame never left which the socket has.
Takes(R, told, gone, turnAway, drain, ret) ==
    /\ R \subseteq {r \in Requests : st[r] \in {"granted", "pending"}}
    /\ \A r \in R : told[r] \in {"value", "error", "unsent", "possibly_sent", "overloaded"}
    /\ gone \subseteq Items(writes)
    /\ turnAway \in BOOLEAN /\ drain \in BOOLEAN
    /\ draining => drain
    /\ drain => draining \/ turnAway
    /\ drain => Items(writes) \ (R \cup gone) \subseteq {Ping}
    /\ ret \in {"none", "waiting", "resolved"}
    /\ closed => ret # "waiting"
    /\ server' \in [Requests -> {"none", "owns", "answered", "lost"}]
    /\ \A r \in Requests : \/ server'[r] = server[r]
                           \/ r \in R /\ server'[r] \in {"answered", "lost"}
                           \/ r \in gone \ R /\ server'[r] = "owns"
    /\ \A r \in R \ {Ping} : told[r] \in {"unsent", "overloaded"} => server'[r] = "none"
    /\ \A r \in R \cap Data : server'[r] = "owns" => drain
    /\ discarded' \in [Requests -> Nat]
    /\ limit' = limit
    /\ writeBlocked' \in BOOLEAN

\* Requests are taken out: their credits go to those who wait longest.
LEMMA TakeInv ==
    ASSUME Inv, NEW R, NEW told, NEW gone, NEW turnAway, NEW drain, NEW ret,
           Takes(R, told, gone, turnAway, drain, ret),
           TakePending(R, told, gone, turnAway, drain, ret)
    PROVE  Inv'
<1> DEFINE away == IF turnAway THEN Items(waiters) ELSE {}
           left == IF turnAway THEN <<>> ELSE waiters
           held == credits \ R
           idle == drain /\ Pending \subseteq R /\ ~closed
           room == IF closed \/ idle \/ Cardinality(held) >= limit THEN 0
                   ELSE Min({Len(left), limit - Cardinality(held)})
           served == Front(left, room)
           how == [r \in R \cup away |-> IF r \in away THEN "unsent" ELSE told[r]]
<1>1. /\ st' = [r \in Requests |-> IF r \in R \cup away THEN "done"
                                   ELSE IF r \in served THEN "granted" ELSE st[r]]
      /\ outcome' = [r \in Requests |->
                       IF r \in DOMAIN how /\ outcome[r] = "none" THEN how[r] ELSE outcome[r]]
      /\ credits' = held \cup served
      /\ waiters' = Rest(left, room)
      /\ writes' = Drop(writes, R \cup gone)
      /\ chunks' = [r \in Requests |-> IF r \in R THEN 0 ELSE chunks[r]]
      /\ timedOut' = timedOut \ R
      /\ pendingControlRequests' = Max({0, pendingControlRequests - Cardinality(R \ Data)})
      /\ draining' = drain
      /\ closed' = (closed \/ idle)
      /\ retirement' = IF idle /\ ret = "waiting" THEN "resolved" ELSE ret
  BY DEF TakePending, SettleWith, DrainFinished, Front, Rest
<1> HIDE DEF how
<1>2. /\ TypeOK /\ R \subseteq Requests /\ away \subseteq Data /\ left \in Seq(Data) /\ Distinct(left)
      /\ Items(waiters) = {r \in Requests : st[r] = "waiting"}
      /\ Items(left) = Items(waiters) \ away /\ away \subseteq Items(waiters)
      /\ left # <<>> => left = waiters /\ ~turnAway
  <2>1. Items(waiters) = {r \in Requests : st[r] = "waiting"} /\ Distinct(waiters)
    BY DEF Inv, WindowOK
  <2>2. Items(waiters) \subseteq Data
    BY <2>1 DEF Inv, Stage
  <2>3. Items(<<>>) = {} /\ Distinct(<<>>) /\ <<>> \in Seq(Data) /\ waiters \in Seq(Data)
    BY DEF Items, Distinct, Inv, TypeOK
  <2> QED BY <2>1, <2>2, <2>3 DEF Inv, Takes
<1>3. /\ held \subseteq Data /\ IsFiniteSet(held)
      /\ Items(left) \cap held = {}
      /\ limit \in Nat
  <2>1. credits \subseteq Data /\ IsFiniteSet(credits) /\ limit \in Nat
    BY DEF Inv, TypeOK
  <2>2. credits = {r \in Data : st[r] \in {"granted", "pending"}}
    BY DEF Inv, WindowOK
  <2> QED BY <1>2, <2>1, <2>2, FS_Subset
<1>4. (closed \/ idle) => left = <<>>
  BY <1>2 DEF Inv, WindowOK, LifeOK, Takes
<1>5. /\ closed \/ idle \/ Cardinality(held) >= limit => room = 0
      /\ ~(closed \/ idle) /\ Cardinality(held) < limit => room = Min({Len(left), limit - Cardinality(held)})
  BY <1>3, FS_CardinalityType
<1> HIDE DEF room
<1>6. /\ waiters' \in Seq(Data) /\ Distinct(waiters')
      /\ Items(waiters') = Items(left) \ served /\ served \subseteq Items(left)
      /\ served \subseteq Data /\ credits' \subseteq Data /\ IsFiniteSet(credits')
      /\ waiters' # <<>> => left # <<>> /\ Cardinality(credits') >= limit
  <2> HIDE DEF left, held, idle
  <2>1. /\ Rest(left, room) \in Seq(Data) /\ Distinct(Rest(left, room))
        /\ Items(Rest(left, room)) = Items(left) \ Front(left, room) /\ Front(left, room) \subseteq Items(left)
        /\ Front(left, room) \subseteq Data /\ IsFiniteSet(held \cup Front(left, room))
        /\ Rest(left, room) # <<>> => left # <<>> /\ Cardinality(held \cup Front(left, room)) >= limit
    BY <1>2, <1>3, <1>4, <1>5, Pumped, ZenonT(30)
  <2> QED BY <1>1, <1>3, <2>1
<1>7. writes' \in Seq(Requests) /\ Items(writes') = Items(writes) \ (R \cup gone)
  BY <1>1, <1>2, DropFacts DEF TypeOK
<1> HIDE DEF served
<1>8. /\ \A r \in R : st'[r] = "done" /\ st[r] \in {"granted", "pending"} /\ r \notin away /\ r \notin served
      /\ \A r \in away : r \in Requests /\ st'[r] = "done" /\ st[r] = "waiting"
      /\ \A r \in served : r \in Requests /\ st'[r] = "granted" /\ st[r] = "waiting" /\ r \notin away
      /\ \A r \in Requests \ (R \cup away \cup served) : st'[r] = st[r]
      /\ Pending' = Pending \ R
  <2>1. \A r \in R : r \in Requests /\ st[r] \in {"granted", "pending"}
    BY DEF Takes
  <2>2. served \subseteq Items(left)
    BY <1>6
  <2> HIDE DEF left, away
  <2>3. \A r \in away \cup served : r \in Requests /\ st[r] = "waiting"
    BY <1>2, <2>2
  <2>4. away \cap served = {}
    BY <1>2, <2>2
  <2>5. \A r \in Requests : st'[r] = IF r \in R \cup away THEN "done" ELSE IF r \in served THEN "granted" ELSE st[r]
    BY <1>1
  <2>6. \A r \in Requests : st'[r] = "pending" <=> (st[r] = "pending" /\ r \notin R)
    BY <2>1, <2>3, <2>5
  <2>7. Pending' = Pending \ R
    BY <2>6 DEF Pending
  <2> QED BY <2>1, <2>3, <2>4, <2>5, <2>7
<1>9. \A r \in Requests : outcome'[r] = IF r \in R \cup away /\ outcome[r] = "none"
                                      THEN IF r \in away THEN "unsent" ELSE told[r]
                                      ELSE outcome[r]
  BY <1>1 DEF how
<1> HIDE DEF away, left, held
<1>10. ASSUME NEW r \in Requests PROVE Stage(r)'
  <2>1. /\ Stage(r)
        /\ outcome'[r] = IF r \in R \cup away /\ outcome[r] = "none"
                        THEN IF r \in away THEN "unsent" ELSE told[r] ELSE outcome[r]
        /\ chunks'[r] = (IF r \in R THEN 0 ELSE chunks[r])
        /\ r \in timedOut' <=> r \in timedOut /\ r \notin R
        /\ ~closed' => ~closed
        /\ ~draining' => ~draining /\ ~drain
    BY <1>1, <1>9, <1>10 DEF Inv, Takes
  <2>2. r \in gone => st[r] = "pending" /\ server[r] = "none" /\ r \notin timedOut
    BY DEF Inv, WritesOK, Takes, Pending
  <2>3. \/ server'[r] = server[r]
        \/ r \in R /\ server'[r] \in {"answered", "lost"}
        \/ r \in gone \ R /\ server'[r] = "owns"
    BY DEF Takes
  <2>4. CASE r \in R
    <3>1. /\ told[r] \in {"value", "error", "unsent", "possibly_sent", "overloaded"}
          /\ r # Ping /\ told[r] \in {"unsent", "overloaded"} => server'[r] = "none"
          /\ r \in Data /\ server'[r] = "owns" => drain
      BY <2>4 DEF Takes
    <3> QED BY <1>8, <2>1, <2>3, <2>4, <3>1 DEF Stage
  <2>5. CASE r \in away
    BY <1>8, <2>1, <2>2, <2>3, <2>5 DEF Stage
  <2>6. CASE r \in served
    BY <1>8, <2>1, <2>2, <2>3, <2>6 DEF Stage
  <2>7. CASE r \notin R \cup away \cup served
    <3>1. st'[r] = st[r] /\ outcome'[r] = outcome[r] /\ chunks'[r] = chunks[r]
      BY <1>8, <2>1, <2>7
    <3> QED BY <2>1, <2>2, <2>3, <2>7, <3>1 DEF Stage
  <2> QED BY <2>4, <2>5, <2>6, <2>7
<1>11. /\ credits' = {r \in Data : st'[r] \in {"granted", "pending"}}
       /\ {r \in Requests : st'[r] = "waiting"} = Items(waiters')
  <2>1. credits = {r \in Data : st[r] \in {"granted", "pending"}} /\ Data \subseteq Requests
    BY DEF Inv, WindowOK, Requests
  <2>2. /\ credits' = (credits \ R) \cup served
        /\ Items(waiters') = (Items(waiters) \ away) \ served
    BY <1>1, <1>2, <1>6 DEF held
  <2>3. \A r \in Requests : st'[r] = "waiting" <=> st[r] = "waiting" /\ r \notin away /\ r \notin served
    BY <1>8
  <2>4. \A r \in Requests : st'[r] \in {"granted", "pending"} <=>
                              r \in served \/ (st[r] \in {"granted", "pending"} /\ r \notin R)
    BY <1>8
  <2> QED BY <1>2, <1>6, <2>1, <2>2, <2>3, <2>4
<1>12. pendingControlRequests' = Cardinality(Pending' \ Data) /\ IsFiniteSet(Pending' \ Data)
  <2>1. /\ IsFiniteSet(Pending \ Data) /\ pendingControlRequests = Cardinality(Pending \ Data)
        /\ R \ Data \subseteq Pending \ Data
    BY <1>8 DEF Inv, TypeOK, WindowOK, Stage, Pending, Takes
  <2>2. Pending' \ Data = (Pending \ Data) \ (R \ Data) /\ (Pending \ Data) \cap (R \ Data) = R \ Data
    BY <1>8, <2>1
  <2>3. /\ IsFiniteSet((Pending \ Data) \ (R \ Data)) /\ IsFiniteSet(R \ Data)
        /\ Cardinality((Pending \ Data) \ (R \ Data))
             = Cardinality(Pending \ Data) - Cardinality((Pending \ Data) \cap (R \ Data))
    BY <2>1, FS_Difference, FS_Subset
  <2>4. IsFiniteSet(Pending' \ Data) /\ Cardinality(Pending' \ Data) = Cardinality(Pending \ Data) - Cardinality(R \ Data)
    BY <2>2, <2>3
  <2>5. Cardinality(Pending \ Data) \in Nat /\ Cardinality(R \ Data) \in Nat /\ Cardinality(Pending' \ Data) \in Nat
    BY <2>1, <2>3, <2>4, FS_CardinalityType
  <2>6. pendingControlRequests - Cardinality(R \ Data) \in Int
    BY <2>1, <2>5
  <2>7. Max({0, pendingControlRequests - Cardinality(R \ Data)}) = pendingControlRequests - Cardinality(R \ Data)
    <3> DEFINE d == pendingControlRequests - Cardinality(R \ Data)
    <3>1. d \in Int /\ (0 >= d => d = 0)
      BY <2>1, <2>4, <2>5, <2>6
    <3> HIDE DEF d
    <3>2. Max({0, d}) = IF 0 >= d THEN 0 ELSE d
      BY <3>1, MinMax
    <3>3. Max({0, d}) = d
      BY <3>1, <3>2
    <3> QED BY <3>3 DEF d
  <2> QED BY <1>1, <2>1, <2>4, <2>7
<1>13. WindowOK'
  <2>1. waiters' # <<>> => ~closed' /\ ~draining' /\ Cardinality(credits') >= limit'
    <3> SUFFICES ASSUME waiters' # <<>> PROVE ~closed' /\ ~draining' /\ Cardinality(credits') >= limit'
      OBVIOUS
    <3>1. left # <<>> /\ Cardinality(credits') >= limit
      BY <1>6
    <3>2. ~closed /\ ~draining /\ ~turnAway
      BY <1>2, <3>1 DEF Inv, WindowOK
    <3>3. ~drain /\ limit' = limit
      BY <3>2 DEF Takes
    <3> QED BY <1>1, <3>1, <3>2, <3>3
  <2> QED BY <1>6, <1>11, <1>12, <2>1 DEF WindowOK
<1>14. WritesOK'
  <2>1. \A r \in Items(writes') : r \in Items(writes) /\ r \notin R /\ r \notin gone
    BY <1>7
  <2>2. \A r \in Items(writes) : r \in Pending /\ r \in Requests /\ r \notin timedOut /\ server[r] = "none"
    BY DEF Inv, WritesOK, Pending
  <2>3. \A r \in Items(writes') : r \in Pending' /\ r \notin timedOut' /\ server'[r] = "none"
    <3> SUFFICES ASSUME NEW r \in Items(writes') PROVE r \in Pending' /\ r \notin timedOut' /\ server'[r] = "none"
      OBVIOUS
    <3>1. r \in Requests /\ r \notin R /\ r \notin gone /\ r \in Pending /\ r \notin timedOut /\ server[r] = "none"
      BY <2>1, <2>2
    <3>2. server'[r] = server[r]
      BY <3>1 DEF Takes
    <3> QED BY <1>1, <1>8, <3>1, <3>2
  <2>4. draining' => Items(writes') \subseteq {Ping}
    BY <1>1, <1>7 DEF Takes
  <2> QED BY <2>3, <2>4 DEF WritesOK
<1>15. TypeOK'
  <2>1. st' \in [Requests -> {"idle", "waiting", "granted", "pending", "done"}]
    BY <1>1, <1>2 DEF TypeOK
  <2>2. outcome' \in [Requests -> {"none", "value", "error", "unsent", "possibly_sent", "overloaded"}]
    <3>1. \A r \in R : told[r] \in {"value", "error", "unsent", "possibly_sent", "overloaded"}
      BY DEF Takes
    <3>2. DOMAIN outcome' = Requests /\ outcome' = [r \in Requests |-> outcome'[r]]
      BY <1>1
    <3>3. \A r \in Requests : outcome'[r] \in {"none", "value", "error", "unsent", "possibly_sent", "overloaded"}
      BY <1>2, <1>9, <3>1 DEF TypeOK
    <3> QED BY <3>2, <3>3
  <2>3. chunks' \in [Requests -> Nat] /\ timedOut' \subseteq Data
    BY <1>1, <1>2 DEF TypeOK
  <2>4. /\ server' \in [Requests -> {"none", "owns", "answered", "lost"}]
        /\ discarded' \in [Requests -> Nat] /\ limit' \in Nat /\ writeBlocked' \in BOOLEAN
    BY <1>2 DEF TypeOK, Takes
  <2>5. closed' \in BOOLEAN /\ draining' \in BOOLEAN /\ retirement' \in {"none", "waiting", "resolved"}
    BY <1>1, <1>2 DEF TypeOK, Takes
  <2> QED BY <1>6, <1>7, <1>12, <2>1, <2>2, <2>3, <2>4, <2>5 DEF TypeOK
<1>16. LifeOK'
  <2>1. draining' /\ ~closed' => Pending' # {}
    BY <1>1, <1>8
  <2>2. ASSUME closed' PROVE Pending' = {} /\ waiters' = <<>> /\ writes' = <<>> /\ retirement' # "waiting"
    <3>1. closed \/ idle
      BY <1>1, <2>2
    <3>2. Pending' = {}
      BY <1>8, <3>1 DEF Inv, LifeOK
    <3>3. waiters' = <<>>
      BY <1>4, <1>6, <3>1
    <3>4. Items(writes') = {}
      BY <1>14, <3>2 DEF WritesOK
    <3>5. writes' = <<>>
      BY <1>7, <3>4, NoItems
    <3>6. retirement' # "waiting"
      BY <1>1, <3>1 DEF Takes
    <3> QED BY <3>2, <3>3, <3>5, <3>6
  <2> QED BY <2>1, <2>2 DEF LifeOK
<1>17. FramesOK'
  <2>1. totalFrames' = totalFrames - Cardinality(Buffered(R))
    BY DEF TakePending
  <2>2. FramesOK /\ chunks \in [Requests -> Nat] /\ MaxChunkFrames \in Nat /\ R \subseteq Requests
    BY <1>2, ConnectionAssumption DEF Inv, TypeOK
  <2> QED BY <1>1, <2>1, <2>2, FramesTaken
<1> QED BY <1>10, <1>13, <1>14, <1>15, <1>16, <1>17 DEF Inv


\* The connection fails: only those already granted a credit are left to be told.
LEMMA FailInv ==
    ASSUME Inv, NEW forgotten, forgotten \subseteq {Ping}, forgotten # {} => st[Ping] = "done",
           FailAll(forgotten)
    PROVE  Inv'
<1> DEFINE all == Pending \cup Items(waiters)
           how == [r \in all |-> IF r \in Pending /\ ~Unwritten(r) THEN "possibly_sent" ELSE "unsent"]
<1>1. /\ closed' = TRUE
      /\ retirement' = IF retirement = "waiting" THEN "resolved" ELSE retirement
      /\ st' = [r \in Requests |-> IF r \in forgotten THEN "idle" ELSE IF r \in all THEN "done" ELSE st[r]]
      /\ outcome' = [r \in Requests |->
                       IF r \in DOMAIN how /\ outcome[r] = "none" THEN how[r] ELSE outcome[r]]
      /\ credits' = credits \ Pending
      /\ waiters' = <<>> /\ writes' = <<>> /\ writeBlocked' = FALSE
      /\ chunks' = [r \in Requests |-> 0]
      /\ timedOut' = {}
      /\ pendingControlRequests' = 0
      /\ UNCHANGED <<server, discarded, limit, draining>>
  BY DEF FailAll, SettleWith
<1>2. \A r \in Requests : outcome'[r] = IF r \in all /\ outcome[r] = "none"
                                      THEN IF r \in Pending /\ ~Unwritten(r) THEN "possibly_sent" ELSE "unsent"
                                      ELSE outcome[r]
  BY <1>1
<1>3. TypeOK /\ Items(waiters) = {r \in Requests : st[r] = "waiting"}
  BY DEF Inv, WindowOK
<1>4. /\ \A r \in Requests : r \in all <=> st[r] \in {"pending", "waiting"}
      /\ \A r \in Requests : r \in forgotten => r = Ping /\ st[r] = "done"
      /\ \A r \in Requests : st'[r] = IF r \in forgotten THEN "idle" ELSE IF r \in all THEN "done" ELSE st[r]
      /\ \A r \in Requests : Unwritten(r) => server[r] = "none"
  BY <1>1, <1>3 DEF Pending, Inv, WritesOK, Unwritten
<1> HIDE DEF all, how
<1>5. Pending' = {}
  <2>1. \A r \in Requests : st'[r] # "pending"
    BY <1>4
  <2> QED BY <2>1 DEF Pending
<1>6. TypeOK'
  <2>1. outcome' \in [Requests -> {"none", "value", "error", "unsent", "possibly_sent", "overloaded"}]
    <3>1. outcome' = [r \in Requests |-> outcome'[r]]
      BY <1>1
    <3>2. \A r \in Requests : outcome'[r] \in {"none", "value", "error", "unsent", "possibly_sent", "overloaded"}
      BY <1>2, <1>3 DEF TypeOK
    <3> QED BY <3>1, <3>2
  <2>2. st' \in [Requests -> {"idle", "waiting", "granted", "pending", "done"}]
    BY <1>1, <1>3 DEF TypeOK
  <2>3. IsFiniteSet(credits') /\ credits' \subseteq Data /\ IsFiniteSet(Pending' \ Data)
    BY <1>1, <1>3, <1>5, FS_Subset, FS_EmptySet DEF TypeOK
  <2>4. waiters' \in Seq(Data) /\ writes' \in Seq(Requests)
    BY <1>1
  <2>5. chunks' \in [Requests -> Nat]
    BY <1>1
  <2> QED BY <1>1, <1>3, <2>1, <2>2, <2>3, <2>4, <2>5 DEF TypeOK
<1>7. ASSUME NEW r \in Requests PROVE Stage(r)'
  <2>1. /\ Stage(r)
        /\ st'[r] = (IF r \in forgotten THEN "idle" ELSE IF r \in all THEN "done" ELSE st[r])
        /\ outcome'[r] = (IF r \in all /\ outcome[r] = "none"
                         THEN IF r \in Pending /\ ~Unwritten(r) THEN "possibly_sent" ELSE "unsent"
                         ELSE outcome[r])
        /\ server'[r] = server[r] /\ chunks'[r] = 0 /\ r \notin timedOut' /\ closed'
    BY <1>1, <1>2, <1>4, <1>7 DEF Inv
  <2>2. /\ r \in all <=> st[r] \in {"pending", "waiting"}
        /\ r \in forgotten => r = Ping /\ st[r] = "done"
        /\ Unwritten(r) => server[r] = "none"
        /\ r \in Pending <=> st[r] = "pending"
    BY <1>4, <1>7 DEF Pending
  <2>3. st[r] \in {"idle", "waiting", "granted", "pending", "done"}
    BY <1>3, <1>7 DEF TypeOK
  <2> QED BY <2>1, <2>2, <2>3 DEF Stage
<1>8. WindowOK'
  <2>1. Items(waiters') = {} /\ Distinct(waiters') /\ {r \in Requests : st'[r] = "waiting"} = {}
    BY <1>1, <1>4 DEF Items, Distinct
  <2>2. credits' = {r \in Data : st'[r] \in {"granted", "pending"}}
    <3>1. credits = {r \in Data : st[r] \in {"granted", "pending"}} /\ Data \subseteq Requests
      BY DEF Inv, WindowOK, Requests
    <3>2. \A r \in Data : st'[r] \in {"granted", "pending"} <=> st[r] = "granted"
      BY <1>4, <3>1
    <3>3. \A r \in Data : r \in credits' <=> st[r] = "granted"
      BY <1>1, <3>1 DEF Pending
    <3>4. credits' \subseteq Data
      BY <1>1, <3>1
    <3> QED BY <3>2, <3>3, <3>4
  <2>3. Pending' \ Data = {} /\ Cardinality({}) = 0
    BY <1>5, FS_EmptySet
  <2> QED BY <1>1, <2>1, <2>2, <2>3 DEF WindowOK
<1>9. WritesOK' /\ LifeOK'
  BY <1>1, <1>5, NoItems DEF WritesOK, LifeOK, Items
<1>10. FramesOK'
  <2>1. Buffered(Requests)' = {}
    BY <1>1 DEF Buffered
  <2>2. MaxChunkFrames \in Nat /\ IsFiniteSet({}) /\ Cardinality({}) = 0
    BY ConnectionAssumption, FS_EmptySet
  <2>3. totalFrames' = 0
    BY DEF FailAll
  <2> QED BY <2>1, <2>2, <2>3 DEF FramesOK
<1> QED BY <1>6, <1>7, <1>8, <1>9, <1>10 DEF Inv

\* A request is refused or cannot be sent: it holds nothing.
LEMMA RejectInv ==
    ASSUME Inv, NEW r \in Requests, st[r] = "idle",
           NEW how \in {"error", "unsent", "overloaded"}, Rejected(r, how),
           UNCHANGED <<server, response, window, limit, writeQueue, pendingControlRequests, life>>
    PROVE  Inv'
<1>1. /\ TypeOK /\ Data \subseteq Requests
      /\ st' = [st EXCEPT ![r] = "done"] /\ outcome' = [outcome EXCEPT ![r] = how]
      /\ UNCHANGED <<server, timedOut, chunks, discarded, totalFrames, credits, waiters, limit,
                     writes, writeBlocked, pendingControlRequests, closed, draining, retirement>>
  BY DEF Inv, Rejected, response, window, writeQueue, life, Requests
<1>2. \A q \in Requests : /\ st'[q] = IF q = r THEN "done" ELSE st[q]
                          /\ outcome'[q] = IF q = r THEN how ELSE outcome[q]
  BY <1>1 DEF TypeOK
<1>3. Pending' = Pending
  BY <1>2 DEF Pending
<1>4. TypeOK'
  <2>1. /\ st' \in [Requests -> {"idle", "waiting", "granted", "pending", "done"}]
        /\ outcome' \in [Requests -> {"none", "value", "error", "unsent", "possibly_sent", "overloaded"}]
    BY <1>1 DEF TypeOK
  <2> QED BY <1>1, <1>3, <2>1 DEF TypeOK
<1>5. ASSUME NEW q \in Requests PROVE Stage(q)'
  <2>1. Stage(q)
    BY <1>5 DEF Inv
  <2> QED BY <1>1, <1>2, <2>1, <1>5 DEF Stage
<1>6. WindowOK'
  <2>1. {q \in Requests : st'[q] = "waiting"} = {q \in Requests : st[q] = "waiting"}
    BY <1>2
  <2>2. {q \in Data : st'[q] \in {"granted", "pending"}} = {q \in Data : st[q] \in {"granted", "pending"}}
    BY <1>1, <1>2
  <2>3. WindowOK
    BY DEF Inv
  <2> QED BY <1>1, <1>3, <2>1, <2>2, <2>3 DEF WindowOK
<1>7. WritesOK' /\ LifeOK'
  BY <1>1, <1>3 DEF WritesOK, LifeOK, Inv
<1>8. FramesOK'
  BY <1>1, FramesStay DEF Inv
<1> QED BY <1>4, <1>5, <1>6, <1>7, <1>8 DEF Inv

\* A request is registered: its frame is in the socket or waits behind others.
LEMMA SendInv ==
    ASSUME Inv, NEW r \in Requests, SendNow(r) \/ SendLater(r),
           ~closed, draining => r = Ping,
           \/ st[r] = "idle" /\ credits' = credits \cup ({r} \cap Data)
           \/ st[r] = "granted" /\ credits' = credits,
           waiters # <<>> => st[r] = "granted" \/ r \notin Data
    PROVE  Inv'
<1>1. /\ TypeOK /\ Data \subseteq Requests
      /\ st' = [st EXCEPT ![r] = "pending"] /\ outcome' = [outcome EXCEPT ![r] = "none"]
      /\ discarded' = [discarded EXCEPT ![r] = 0]
      /\ pendingControlRequests' = pendingControlRequests + IF r \in Data THEN 0 ELSE 1
      /\ UNCHANGED <<timedOut, chunks, totalFrames, waiters, limit, closed, draining, retirement>>
  BY DEF Inv, SendNow, SendLater, Registered, life, Requests
<1>2. PICK x \in {"owns", "none"} :
        /\ server' = [server EXCEPT ![r] = x]
        /\ writeBlocked' \in BOOLEAN
        /\ \/ x = "owns" /\ writes' = writes
           \/ x = "none" /\ writes' = Append(writes, r)
  BY <1>1 DEF SendNow, SendLater, TypeOK
<1>3. \A q \in Requests : /\ st'[q] = IF q = r THEN "pending" ELSE st[q]
                          /\ outcome'[q] = IF q = r THEN "none" ELSE outcome[q]
                          /\ server'[q] = IF q = r THEN x ELSE server[q]
  BY <1>1, <1>2 DEF TypeOK
<1>4. /\ r \notin timedOut /\ chunks[r] = 0 /\ (r \in Data <=> r \in credits')
      /\ st[r] = "granted" => r \in Data
      /\ r \notin Pending /\ Pending' = Pending \cup {r}
      /\ credits' = credits \cup ({r} \cap Data)
  <2>1. Stage(r) /\ chunks[r] \in Nat
    BY <1>1 DEF Inv, TypeOK
  <2>2. r \notin timedOut /\ chunks[r] = 0 /\ (st[r] = "granted" => r \in Data)
    BY <2>1 DEF Stage
  <2>3. credits = {q \in Data : st[q] \in {"granted", "pending"}}
    BY DEF Inv, WindowOK
  <2>4. r \notin Pending /\ Pending' = Pending \cup {r}
    BY <1>3 DEF Pending
  <2> QED BY <2>2, <2>3, <2>4
<1>5. ASSUME NEW q \in Requests PROVE Stage(q)'
  <2>1. Stage(q)
    BY <1>5 DEF Inv
  <2> QED BY <1>1, <1>3, <1>4, <2>1, <1>5 DEF Stage
<1>6. /\ IsFiniteSet(Pending' \ Data)
      /\ pendingControlRequests' = Cardinality(Pending' \ Data)
  <2>1. IsFiniteSet(Pending \ Data) /\ pendingControlRequests = Cardinality(Pending \ Data)
    BY DEF Inv, TypeOK, WindowOK
  <2>2. CASE r \in Data
    <3>1. Pending' \ Data = Pending \ Data
      BY <1>4, <2>2
    <3>2. pendingControlRequests' = pendingControlRequests
      BY <1>1, <2>1, <2>2, FS_CardinalityType
    <3> QED BY <2>1, <3>1, <3>2
  <2>3. CASE r \notin Data
    <3>1. Pending' \ Data = (Pending \ Data) \cup {r} /\ r \notin Pending \ Data
      BY <1>4, <2>3
    <3>2. /\ IsFiniteSet((Pending \ Data) \cup {r})
          /\ Cardinality((Pending \ Data) \cup {r}) = Cardinality(Pending \ Data) + 1
      BY <2>1, <3>1, FS_AddElement
    <3> QED BY <1>1, <2>1, <2>3, <3>1, <3>2
  <2> QED BY <2>2, <2>3
<1>7. WindowOK'
  <2>1. WindowOK
    BY DEF Inv
  <2>2. {q \in Requests : st'[q] = "waiting"} = {q \in Requests : st[q] = "waiting"}
    BY <1>3
  <2>3. credits' = {q \in Data : st'[q] \in {"granted", "pending"}}
    <3>1. credits = {q \in Data : st[q] \in {"granted", "pending"}}
      BY <2>1 DEF WindowOK
    <3> QED BY <1>1, <1>3, <1>4, <3>1
  <2>4. waiters # <<>> => credits' = credits
    BY <1>4, <2>1, <2>3
  <2> QED BY <1>1, <1>6, <2>1, <2>2, <2>3, <2>4 DEF WindowOK
<1>8. writes' \in Seq(Requests) /\ WritesOK'
  <2>1. WritesOK /\ writes \in Seq(Requests)
    BY <1>1 DEF Inv, TypeOK
  <2>2. /\ r \notin Items(writes)
        /\ \A q \in Items(writes) : q \in Requests /\ q \in Pending /\ q \notin timedOut /\ server[q] = "none"
        /\ draining => Items(writes) \subseteq {Ping}
    BY <1>4, <2>1 DEF WritesOK, Pending
  <2>3. /\ writes' \in Seq(Requests)
        /\ Items(writes') = Items(writes) \cup IF x = "owns" THEN {} ELSE {r}
    <3>1. Append(writes, r) \in Seq(Requests) /\ Items(Append(writes, r)) = Items(writes) \cup {r}
      BY <2>1, AppendItems
    <3>2. CASE x = "owns"
      BY <1>2, <2>1, <3>2
    <3>3. CASE x = "none"
      BY <1>2, <3>1, <3>3
    <3> QED BY <3>2, <3>3
  <2>4. ASSUME NEW q \in Items(writes')
        PROVE  q \in Requests /\ q \in Pending' /\ q \notin timedOut' /\ server'[q] = "none"
    <3>1. CASE q = r
      BY <1>1, <1>3, <1>4, <2>2, <2>3, <2>4, <3>1
    <3>2. CASE q # r
      BY <1>1, <1>3, <1>4, <2>2, <2>3, <2>4, <3>2
    <3> QED BY <3>1, <3>2
  <2>5. draining' => Items(writes') \subseteq {Ping}
    BY <1>1, <2>2, <2>3
  <2> QED BY <2>3, <2>4, <2>5 DEF WritesOK, Pending
<1>9. LifeOK'
  BY <1>1, <1>4 DEF LifeOK, Inv
<1>10. TypeOK'
  <2>1. /\ st' \in [Requests -> {"idle", "waiting", "granted", "pending", "done"}]
        /\ outcome' \in [Requests -> {"none", "value", "error", "unsent", "possibly_sent", "overloaded"}]
        /\ server' \in [Requests -> {"none", "owns", "answered", "lost"}]
        /\ discarded' \in [Requests -> Nat]
    BY <1>1, <1>2 DEF TypeOK
  <2>2. credits' \subseteq Data /\ IsFiniteSet(credits')
    <3>1. IsFiniteSet(credits) /\ credits \subseteq Data
      BY <1>1 DEF TypeOK
    <3>2. IsFiniteSet(credits \cup {r})
      BY <3>1, FS_AddElement
    <3>3. credits' \subseteq credits \cup {r} /\ credits' \subseteq Data
      BY <1>4, <3>1
    <3> QED BY <3>2, <3>3, FS_Subset
  <2> QED BY <1>1, <1>2, <1>6, <1>8, <2>1, <2>2 DEF TypeOK
<1>11. FramesOK'
  BY <1>1, FramesStay DEF Inv
<1> QED BY <1>5, <1>7, <1>8, <1>9, <1>10, <1>11 DEF Inv

\* One request is taken out, with or without an answer.
LEMMA TakeOneInv ==
    ASSUME Inv, NEW r \in Requests, st[r] \in {"granted", "pending"},
           NEW how \in {"value", "error", "unsent", "possibly_sent", "overloaded"},
           Take({r}, [x \in {r} |-> how]),
           NEW own \in {server[r], "answered", "lost"}, server' = [server EXCEPT ![r] = own],
           r # Ping /\ how \in {"unsent", "overloaded"} => own = "none",
           r \in Data /\ own = "owns" => draining,
           discarded' \in [Requests -> Nat], limit' = limit, writeBlocked' = writeBlocked
    PROVE  Inv'
<1> DEFINE told == [x \in {r} |-> how]
<1>1. TypeOK /\ WritesOK /\ LifeOK
  BY DEF Inv
<1>2. /\ told[r] = how /\ server'[r] = own
      /\ server' \in [Requests -> {"none", "owns", "answered", "lost"}]
      /\ \A q \in Requests : q # r => server'[q] = server[q]
  BY <1>1 DEF TypeOK
<1> HIDE DEF told
<1>3. Takes({r}, told, {}, FALSE, draining, retirement)
  BY <1>1, <1>2 DEF Takes, TypeOK, WritesOK, LifeOK
<1>4. TakePending({r}, told, {}, FALSE, draining, retirement)
  BY DEF Take, told
<1> QED BY <1>3, <1>4, TakeInv

---------------------------------------------------------------------------
(* Every action keeps the invariant.                                       *)

\* No request has been made: nothing is held.
LEMMA InitInv == Init => Inv
<1> SUFFICES ASSUME Init PROVE Inv
  OBVIOUS
<1>1. Pending = {} /\ Pending \ Data = {} /\ Items(<<>>) = {} /\ Distinct(<<>>)
  BY DEF Init, Pending, Items, Distinct
<1>2. IsFiniteSet({}) /\ Cardinality({}) = 0
  BY FS_EmptySet
<1>3. TypeOK
  <2>1. InitLimit \in Nat
    BY ConnectionAssumption
  <2>2. <<>> \in Seq(Data) /\ <<>> \in Seq(Requests)
    OBVIOUS
  <2>3. IsFiniteSet(Pending \ Data) /\ IsFiniteSet(credits)
    BY <1>1, <1>2 DEF Init
  <2>4. /\ st \in [Requests -> {"idle", "waiting", "granted", "pending", "done"}]
        /\ outcome \in [Requests -> {"none", "value", "error", "unsent", "possibly_sent", "overloaded"}]
        /\ server \in [Requests -> {"none", "owns", "answered", "lost"}]
        /\ chunks \in [Requests -> Nat] /\ discarded \in [Requests -> Nat]
    BY DEF Init
  <2> QED BY <2>1, <2>2, <2>3, <2>4 DEF Init, TypeOK
<1>4. (\A r \in Requests : Stage(r)) /\ WindowOK /\ WritesOK /\ LifeOK
  BY <1>1, <1>2, ConnectionAssumption DEF Init, Stage, WindowOK, WritesOK, LifeOK, Requests
<1>5. FramesOK
  <2>1. Buffered(Requests) = {}
    BY DEF Init, Buffered
  <2>2. MaxChunkFrames \in Nat
    BY ConnectionAssumption
  <2> QED BY <1>2, <2>1, <2>2 DEF FramesOK, Init
<1> QED BY <1>3, <1>4, <1>5 DEF Inv

\* A control request, or the heartbeat's, is sent or refused.
LEMMA ControlSendInv ==
    ASSUME Inv, NEW r \in Requests, r \notin Data, st[r] = "idle", ~closed, draining => r = Ping,
           ControlSend(r)
    PROVE  Inv'
<1>1. CASE (SendNow(r) \/ SendLater(r)) /\ UNCHANGED credits
  <2>1. credits' = credits \cup ({r} \cap Data)
    BY <1>1
  <2> QED BY <1>1, <2>1, SendInv
<1>2. CASE \E how \in {"error", "unsent", "overloaded"} :
              /\ Rejected(r, how)
              /\ UNCHANGED <<server, response, window, limit, writeQueue, pendingControlRequests, life>>
  BY <1>2, RejectInv
<1> QED BY <1>1, <1>2 DEF ControlSend, SendFailure

\* A request of the caller.
LEMMA RequestInv ==
    ASSUME Inv, NEW r \in Requests, Request(r)
    PROVE  Inv'
<1>1. CASE RequestRefused(r)
  BY <1>1, RejectInv DEF RequestRefused
<1>2. CASE RequestControl(r)
  BY <1>2, ControlSendInv, ConnectionAssumption DEF RequestControl
<1>3. CASE RequestData(r)
  <2>1. CASE (SendNow(r) \/ SendLater(r)) /\ credits' = credits \cup {r}
    <3>1. /\ st[r] = "idle" /\ credits' = credits \cup ({r} \cap Data)
          /\ ~closed /\ ~draining /\ waiters = <<>>
      <4>1. Cardinality(credits) \in Nat /\ limit \in Nat
        BY FS_CardinalityType DEF Inv, TypeOK
      <4> QED BY <1>3, <2>1, <4>1 DEF RequestData, Inv, WindowOK
    <3> QED BY <2>1, <3>1, SendInv
  <2>2. CASE \E how \in {"error", "unsent", "overloaded"} :
                /\ Rejected(r, how)
                /\ UNCHANGED <<server, response, window, limit, writeQueue, pendingControlRequests, life>>
    BY <1>3, <2>2, RejectInv DEF RequestData
  <2> QED BY <1>3, <2>1, <2>2 DEF RequestData, SendFailure
<1>4. CASE RequestWaits(r)
  <2>1. CASE Len(waiters) >= MaxQueuedRequests
    BY <1>4, <2>1, RejectInv DEF RequestWaits, window
  <2>2. CASE ~(Len(waiters) >= MaxQueuedRequests)
    <3>1. /\ TypeOK /\ WindowOK /\ WritesOK /\ LifeOK /\ Stage(r)
          /\ r \in Data /\ st[r] = "idle" /\ ~closed /\ ~draining /\ Cardinality(credits) >= limit
          /\ st' = [st EXCEPT ![r] = "waiting"] /\ waiters' = Append(waiters, r)
          /\ UNCHANGED <<outcome, server, timedOut, chunks, discarded, totalFrames, credits, limit,
                         writes, writeBlocked, pendingControlRequests, closed, draining, retirement>>
      BY <1>4, <2>2 DEF RequestWaits, Inv, response, writeQueue, life
    <3>2. /\ \A q \in Requests : st'[q] = IF q = r THEN "waiting" ELSE st[q]
          /\ Pending' = Pending
      <4>1. \A q \in Requests : st'[q] = IF q = r THEN "waiting" ELSE st[q]
        BY <3>1 DEF TypeOK
      <4> QED BY <3>1, <4>1 DEF Pending
    <3>3. waiters' \in Seq(Data) /\ Items(waiters') = Items(waiters) \cup {r}
      <4>1. waiters \in Seq(Data)
        BY <3>1 DEF TypeOK
      <4>2. Append(waiters, r) \in Seq(Data) /\ Items(Append(waiters, r)) = Items(waiters) \cup {r}
        BY <3>1, <4>1, AppendItems
      <4> QED BY <3>1, <4>2
    <3>4. Distinct(waiters')
      <4>1. r \notin Items(waiters) /\ waiters \in Seq(Data) /\ Distinct(waiters)
        BY <3>1 DEF WindowOK, TypeOK
      <4> QED BY <3>1, <4>1, AppendDistinct
    <3>5. TypeOK'
      <4>1. st' \in [Requests -> {"idle", "waiting", "granted", "pending", "done"}]
        BY <3>1 DEF TypeOK
      <4> QED BY <3>1, <3>2, <3>3, <4>1 DEF TypeOK
    <3>6. ASSUME NEW q \in Requests PROVE Stage(q)'
      <4>1. Stage(q)
        BY <3>6 DEF Inv
      <4> QED BY <3>1, <3>2, <3>6, <4>1 DEF Stage
    <3>7. WindowOK'
      <4>1. {q \in Requests : st'[q] = "waiting"} = Items(waiters')
        BY <3>1, <3>2, <3>3 DEF WindowOK
      <4>2. {q \in Data : st'[q] \in {"granted", "pending"}} = {q \in Data : st[q] \in {"granted", "pending"}}
        BY <3>1, <3>2 DEF Requests
      <4> QED BY <3>1, <3>2, <3>4, <4>1, <4>2 DEF WindowOK
    <3>8. WritesOK' /\ LifeOK'
      BY <3>1, <3>2 DEF WritesOK, LifeOK
    <3>9. FramesOK'
      BY <3>1, FramesStay DEF Inv
    <3> QED BY <3>5, <3>6, <3>7, <3>8, <3>9 DEF Inv
  <2> QED BY <2>1, <2>2
<1> QED BY <1>1, <1>2, <1>3, <1>4 DEF Request

\* The timer of a waiter fires: the waiter leaves the queue.
LEMMA CreditTimeoutInv ==
    ASSUME Inv, NEW r \in Requests, CreditTimeout(r)
    PROVE  Inv'
<1>1. /\ TypeOK /\ WindowOK /\ WritesOK /\ LifeOK /\ Stage(r) /\ Data \subseteq Requests
      /\ st[r] = "waiting" /\ r \in Data
      /\ st' = [st EXCEPT ![r] = "done"] /\ outcome' = [outcome EXCEPT ![r] = "unsent"]
      /\ waiters' = Drop(waiters, {r})
      /\ UNCHANGED <<server, timedOut, chunks, discarded, totalFrames, credits, limit,
                     writes, writeBlocked, pendingControlRequests, closed, draining, retirement>>
  BY DEF CreditTimeout, Rejected, Inv, Stage, response, writeQueue, life, Requests
<1>2. \A q \in Requests : /\ st'[q] = IF q = r THEN "done" ELSE st[q]
                          /\ outcome'[q] = IF q = r THEN "unsent" ELSE outcome[q]
  BY <1>1 DEF TypeOK
<1>3. Pending' = Pending
  BY <1>1, <1>2 DEF Pending
<1>4. waiters' \in Seq(Data) /\ Items(waiters') = Items(waiters) \ {r} /\ Distinct(waiters')
  <2>1. waiters \in Seq(Data) /\ Distinct(waiters)
    BY <1>1 DEF TypeOK, WindowOK
  <2> QED BY <1>1, <2>1, DropFacts
<1>5. TypeOK'
  <2>1. /\ st' \in [Requests -> {"idle", "waiting", "granted", "pending", "done"}]
        /\ outcome' \in [Requests -> {"none", "value", "error", "unsent", "possibly_sent", "overloaded"}]
    BY <1>1 DEF TypeOK
  <2> QED BY <1>1, <1>3, <1>4, <2>1 DEF TypeOK
<1>6. ASSUME NEW q \in Requests PROVE Stage(q)'
  <2>1. Stage(q)
    BY <1>6 DEF Inv
  <2> QED BY <1>1, <1>2, <2>1, <1>6 DEF Stage
<1>7. WindowOK'
  <2>1. {q \in Requests : st'[q] = "waiting"} = Items(waiters')
    <3>1. {q \in Requests : st[q] = "waiting"} = Items(waiters)
      BY <1>1 DEF WindowOK
    <3>2. \A q \in Requests : st'[q] = "waiting" <=> (st[q] = "waiting" /\ q # r)
      BY <1>2
    <3> QED BY <1>4, <3>1, <3>2
  <2>2. {q \in Data : st'[q] \in {"granted", "pending"}} = {q \in Data : st[q] \in {"granted", "pending"}}
    BY <1>1, <1>2
  <2>3. waiters' # <<>> => waiters # <<>>
    <3>1. waiters' # <<>> => Items(waiters') # {}
      BY <1>4, NoItems
    <3>2. Items(waiters) # {} => waiters # <<>>
      BY <1>1, NoItems DEF TypeOK
    <3> QED BY <1>4, <3>1, <3>2
  <2> QED BY <1>1, <1>3, <1>4, <2>1, <2>2, <2>3 DEF WindowOK
<1>8. WritesOK' /\ LifeOK'
  <2>1. waiters = <<>> => waiters' = <<>>
    <3>1. waiters # <<>>
      BY <1>1, NoItems DEF TypeOK, WindowOK
    <3> QED BY <3>1
  <2> QED BY <1>1, <1>3, <2>1 DEF WritesOK, LifeOK
<1>9. FramesOK'
  BY <1>1, FramesStay DEF Inv
<1> QED BY <1>5, <1>6, <1>7, <1>8, <1>9 DEF Inv

\* A granted request goes on after its await.
LEMMA ResumeInv ==
    ASSUME Inv, NEW r \in Requests, Resume(r)
    PROVE  Inv'
<1>1. /\ TypeOK /\ st[r] = "granted" /\ r \in Data /\ r # Ping /\ server[r] = "none"
  BY ConnectionAssumption DEF Inv, Stage, Resume, ResumeRefused, ResumeSends
<1>2. ASSUME NEW how \in {"error", "unsent", "overloaded"}, Take({r}, [x \in {r} |-> how]),
             UNCHANGED <<server, discarded, limit, writeBlocked>>
      PROVE  Inv'
  <2>1. server' = [server EXCEPT ![r] = "none"] /\ discarded' \in [Requests -> Nat]
    BY <1>1, <1>2 DEF TypeOK
  <2> QED BY <1>1, <1>2, <2>1, TakeOneInv
<1>3. CASE ResumeRefused(r)
  BY <1>2, <1>3 DEF ResumeRefused
<1>4. CASE ResumeSends(r)
  <2>1. ~closed /\ ~draining
    BY <1>4 DEF ResumeSends
  <2>2. CASE (SendNow(r) \/ SendLater(r)) /\ UNCHANGED credits
    BY <1>1, <2>1, <2>2, SendInv
  <2>3. CASE /\ \E how \in SendFailure : Take({r}, [x \in {r} |-> how])
             /\ UNCHANGED <<server, discarded, limit, writeBlocked>>
    BY <1>2, <2>3 DEF SendFailure
  <2> QED BY <1>4, <2>2, <2>3 DEF ResumeSends
<1> QED BY <1>3, <1>4 DEF Resume

\* A response frame arrives, for a request that is still registered or not.
LEMMA FrameInv ==
    ASSUME Inv, NEW r \in Requests, Frame(r)
    PROVE  Inv'
<1>1. /\ TypeOK /\ WindowOK /\ WritesOK /\ LifeOK /\ Stage(r)
      /\ server[r] = "owns" /\ ~closed
  BY DEF Inv, Frame, FinalFrame, ChunkFrame, StrayFrame, FrameOverflow, ServerOwns
<1>2. CASE FinalFrame(r)
  <2>1. PICK how \in {"value", "error"} : Take({r}, [x \in {r} |-> how])
    BY <1>2 DEF FinalFrame
  <2>2. discarded' \in [Requests -> Nat]
    <3>1. discarded[r] \in Nat /\ discarded[r] + 1 \in Nat
      BY <1>1 DEF TypeOK
    <3> QED BY <1>1, <1>2, <3>1 DEF FinalFrame, TypeOK
  <2>3. st[r] = "pending" /\ server' = [server EXCEPT ![r] = "answered"] /\ limit' = limit /\ writeBlocked' = writeBlocked
    BY <1>2 DEF FinalFrame, Pending
  <2> QED BY <2>1, <2>2, <2>3, TakeOneInv
<1>3. CASE ChunkFrame(r)
  <2>1. /\ st[r] = "pending"
        /\ UNCHANGED <<st, outcome, server, timedOut, credits, waiters, limit, writes, writeBlocked,
                       pendingControlRequests, closed, draining, retirement>>
        /\ \/ r \in timedOut /\ chunks' = chunks /\ discarded' = [discarded EXCEPT ![r] = @ + 1]
           \/ r \notin timedOut /\ discarded' = discarded /\ chunks' = [chunks EXCEPT ![r] = @ + 1]
    BY <1>3 DEF ChunkFrame, Pending, fate, window, writeQueue, life
  <2>2. Pending' = Pending
    BY <2>1 DEF Pending
  <2>3. chunks' \in [Requests -> Nat] /\ discarded' \in [Requests -> Nat]
    <3>1. discarded[r] + 1 \in Nat /\ chunks[r] + 1 \in Nat
      BY <1>1 DEF TypeOK
    <3> QED BY <1>1, <2>1, <3>1 DEF TypeOK
  <2>4. TypeOK'
    BY <1>1, <2>1, <2>2, <2>3 DEF TypeOK
  <2>5. ASSUME NEW q \in Requests PROVE Stage(q)'
    <3>1. Stage(q) /\ (chunks'[q] = chunks[q] \/ (q = r /\ r \notin timedOut))
      BY <1>1, <2>1, <2>5 DEF Inv, TypeOK
    <3> QED BY <2>1, <2>5, <3>1 DEF Stage
  <2>6. FramesOK'
    <3>1. FramesOK /\ chunks \in [Requests -> Nat] /\ MaxChunkFrames \in Nat
      BY <1>1, ConnectionAssumption DEF Inv, TypeOK
    <3>2. CASE r \in timedOut
      BY <1>3, <3>1, <3>2, FramesStay DEF ChunkFrame
    <3>3. CASE r \notin timedOut
      <4>1. /\ chunks' = [chunks EXCEPT ![r] = @ + 1]
            /\ totalFrames < MaxChunkFrames /\ totalFrames' = totalFrames + 1
        BY <1>3, <3>3 DEF ChunkFrame
      <4> QED BY <3>1, <4>1, FrameAdded
    <3> QED BY <3>2, <3>3
  <2> QED BY <1>1, <2>1, <2>2, <2>4, <2>5, <2>6 DEF Inv, WindowOK, WritesOK, LifeOK
<1>4. CASE StrayFrame(r)
  <2>1. /\ st[r] # "pending"
        /\ server' = [server EXCEPT ![r] = "answered"]
        /\ UNCHANGED <<st, outcome, timedOut, chunks, discarded, totalFrames, credits, waiters, limit,
                       writes, writeBlocked, pendingControlRequests, closed, draining, retirement>>
    BY <1>4 DEF StrayFrame, Pending, response, window, writeQueue, life
  <2>2. Pending' = Pending
    BY <2>1 DEF Pending
  <2>3. \A q \in Requests : server'[q] = IF q = r THEN "answered" ELSE server[q]
    BY <1>1, <2>1 DEF TypeOK
  <2>4. TypeOK'
    BY <1>1, <2>1, <2>2 DEF TypeOK
  <2>5. ASSUME NEW q \in Requests PROVE Stage(q)'
    <3>1. Stage(q)
      BY <2>5 DEF Inv
    <3> QED BY <1>1, <2>1, <2>3, <2>5, <3>1 DEF Stage
  <2>6. WritesOK'
    <3>1. \A q \in Items(writes) : q \in Requests /\ q \in Pending /\ q \notin timedOut /\ server[q] = "none"
      BY <1>1 DEF WritesOK, Pending
    <3>2. \A q \in Items(writes) : server'[q] = "none"
      BY <1>1, <2>3, <3>1
    <3>3. \A q \in Items(writes') : q \in Pending' /\ q \notin timedOut' /\ server'[q] = "none"
      BY <2>1, <2>2, <3>1, <3>2
    <3> QED BY <1>1, <2>1, <3>3 DEF WritesOK
  <2>7. FramesOK'
    BY <2>1, FramesStay DEF Inv
  <2> QED BY <1>1, <2>1, <2>2, <2>4, <2>5, <2>6, <2>7 DEF Inv, WindowOK, LifeOK
<1>5. CASE FrameOverflow(r)
  BY <1>5, FailInv DEF FrameOverflow
<1> QED BY <1>2, <1>3, <1>4, <1>5 DEF Frame

\* WINDOW_UPDATE: the new limit may let some of those who wait go on.
LEMMA WindowUpdateInv ==
    ASSUME Inv, NEW n \in Limits, WindowUpdate(n)
    PROVE  Inv'
<1> DEFINE room == IF n <= Cardinality(credits) THEN 0
                   ELSE Min({Len(waiters), n - Cardinality(credits)})
           served == Front(waiters, room)
<1>1. /\ ~closed /\ limit' = n
      /\ st' = [r \in Requests |-> IF r \in served THEN "granted" ELSE st[r]]
      /\ credits' = credits \cup served
      /\ waiters' = Rest(waiters, room)
      /\ UNCHANGED <<outcome, server, timedOut, chunks, discarded, totalFrames, writes, writeBlocked,
                     pendingControlRequests, closed, draining, retirement>>
  BY DEF WindowUpdate, Front, Rest, response, writeQueue, life
<1>2. /\ TypeOK /\ WindowOK /\ WritesOK /\ LifeOK /\ n \in Nat /\ Data \subseteq Requests
      /\ waiters \in Seq(Data) /\ Distinct(waiters) /\ credits \in SUBSET Data /\ IsFiniteSet(credits)
      /\ Items(waiters) = {r \in Requests : st[r] = "waiting"}
      /\ credits = {r \in Data : st[r] \in {"granted", "pending"}}
      /\ Cardinality(credits) \in Nat
  BY ConnectionAssumption, FS_CardinalityType DEF Inv, TypeOK, WindowOK, Requests
<1>3. /\ Cardinality(credits) >= n => room = 0
      /\ Cardinality(credits) < n => room = Min({Len(waiters), n - Cardinality(credits)})
      /\ Items(waiters) \cap credits = {}
  BY <1>2
<1> HIDE DEF room
<1>4. /\ waiters' \in Seq(Data) /\ Distinct(waiters')
      /\ Items(waiters') = Items(waiters) \ served /\ served \subseteq Items(waiters)
      /\ served \subseteq Data /\ IsFiniteSet(credits')
      /\ waiters' # <<>> => waiters # <<>> /\ Cardinality(credits') >= n
  <2> DEFINE stop == 0 = 1
  <2>1. /\ stop => waiters = <<>>
        /\ stop \/ Cardinality(credits) >= n => room = 0
        /\ ~stop /\ Cardinality(credits) < n => room = Min({Len(waiters), n - Cardinality(credits)})
    BY <1>3
  <2> HIDE DEF stop
  <2>2. /\ Rest(waiters, room) \in Seq(Data) /\ Distinct(Rest(waiters, room))
        /\ Items(Rest(waiters, room)) = Items(waiters) \ Front(waiters, room)
        /\ Front(waiters, room) \subseteq Items(waiters)
        /\ Front(waiters, room) \subseteq Data /\ IsFiniteSet(credits \cup Front(waiters, room))
        /\ Rest(waiters, room) # <<>> =>
             waiters # <<>> /\ Cardinality(credits \cup Front(waiters, room)) >= n
    <3>1. /\ waiters \in Seq(Data) /\ Distinct(waiters) /\ credits \in SUBSET Data /\ IsFiniteSet(credits)
          /\ n \in Nat
      BY <1>2
    <3> QED BY <1>3, <2>1, <3>1, Pumped, ZenonT(30)
  <2> QED BY <1>1, <2>2
<1> HIDE DEF served
<1>5. \A r \in Requests : /\ st'[r] = IF r \in served THEN "granted" ELSE st[r]
                          /\ r \in served => st[r] = "waiting"
  BY <1>1, <1>2, <1>4
<1>6. Pending' = Pending
  <2>1. \A r \in Requests : st'[r] = "pending" <=> st[r] = "pending"
    BY <1>5
  <2> QED BY <2>1 DEF Pending
<1>7. TypeOK'
  <2>1. st' \in [Requests -> {"idle", "waiting", "granted", "pending", "done"}]
    BY <1>1, <1>2 DEF TypeOK
  <2>2. credits' \subseteq Data
    BY <1>1, <1>2, <1>4
  <2> QED BY <1>1, <1>2, <1>4, <1>6, <2>1, <2>2 DEF TypeOK
<1>8. ASSUME NEW q \in Requests PROVE Stage(q)'
  <2>1. Stage(q)
    BY <1>8 DEF Inv
  <2> QED BY <1>1, <1>5, <2>1, <1>8 DEF Stage
<1>9. WindowOK'
  <2>1. {q \in Requests : st'[q] = "waiting"} = Items(waiters')
    BY <1>2, <1>4, <1>5
  <2>2. credits' = {q \in Data : st'[q] \in {"granted", "pending"}}
    <3>1. \A q \in Requests : st'[q] \in {"granted", "pending"} <=> q \in served \/ st[q] \in {"granted", "pending"}
      BY <1>5
    <3> QED BY <1>1, <1>2, <1>4, <3>1
  <2>3. waiters' # <<>> => ~closed' /\ ~draining' /\ Cardinality(credits') >= limit'
    BY <1>1, <1>2, <1>4 DEF WindowOK
  <2> QED BY <1>1, <1>2, <1>4, <1>6, <2>1, <2>2, <2>3 DEF WindowOK
<1>10. WritesOK' /\ LifeOK'
  BY <1>1, <1>2, <1>6 DEF WritesOK, LifeOK
<1>11. FramesOK'
  BY <1>1, FramesStay DEF Inv
<1> QED BY <1>7, <1>8, <1>9, <1>10, <1>11 DEF Inv

\* GOAWAY or retire(): the waiters and the unwritten frames are turned away.
LEMMA BeginDrainingInv ==
    ASSUME Inv, NEW ret \in {"none", "waiting", "resolved"}, ~closed, BeginDraining(ret)
    PROVE  Inv'
<1>1. PICK R : R = {r \in Pending : Unwritten(r) \/ r \in Blocking}
  OBVIOUS
<1>2. PICK told : told = [r \in R |-> IF Unwritten(r) THEN "unsent" ELSE "possibly_sent"]
  OBVIOUS
<1>3. TakePending(R, told, {}, TRUE, TRUE, ret) /\ UNCHANGED <<server, discarded, limit, writeBlocked>>
  BY <1>1, <1>2 DEF BeginDraining
<1>4. Takes(R, told, {}, TRUE, TRUE, ret)
  <2>1. TypeOK /\ WritesOK
    BY DEF Inv
  <2>2. R \subseteq {r \in Requests : st[r] \in {"granted", "pending"}}
    BY <1>1 DEF Pending
  <2>3. \A r \in R : told[r] = IF Unwritten(r) THEN "unsent" ELSE "possibly_sent"
    BY <1>2
  <2>4. \A r \in R : told[r] \in {"unsent", "overloaded"} => server'[r] = "none"
    BY <1>3, <2>1, <2>3 DEF WritesOK, Unwritten
  <2>5. Items(writes) \ (R \cup {}) \subseteq {Ping}
    BY <1>1, <2>1 DEF WritesOK, Unwritten
  <2> QED BY <1>3, <2>1, <2>2, <2>3, <2>4, <2>5 DEF Takes, TypeOK
<1> QED BY <1>3, <1>4, TakeInv

\* The response timer of a request, and the end of its grace period.
LEMMA TimeoutInv ==
    ASSUME Inv, NEW r \in Requests, Timeout(r)
    PROVE  Inv'
<1>1. /\ TypeOK /\ WindowOK /\ WritesOK /\ LifeOK /\ Stage(r)
      /\ st[r] = "pending" /\ r \in Pending /\ r \notin timedOut
  BY DEF Inv, Timeout, Pending
<1>2. CASE r \notin Data \/ Unwritten(r)
  <2>1. PICK how \in {"unsent", "possibly_sent"} :
          /\ how = IF Unwritten(r) THEN "unsent" ELSE "possibly_sent"
          /\ Take({r}, [x \in {r} |-> how])
    <3>1. [x \in {r} |-> IF Unwritten(r) THEN "unsent" ELSE "possibly_sent"]
            = [x \in {r} |-> IF Unwritten(r) THEN "unsent" ELSE "possibly_sent"]
      OBVIOUS
    <3> QED BY <1>2 DEF Timeout
  <2>2. UNCHANGED <<server, discarded, limit, writeBlocked>>
    BY <1>2 DEF Timeout
  <2>3. Unwritten(r) => server[r] = "none"
    BY <1>1 DEF WritesOK, Unwritten
  <2>4. server' = [server EXCEPT ![r] = server[r]] /\ discarded' \in [Requests -> Nat]
    BY <1>1, <2>2 DEF TypeOK
  <2> QED BY <1>1, <1>2, <2>1, <2>2, <2>3, <2>4, TakeOneInv
<1>3. CASE ~(r \notin Data \/ Unwritten(r))
  <2>1. /\ r \in Data /\ r \notin Items(writes)
        /\ timedOut' = timedOut \cup {r}
        /\ outcome' = [outcome EXCEPT ![r] = "possibly_sent"]
        /\ discarded' = [discarded EXCEPT ![r] = @ + chunks[r]]
        /\ chunks' = [chunks EXCEPT ![r] = 0]
        /\ UNCHANGED <<st, server, credits, waiters, limit, writes, writeBlocked,
                       pendingControlRequests, closed, draining, retirement>>
    BY <1>3 DEF Timeout, ToldOfTimeout, Unwritten, window, writeQueue, life
  <2>2. Pending' = Pending
    BY <2>1 DEF Pending
  <2>3. TypeOK'
    <3>1. discarded[r] + chunks[r] \in Nat
      BY <1>1 DEF TypeOK
    <3>2. discarded' \in [Requests -> Nat] /\ chunks' \in [Requests -> Nat]
      BY <1>1, <2>1, <3>1 DEF TypeOK
    <3>3. outcome' \in [Requests -> {"none", "value", "error", "unsent", "possibly_sent", "overloaded"}]
      BY <1>1, <2>1 DEF TypeOK
    <3> QED BY <1>1, <2>1, <2>2, <3>2, <3>3 DEF TypeOK
  <2>4. ASSUME NEW q \in Requests PROVE Stage(q)'
    <3>1. /\ Stage(q)
          /\ outcome'[q] = (IF q = r THEN "possibly_sent" ELSE outcome[q])
          /\ chunks'[q] = (IF q = r THEN 0 ELSE chunks[q])
      BY <1>1, <2>1, <2>4 DEF Inv, TypeOK
    <3> QED BY <1>1, <2>1, <2>4, <3>1 DEF Stage
  <2>5. WritesOK'
    BY <1>1, <2>1, <2>2 DEF WritesOK
  <2>6. FramesOK'
    <3>1. /\ FramesOK /\ chunks \in [Requests -> Nat] /\ MaxChunkFrames \in Nat /\ {r} \subseteq Requests
          /\ chunks' = [q \in Requests |-> IF q \in {r} THEN 0 ELSE chunks[q]]
          /\ Cardinality(Buffered({r})) = chunks[r]
      BY <1>1, <2>1, FramesOfOne, ConnectionAssumption DEF Inv, TypeOK
    <3>2. totalFrames' = totalFrames - Cardinality(Buffered({r}))
      BY <1>3, <3>1 DEF Timeout, ToldOfTimeout
    <3> QED BY <3>1, <3>2, FramesTaken
  <2> QED BY <1>1, <2>1, <2>2, <2>3, <2>4, <2>5, <2>6 DEF Inv, WindowOK, LifeOK
<1> QED BY <1>2, <1>3

\* "drain": queued frames go to the socket, or their write throws.
LEMMA FlushInv ==
    ASSUME Inv, NEW n \in 0..Len(writes), NEW F \in SUBSET {writes[i] : i \in 1..n}, Flush(n, F)
    PROVE  Inv'
<1>1. PICK gone : gone = {writes[i] : i \in 1..n}
  OBVIOUS
<1>2. PICK told : told = [r \in F |-> "unsent"]
  OBVIOUS
<1>3. /\ ~closed /\ F \subseteq gone /\ writeBlocked' \in BOOLEAN
      /\ server' = [r \in Requests |-> IF r \in gone \ F THEN "owns" ELSE server[r]]
      /\ TakePending(F, told, gone, FALSE, draining, retirement)
      /\ UNCHANGED <<discarded, limit>>
  BY <1>1, <1>2 DEF Flush
<1>4. TypeOK /\ WritesOK /\ LifeOK /\ gone \subseteq Items(writes)
  <2>1. Len(writes) \in Nat
    BY DEF Inv, TypeOK
  <2> QED BY <1>1, <2>1 DEF Inv, Items
<1>5. \A r \in gone : r \in Requests /\ st[r] = "pending" /\ server[r] = "none"
  BY <1>4 DEF WritesOK, Pending
<1>6. Takes(F, told, gone, FALSE, draining, retirement)
  <2>1. \A r \in Requests : server'[r] = IF r \in gone \ F THEN "owns" ELSE server[r]
    BY <1>3
  <2>2. server' \in [Requests -> {"none", "owns", "answered", "lost"}]
    BY <1>3, <1>4 DEF TypeOK
  <2>3. \A r \in F : r \in Requests /\ st[r] = "pending" /\ told[r] = "unsent" /\ server'[r] = "none"
    BY <1>2, <1>3, <1>5, <2>1
  <2>4. draining => Items(writes) \ (F \cup gone) \subseteq {Ping}
    BY <1>4 DEF WritesOK
  <2> QED BY <1>3, <1>4, <1>5, <2>1, <2>2, <2>3, <2>4 DEF Takes, TypeOK
<1> QED BY <1>3, <1>6, TakeInv

\* The socket could not write a frame, after all.
LEMMA WriteFailsInv ==
    ASSUME Inv, NEW r \in Requests, WriteFails(r)
    PROVE  Inv'
<1>1. TypeOK /\ st[r] = "pending"
  BY DEF Inv, WriteFails, Pending
<1>2. discarded' \in [Requests -> Nat] /\ limit' = limit /\ writeBlocked' = writeBlocked
  BY <1>1 DEF WriteFails, TypeOK
<1> QED BY <1>1, <1>2, TakeOneInv DEF WriteFails

\* The heartbeat goes on: after an answer it may be sent again.
LEMMA HeartbeatContinuesInv ==
    ASSUME Inv, HeartbeatContinues
    PROVE  Inv'
<1>1. st[Ping] = "done" /\ Ping \in Requests /\ Ping \notin Data /\ TypeOK
  BY ConnectionAssumption DEF HeartbeatContinues, Requests, Inv
<1>2. CASE outcome[Ping] = "value" \/ closed
  <2>1. /\ st' = [st EXCEPT ![Ping] = "idle"]
        /\ UNCHANGED <<outcome, server, timedOut, chunks, discarded, totalFrames, credits, waiters, limit,
                       writes, writeBlocked, pendingControlRequests, closed, draining, retirement>>
    BY <1>2 DEF HeartbeatContinues, response, window, writeQueue, life
  <2>2. \A q \in Requests : st'[q] = IF q = Ping THEN "idle" ELSE st[q]
    BY <1>1, <2>1 DEF TypeOK
  <2>3. Pending' = Pending
    BY <1>1, <2>2 DEF Pending
  <2>4. TypeOK'
    <3>1. st' \in [Requests -> {"idle", "waiting", "granted", "pending", "done"}]
      BY <1>1, <2>1 DEF TypeOK
    <3> QED BY <1>1, <2>1, <2>3, <3>1 DEF TypeOK
  <2>5. ASSUME NEW q \in Requests PROVE Stage(q)'
    <3>1. Stage(q)
      BY <2>5 DEF Inv
    <3> QED BY <1>1, <2>1, <2>2, <2>5, <3>1 DEF Stage
  <2>6. WindowOK'
    <3>1. WindowOK /\ Data \subseteq Requests
      BY DEF Inv, Requests
    <3>2. {q \in Requests : st'[q] = "waiting"} = {q \in Requests : st[q] = "waiting"}
      BY <1>1, <2>2
    <3>3. {q \in Data : st'[q] \in {"granted", "pending"}} = {q \in Data : st[q] \in {"granted", "pending"}}
      BY <1>1, <2>2, <3>1
    <3> QED BY <2>1, <2>3, <3>1, <3>2, <3>3 DEF WindowOK
  <2>7. FramesOK'
    BY <2>1, FramesStay DEF Inv
  <2> QED BY <2>1, <2>3, <2>4, <2>5, <2>6, <2>7 DEF Inv, WritesOK, LifeOK
<1>3. CASE ~(outcome[Ping] = "value" \/ closed)
  BY <1>1, <1>3, FailInv DEF HeartbeatContinues
<1> QED BY <1>2, <1>3

\* No handler of the connection breaks the invariant.
LEMMA NextInv ==
    ASSUME Inv, [Next]_vars
    PROVE  Inv'
<1>1. ASSUME NEW r \in Requests,
             \/ Request(r) \/ Resume(r) \/ CreditTimeout(r) \/ Frame(r) \/ Timeout(r) \/ GraceExpires(r)
             \/ WriteFails(r)
      PROVE  Inv'
  <2>1. CASE GraceExpires(r)
    BY <2>1, FailInv DEF GraceExpires
  <2> QED BY <1>1, <2>1, RequestInv, ResumeInv, CreditTimeoutInv, FrameInv, TimeoutInv, WriteFailsInv
<1>2. ASSUME NEW n \in Limits, WindowUpdate(n) PROVE Inv'
  BY <1>2, WindowUpdateInv
<1>3. ASSUME NEW n \in 0..Len(writes), NEW F \in SUBSET {writes[i] : i \in 1..n}, Flush(n, F) PROVE Inv'
  BY <1>3, FlushInv
<1>4. CASE GoAway \/ Retire
  <2>1. retirement \in {"none", "waiting", "resolved"}
    BY DEF Inv, TypeOK
  <2> QED BY <1>4, <2>1, BeginDrainingInv DEF GoAway, Retire
<1>5. CASE ConnectionFails
  BY <1>5, FailInv DEF ConnectionFails
<1>6. CASE HeartbeatTick
  BY <1>6, ControlSendInv, ConnectionAssumption DEF HeartbeatTick, Requests
<1>7. CASE HeartbeatContinues
  BY <1>7, HeartbeatContinuesInv
<1>8. CASE UNCHANGED vars
  <2>1. UNCHANGED <<st, outcome, server, timedOut, chunks, discarded, totalFrames, credits, waiters, limit, writes,
                    writeBlocked, pendingControlRequests, closed, draining, retirement>>
    BY <1>8 DEF vars, fate, response, window, writeQueue, life
  <2>2. Pending' = Pending
    BY <2>1 DEF Pending
  <2>3. TypeOK' /\ WindowOK' /\ WritesOK' /\ LifeOK'
    BY <2>1, <2>2 DEF Inv, TypeOK, WindowOK, WritesOK, LifeOK
  <2>4. \A r \in Requests : Stage(r)'
    BY <2>1 DEF Inv, Stage
  <2>5. FramesOK'
    BY <2>1, FramesStay DEF Inv
  <2> QED BY <2>3, <2>4, <2>5 DEF Inv
<1> QED BY <1>1, <1>2, <1>3, <1>4, <1>5, <1>6, <1>7, <1>8 DEF Next

---------------------------------------------------------------------------
(* What the invariant says, for every number of requests and any limits.   *)

\* The variables keep their types, through every response, timeout and failure.
THEOREM TypeCorrect == Spec => []TypeOK
<1>1. Inv => TypeOK
  BY DEF Inv
<1> QED BY InitInv, NextInv, <1>1, PTL DEF Spec

\* A caller told that its command was not sent ("unsent", "overloaded") may repeat it:
\* whichever of refusal, drain, timeout and failure told it, no frame reached the socket.
THEOREM UnsentMeansUnsent == Spec => []UnsentIsUnsent
<1>1. Inv => UnsentIsUnsent
  BY DEF Inv, Stage, UnsentIsUnsent
<1> QED BY InitInv, NextInv, <1>1, PTL DEF Spec

\* The credits cover what the server still works on, whatever limit WINDOW_UPDATE sets
\* and whichever requests have timed out.
THEOREM TheServerWindowIsKept == Spec => []ServerCreditsKept
<1>1. Inv => ServerCreditsKept
  BY DEF Inv, Stage, WindowOK, ServerCreditsKept, Requests
<1> QED BY InitInv, NextInv, <1>1, PTL DEF Spec

\* Takes, failures and drains leave no credit, control slot, queued frame, buffered chunk or
\* waiter behind, and give none back twice.
THEOREM NothingIsLeftBehind == Spec => []NothingLeaks
<1>1. Inv => NothingLeaks
  <2> SUFFICES ASSUME Inv PROVE NothingLeaks
    OBVIOUS
  <2>1. TypeOK /\ WindowOK /\ WritesOK /\ LifeOK /\ Data \subseteq Requests
    BY DEF Inv, Requests
  <2>2. \A r \in Requests : chunks[r] > 0 => r \in Pending \ timedOut
    BY DEF Inv, Stage, Pending
  <2>3. ASSUME NEW r \in Requests \ {Ping}
        PROVE  st[r] = "done" <=> (outcome[r] # "none" /\ r \notin timedOut)
    <3>1. Stage(r) /\ st[r] \in {"idle", "waiting", "granted", "pending", "done"}
      BY <2>1, <2>3 DEF Inv, TypeOK
    <3> QED BY <2>3, <3>1 DEF Stage
  <2>4. credits = {r \in Data : st[r] = "granted" \/ st[r] = "pending"}
    BY <2>1 DEF WindowOK
  <2>5. totalFrames = Cardinality(Buffered(Requests)) /\ totalFrames <= MaxChunkFrames
    BY DEF Inv, FramesOK
  <2> QED BY <2>1, <2>2, <2>3, <2>4, <2>5 DEF NothingLeaks, WindowOK, WritesOK, LifeOK
<1> QED BY InitInv, NextInv, <1>1, PTL DEF Spec

\* A step hands no frame to the socket while the connection drains, but the heartbeat's.
LEMMA DrainingStep ==
    ASSUME Inv, Next, draining, NEW r \in Requests \ {Ping}, server'[r] = "owns"
    PROVE  server[r] = "owns"
<1>1. TypeOK /\ r \in Requests /\ r # Ping
  BY DEF Inv
<1>2. ASSUME NEW q \in Requests, NEW x \in {"answered", "lost"}, server' = [server EXCEPT ![q] = x]
      PROVE  server[r] = "owns"
  BY <1>1, <1>2 DEF TypeOK
<1>3. CASE UNCHANGED server
  BY <1>3
<1>4. ASSUME NEW q \in Requests, Request(q) \/ Resume(q) PROVE UNCHANGED server
  BY <1>4 DEF Request, RequestRefused, RequestControl, RequestData, RequestWaits,
              Resume, ResumeRefused, ResumeSends
<1>5. ASSUME NEW q \in Requests, Frame(q) \/ WriteFails(q) PROVE server[r] = "owns"
  BY <1>2, <1>3, <1>5 DEF Frame, FinalFrame, ChunkFrame, StrayFrame, FrameOverflow, FailAll, fate, WriteFails
<1>6. ASSUME NEW q \in Requests, CreditTimeout(q) \/ Timeout(q) \/ GraceExpires(q) PROVE UNCHANGED server
  BY <1>6 DEF CreditTimeout, Timeout, ToldOfTimeout, GraceExpires, FailAll
<1>7. ASSUME NEW n \in Limits, WindowUpdate(n) PROVE UNCHANGED server
  BY <1>7 DEF WindowUpdate
<1>8. ASSUME NEW n \in 0..Len(writes), NEW F \in SUBSET {writes[i] : i \in 1..n}, Flush(n, F)
      PROVE  server[r] = "owns"
  <2>1. server'[r] = IF r \in {writes[i] : i \in 1..n} \ F THEN "owns" ELSE server[r]
    BY <1>1, <1>8 DEF Flush
  <2>2. Len(writes) \in Nat /\ Items(writes) \subseteq {Ping}
    BY <1>1 DEF TypeOK, Inv, WritesOK
  <2>3. {writes[i] : i \in 1..n} \subseteq {Ping}
    BY <2>2 DEF Items
  <2> QED BY <1>1, <2>1, <2>3
<1>9. CASE GoAway \/ Retire \/ ConnectionFails
  BY <1>9 DEF GoAway, Retire, BeginDraining, ConnectionFails, FailAll
<1>10. CASE HeartbeatTick \/ HeartbeatContinues
  <2>1. CASE UNCHANGED server
    BY <2>1
  <2>2. CASE HeartbeatTick /\ (SendNow(Ping) \/ SendLater(Ping))
    <3>1. server'[r] = server[r]
      BY <1>1, <2>2 DEF SendNow, SendLater, TypeOK
    <3> QED BY <3>1
  <2> QED BY <1>10, <2>1, <2>2 DEF HeartbeatTick, ControlSend, HeartbeatContinues, FailAll
<1> QED BY <1>3, <1>4, <1>5, <1>6, <1>7, <1>8, <1>9, <1>10 DEF Next

\* After GOAWAY, or once retired, neither a resumed waiter nor a flushed frame nor a new
\* request reaches the server.
THEOREM OnlyPingsAreSentWhileDraining == Spec => OnlyPingsAfterGoAway
<1> DEFINE Quiet == \A r \in Requests \ {Ping} : draining /\ server'[r] = "owns" => server[r] = "owns"
<1>1. Inv /\ [Next]_vars => [Quiet]_vars
  <2> SUFFICES ASSUME Inv, Next PROVE Quiet
    OBVIOUS
  <2> QED BY DrainingStep
<1>2. Spec => [][Quiet]_vars
  <2> HIDE DEF Quiet
  <2> QED BY InitInv, NextInv, <1>1, PTL DEF Spec
<1> QED BY <1>2 DEF OnlyPingsAfterGoAway
=============================================================================
