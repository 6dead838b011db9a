------------------------ MODULE HttpTransportProofs ------------------------
(***************************************************************************)
(* Batches over HTTP/2, for any number of batches, streams and sessions:   *)
(* every slot is given back, and a batch is executed at most once.         *)
(***************************************************************************)
EXTENDS HttpTransport, FiniteSetTheorems, FunctionTheorems, SequenceTheorems, TLAPS

\* Finitely many batches are posted; limits are numbers.
Sensible == /\ IsFiniteSet(Batches)
            /\ MaxConnections \in Nat
            /\ RemoteLimits \subseteq Nat
            /\ MaxSessionFaults \in Nat

\* The places of a batch where it has a slot.
Holding == {"granted", "streaming", "executed", "broken"}

Moving == {"waiting", "rejected"} \cup Holding

BatchRecord == [pc : {"idle", "done"} \cup Moving, on : Nat, attempt : {0, 1}, replay : {0, 1},
                redirects : Nat, abort : {"no", "timeout", "closed"}, executed : Nat,
                result : {"none", "ok", "unsent", "safe_to_retry", "possibly_sent"}]

PoolRecord == [state : {"absent", "open", "leaving", "destroyed"}, limit : 0..Unknown, active : Nat,
               waiters : Seq(Batches), retired : BOOLEAN, whenIdle : BOOLEAN]

Worlds == [batch : [Batches -> BatchRecord], pool : [Sessions -> PoolRecord],
           session : Sessions \cup {Nobody}, all : SUBSET Sessions]

TypeOK == World \in Worlds /\ transportClosed \in BOOLEAN /\ detours \in Nat /\ sessionFaults \in Nat

---------------------------------------------------------------------------
(* The worlds of a step.  The batches X are in the hands of the step: they *)
(* are not counted.                                                        *)

Items(q) == {q[i] : i \in 1..Len(q)}
Distinct(q) == \A i, j \in 1..Len(q) : q[i] = q[j] => i = j

Held(w, X, s) == {b \in Batches \ X : w.batch[b].pc \in Holding /\ w.batch[b].on = s}
Queued(w, X, s) == {b \in Batches \ X : w.batch[b].pc = "waiting" /\ w.batch[b].on = s}

\* The slots of a session, whoever may be next.
Counted(w, X, s) ==
    /\ w.pool[s].active = Cardinality(Held(w, X, s)) /\ w.pool[s].active <= MaxConnections
    /\ Items(w.pool[s].waiters) = Queued(w, X, s)
    /\ Distinct(w.pool[s].waiters)
    /\ w.pool[s].state \in {"absent", "open"} => ~w.pool[s].retired /\ ~w.pool[s].whenIdle
    /\ w.pool[s].waiters # <<>> => ~w.pool[s].retired
    /\ w.pool[s].state = "absent" => w.pool[s].active = 0 /\ w.pool[s].waiters = <<>>

\* Nobody waits for a free slot, and close() finds every session that somebody waits for.
Served(w, s) ==
    /\ w.pool[s].waiters # <<>> => ~HasSlot(w.pool[s])
    /\ w.pool[s].waiters # <<>> \/ w.pool[s].state = "open" => s \in w.all

\* What is known of the execution of a batch where it stands.
Honest(r) ==
    /\ r.pc \in {"idle", "waiting", "granted", "rejected", "streaming", "broken"} =>
         r.executed = 0 /\ r.result = "none"
    /\ r.pc = "executed" => r.executed = 1 /\ r.result = "none"
    /\ r.pc = "done" => /\ r.executed <= 1
                        /\ r.result \in {"unsent", "safe_to_retry"} => r.executed = 0
                        /\ r.result = "ok" => r.executed = 1
    /\ r.pc \in Holding \cup {"waiting"} => r.on \in Sessions

Sound(w, X) ==
    /\ w \in Worlds
    /\ \A s \in Sessions : Counted(w, X, s) /\ Served(w, s)
    /\ \A b \in Batches \ X : Honest(w.batch[b])

\* Sound, but for the batch that the step works on.
SoundBut(w, b) == Sound(w, {b})

\* Sessions are opened in their order, one for each fault and the one in use.
Opened(w, f) ==
    \E n \in 0..f + (IF TakesStreams(w) THEN 1 ELSE 0) :
        \A s \in Sessions : w.pool[s].state # "absent" <=> s <= n

AllAborted(w) == \A b \in Batches : w.batch[b].pc \in Moving => w.batch[b].abort # "no"

Inv == /\ TypeOK
       /\ Sound(World, {})
       /\ sessionFaults <= MaxSessionFaults
       /\ ~transportClosed => Opened(World, sessionFaults)
       /\ transportClosed => AllAborted(World)

---------------------------------------------------------------------------
(* Sequences.                                                              *)

\* A new waiter is the last one.
LEMMA AppendItems ==
    ASSUME NEW S, NEW s \in Seq(S), NEW x \in S
    PROVE  Append(s, x) \in Seq(S) /\ Items(Append(s, x)) = Items(s) \cup {x}
<1>1. /\ Append(s, x) \in Seq(S) /\ Len(s) \in Nat /\ Len(Append(s, x)) = Len(s) + 1
      /\ Append(s, x)[Len(s) + 1] = x /\ \A i \in 1..Len(s) : Append(s, x)[i] = s[i]
  OBVIOUS
<1>2. 1..(Len(s) + 1) = (1..Len(s)) \cup {Len(s) + 1}
  BY <1>1
<1> QED BY <1>1, <1>2 DEF Items

\* Nobody waits twice when somebody new is added.
LEMMA AppendDistinct ==
    ASSUME NEW S, NEW s \in Seq(S), NEW x \in S, Distinct(s), x \notin Items(s)
    PROVE  Distinct(Append(s, x))
<1>1. /\ Len(s) \in Nat /\ Len(Append(s, x)) = Len(s) + 1 /\ Append(s, x)[Len(s) + 1] = x
      /\ \A i \in 1..Len(s) : Append(s, x)[i] = s[i] /\ s[i] # x
  BY DEF Items
<1>2. \A i \in 1..(Len(s) + 1) : i \in 1..Len(s) \/ i = Len(s) + 1
  BY <1>1
<1> QED BY <1>1, <1>2 DEF Distinct

Front(s, n) == {s[i] : i \in 1..n}
Rest(s, n) == SubSeq(s, n + 1, Len(s))

\* The first n items of s, and the others.
LEMMA FrontAndRest ==
    ASSUME NEW S, NEW s \in Seq(S), Distinct(s), NEW n \in 0..Len(s)
    PROVE  /\ Rest(s, n) \in Seq(S) /\ Distinct(Rest(s, n)) /\ Len(Rest(s, n)) = Len(s) - n
           /\ Items(Rest(s, n)) = Items(s) \ Front(s, n) /\ Front(s, n) \subseteq Items(s)
           /\ IsFiniteSet(Front(s, n)) /\ Cardinality(Front(s, n)) = n
<1>1. Len(s) \in Nat /\ n \in Nat /\ n <= Len(s) /\ \A i \in 1..Len(s) : s[i] \in S
  OBVIOUS
<1>2. /\ Rest(s, n) \in Seq(S) /\ Len(Rest(s, n)) = Len(s) - n
      /\ \A i \in 1..(Len(s) - n) : Rest(s, n)[i] = s[i + n]
  BY <1>1 DEF Rest
<1>3. Distinct(Rest(s, n))
  <2> SUFFICES ASSUME NEW i \in 1..Len(Rest(s, n)), NEW j \in 1..Len(Rest(s, n)), Rest(s, n)[i] = Rest(s, n)[j] PROVE i = j
    BY DEF Distinct
  <2>1. i + n \in 1..Len(s) /\ j + n \in 1..Len(s) /\ s[i + n] = s[j + n]
    BY <1>1, <1>2
  <2>2. i + n = j + n
    BY <2>1 DEF Distinct
  <2> QED BY <1>1, <1>2, <2>2
<1>4. Front(s, n) \subseteq Items(s)
  BY <1>1 DEF Items, Front
<1>5. Items(Rest(s, n)) = Items(s) \ Front(s, n)
  <2>1. ASSUME NEW x \in Items(Rest(s, n)) PROVE x \in Items(s) \ Front(s, n)
    <3>1. PICK i \in 1..(Len(s) - n) : x = s[i + n]
      BY <1>2, <2>1 DEF Items
    <3>2. i + n \in 1..Len(s) /\ i + n \notin 1..n
      BY <1>1
    <3>3. ASSUME NEW j \in 1..n, x = s[j] PROVE FALSE
      <4>1. j \in 1..Len(s) /\ s[j] = s[i + n]
        BY <1>1, <3>1, <3>3
      <4>2. j = i + n
        BY <3>2, <4>1 DEF Distinct
      <4> QED BY <3>2, <4>2
    <3> QED BY <3>1, <3>2, <3>3 DEF Items, Front
  <2>2. ASSUME NEW x \in Items(s), x \notin Front(s, n) PROVE x \in Items(Rest(s, n))
    <3>1. PICK i \in 1..Len(s) : x = s[i]
      BY <2>2 DEF Items
    <3>2. i \notin 1..n
      BY <2>2, <3>1 DEF Front
    <3>3. i - n \in 1..(Len(s) - n) /\ (i - n) + n = i
      BY <1>1, <3>2
    <3>4. x = Rest(s, n)[i - n] /\ i - n \in 1..Len(Rest(s, n))
      BY <1>2, <3>1, <3>3
    <3> QED BY <3>4 DEF Items
  <2> QED BY <2>1, <2>2
<1>6. IsFiniteSet(Front(s, n)) /\ Cardinality(Front(s, n)) = n
  <2> DEFINE f == [i \in 1..n |-> s[i]]
  <2>1. f \in Bijection(1..n, Front(s, n))
    <3>1. f \in [1..n -> Front(s, n)] /\ \A x \in Front(s, n) : \E i \in 1..n : f[i] = x
      BY DEF Front
    <3>2. \A i, j \in 1..n : f[i] = f[j] => i = j
      BY <1>1 DEF Distinct
    <3> QED BY <3>1, <3>2, Fun_IsBij
  <2> HIDE DEF f
  <2>2. IsFiniteSet(1..n) /\ Cardinality(1..n) = n
    BY <1>1, FS_Interval
  <2>3. ExistsBijection(1..n, Front(s, n))
    BY <2>1 DEF ExistsBijection
  <2> QED BY <2>2, <2>3, FS_Bijection
<1> QED BY <1>2, <1>3, <1>4, <1>5, <1>6

\* The queue without one of its waiters.
LEMMA WithoutFacts ==
    ASSUME NEW S, NEW s \in Seq(S), Distinct(s), NEW b \in Items(s)
    PROVE  /\ Without(s, b) \in Seq(S) /\ Items(Without(s, b)) = Items(s) \ {b}
           /\ Distinct(Without(s, b))
<1> DEFINE i == CHOOSE i \in DOMAIN s : s[i] = b
           front == SubSeq(s, 1, i - 1)
           rest == SubSeq(s, i + 1, Len(s))
           n == Len(s) - 1
<1>1. i \in 1..Len(s) /\ s[i] = b /\ Len(s) \in Nat
  <2>1. \E j \in DOMAIN s : s[j] = b
    BY DEF Items
  <2> QED BY <2>1
<1>2. Without(s, b) = front \o rest
  BY DEF Without
<1> HIDE DEF i
<1>3. /\ front \in Seq(S) /\ Len(front) = i - 1 /\ \A j \in 1..(i - 1) : front[j] = s[j]
      /\ rest \in Seq(S) /\ Len(rest) = Len(s) - i /\ \A j \in 1..(Len(s) - i) : rest[j] = s[i + j]
  BY <1>1
<1> HIDE DEF front, rest
<1>4. /\ front \o rest \in Seq(S)
      /\ Len(front \o rest) = Len(front) + Len(rest)
      /\ \A j \in 1..(Len(front) + Len(rest)) :
           (front \o rest)[j] = IF j <= Len(front) THEN front[j] ELSE rest[j - Len(front)]
  BY <1>3, ConcatProperties
<1> DEFINE t == Without(s, b)
<1>5. /\ t \in Seq(S) /\ Len(t) = n /\ n \in Nat
      /\ \A j \in 1..n : t[j] = IF j < i THEN s[j] ELSE s[j + 1]
  <2>1. t \in Seq(S) /\ Len(t) = n /\ n \in Nat
    BY <1>1, <1>2, <1>3, <1>4
  <2>2. ASSUME NEW j \in 1..n PROVE t[j] = IF j < i THEN s[j] ELSE s[j + 1]
    <3>1. CASE j < i
      <4>1. j \in 1..(i - 1) /\ j <= Len(front) /\ j \in 1..(Len(front) + Len(rest))
        BY <1>1, <1>3, <3>1
      <4> QED BY <1>2, <1>3, <1>4, <3>1, <4>1
    <3>2. CASE ~(j < i)
      <4>1. /\ j - (i - 1) \in 1..(Len(s) - i) /\ ~(j <= Len(front)) /\ j \in 1..(Len(front) + Len(rest))
            /\ i + (j - (i - 1)) = j + 1
        BY <1>1, <1>3, <3>2
      <4> QED BY <1>2, <1>3, <1>4, <3>2, <4>1
    <3> QED BY <3>1, <3>2
  <2> QED BY <2>1, <2>2
<1> HIDE DEF t
<1>6. Items(t) = Items(s) \ {b}
  <2>1. ASSUME NEW x \in Items(t) PROVE x \in Items(s) \ {b}
    <3>1. PICK j \in 1..n : x = IF j < i THEN s[j] ELSE s[j + 1]
      BY <1>5, <2>1 DEF Items
    <3>2. PICK k \in 1..Len(s) : x = s[k] /\ k # i
      <4>1. CASE j < i
        BY <1>1, <3>1, <4>1
      <4>2. CASE ~(j < i)
        <5>1. j + 1 \in 1..Len(s) /\ j + 1 # i /\ x = s[j + 1]
          BY <1>1, <3>1, <4>2
        <5> QED BY <5>1
      <4> QED BY <4>1, <4>2
    <3> QED BY <1>1, <3>2 DEF Items, Distinct
  <2>2. ASSUME NEW x \in Items(s), x # b PROVE x \in Items(t)
    <3>1. PICK k \in 1..Len(s) : x = s[k] /\ k # i
      BY <1>1, <2>2 DEF Items
    <3>2. CASE k < i
      <4>1. k \in 1..n /\ t[k] = s[k]
        BY <1>1, <1>5, <3>1, <3>2
      <4> QED BY <1>5, <3>1, <4>1 DEF Items
    <3>3. CASE ~(k < i)
      <4>1. k - 1 \in 1..n /\ ~(k - 1 < i) /\ (k - 1) + 1 = k
        BY <1>1, <3>1, <3>3
      <4>2. t[k - 1] = s[k]
        BY <1>5, <4>1
      <4> QED BY <1>5, <3>1, <4>1, <4>2 DEF Items
    <3> QED BY <3>2, <3>3
  <2> QED BY <2>1, <2>2
<1>7. Distinct(t)
  <2> SUFFICES ASSUME NEW j \in 1..Len(t), NEW k \in 1..Len(t), t[j] = t[k] PROVE j = k
    BY DEF Distinct
  <2> DEFINE p == IF j < i THEN j ELSE j + 1
             q == IF k < i THEN k ELSE k + 1
  <2>1. p \in 1..Len(s) /\ q \in 1..Len(s) /\ t[j] = s[p] /\ t[k] = s[q]
    BY <1>1, <1>5
  <2>2. p = q
    BY <2>1 DEF Distinct
  <2> QED BY <1>1, <2>2
<1> QED BY <1>5, <1>6, <1>7 DEF t

---------------------------------------------------------------------------
(* Slots.                                                                  *)

\* A session's slots are counted over finite sets of batches.
LEMMA FiniteSlots ==
    ASSUME Sensible, NEW w, NEW X, NEW s
    PROVE  /\ IsFiniteSet(Held(w, X, s)) /\ Cardinality(Held(w, X, s)) \in Nat
BY FS_Subset, FS_CardinalityType DEF Sensible, Held

\* How many of the waiters get a slot.
Granted(p) == LET free == IF HasSlot(p) THEN p.limit - p.active ELSE 0
              IN  IF free < Len(p.waiters) THEN free ELSE Len(p.waiters)

LEMMA GrantedFacts ==
    ASSUME Sensible, NEW p \in PoolRecord
    PROVE  /\ Granted(p) \in 0..Len(p.waiters)
           /\ Granted(p) > 0 => HasSlot(p) /\ p.active + Granted(p) <= p.limit /\ p.limit <= MaxConnections
           /\ Granted(p) = Len(p.waiters) \/ ~HasSlot(p) \/ p.active + Granted(p) = p.limit
<1>1. p.limit \in 0..(MaxConnections + 1) /\ p.active \in Nat /\ Len(p.waiters) \in Nat /\ MaxConnections \in Nat
  BY DEF PoolRecord, Unknown, Sensible
<1>2. HasSlot(p) => p.limit \in Nat /\ p.limit <= MaxConnections /\ p.active < p.limit
  BY <1>1 DEF HasSlot, Unknown
<1> QED BY <1>1, <1>2 DEF Granted

\* What drain does, field by field.
LEMMA DrainFields ==
    ASSUME Sensible, NEW w \in Worlds, NEW s \in Sessions
    PROVE  LET v == Drain(w, s)
               p == w.pool[s]
               n == Granted(p)
               first == Front(p.waiters, n)
           IN  /\ v \in Worlds /\ v.session = w.session /\ v.all = w.all
               /\ \A t \in Sessions : t # s => v.pool[t] = w.pool[t]
               /\ v.pool[s].active = p.active + n /\ v.pool[s].waiters = Rest(p.waiters, n)
               /\ v.pool[s].state = p.state /\ v.pool[s].limit = p.limit
               /\ v.pool[s].retired = p.retired /\ v.pool[s].whenIdle = p.whenIdle
               /\ \A b \in Batches : v.batch[b] = IF b \in first THEN [w.batch[b] EXCEPT !.pc = "granted"]
                                                  ELSE w.batch[b]
<1> DEFINE v == Drain(w, s)
           p == w.pool[s]
           n == Granted(p)
           first == Front(p.waiters, n)
           q == [p EXCEPT !.active = @ + n, !.waiters = Rest(@, n)]
           u == [b \in Batches |-> IF b \in first THEN [w.batch[b] EXCEPT !.pc = "granted"] ELSE w.batch[b]]
<1>1. p \in PoolRecord /\ w.batch \in [Batches -> BatchRecord] /\ w.pool \in [Sessions -> PoolRecord]
  BY DEF Worlds
<1>2. n \in 0..Len(p.waiters) /\ Len(p.waiters) \in Nat /\ p.waiters \in Seq(Batches)
  BY <1>1, GrantedFacts DEF PoolRecord
<1>3. p.active + n \in Nat /\ Rest(p.waiters, n) \in Seq(Batches)
  BY <1>1, <1>2 DEF PoolRecord, Rest
<1>4. v = [w EXCEPT !.pool[s] = q, !.batch = u]
  BY DEF Drain, Granted, Front, Rest
<1>5. q \in PoolRecord
  BY <1>1, <1>3 DEF PoolRecord
<1>6. u \in [Batches -> BatchRecord]
  BY <1>1 DEF BatchRecord, Moving, Holding
<1>7. /\ q.active = p.active + n /\ q.waiters = Rest(p.waiters, n) /\ q.state = p.state
      /\ q.limit = p.limit /\ q.retired = p.retired /\ q.whenIdle = p.whenIdle
  BY <1>1 DEF PoolRecord
<1>8. \A b \in Batches : u[b] = IF b \in first THEN [w.batch[b] EXCEPT !.pc = "granted"] ELSE w.batch[b]
  OBVIOUS
<1> HIDE DEF v, p, n, first, q, u
<1>9. v \in Worlds /\ v.session = w.session /\ v.all = w.all /\ v.pool = [w.pool EXCEPT ![s] = q] /\ v.batch = u
  BY <1>1, <1>4, <1>5, <1>6 DEF Worlds
<1>10. v.pool[s] = q /\ \A t \in Sessions : t # s => v.pool[t] = w.pool[t]
  BY <1>1, <1>9
<1>11. /\ v \in Worlds /\ v.session = w.session /\ v.all = w.all
       /\ \A t \in Sessions : t # s => v.pool[t] = w.pool[t]
       /\ v.pool[s].active = p.active + n /\ v.pool[s].waiters = Rest(p.waiters, n)
       /\ v.pool[s].state = p.state /\ v.pool[s].limit = p.limit
       /\ v.pool[s].retired = p.retired /\ v.pool[s].whenIdle = p.whenIdle
       /\ \A b \in Batches : v.batch[b] = IF b \in first THEN [w.batch[b] EXCEPT !.pc = "granted"]
                                          ELSE w.batch[b]
  BY <1>7, <1>8, <1>9, <1>10
<1> QED BY ONLY <1>11 DEF v, p, n, first

\* What the admission of requests and close() look at.
Alike(w, v) == /\ \A t \in Sessions : v.pool[t].state = "absent" <=> w.pool[t].state = "absent"
               /\ TakesStreams(v) <=> TakesStreams(w)
               /\ \A c \in Batches : /\ v.batch[c].abort = w.batch[c].abort
                                     /\ v.batch[c].pc \in Moving <=> w.batch[c].pc \in Moving

\* A drained session counts its slots, and leaves nobody waiting for a free one.
LEMMA DrainSound ==
    ASSUME Sensible, NEW w \in Worlds, NEW X, NEW s \in Sessions, NEW v, v = Drain(w, s),
           \A t \in Sessions : Counted(w, X, t),
           \A t \in Sessions \ {s} : Served(w, t),
           w.pool[s].waiters # <<>> \/ w.pool[s].state = "open" => s \in w.all,
           \A b \in Batches \ X : Honest(w.batch[b])
    PROVE  /\ Sound(v, X) /\ Alike(w, v)
           /\ v.session = w.session /\ v.all = w.all
           /\ \A t \in Sessions : /\ v.pool[t].state = w.pool[t].state
                                  /\ v.pool[t].whenIdle = w.pool[t].whenIdle
                                  /\ v.pool[t].retired = w.pool[t].retired
           /\ \A b \in X \cap Batches : v.batch[b] = w.batch[b]
<1> DEFINE p == w.pool[s]
           n == Granted(p)
           first == Front(p.waiters, n)
<1>0. p = w.pool[s] /\ n = Granted(w.pool[s]) /\ first = Front(w.pool[s].waiters, n)
  OBVIOUS
<1> HIDE DEF p, n, first
<1>1. /\ v \in Worlds /\ v.session = w.session /\ v.all = w.all
      /\ \A t \in Sessions : t # s => v.pool[t] = w.pool[t]
      /\ v.pool[s].active = p.active + n /\ v.pool[s].waiters = Rest(p.waiters, n)
      /\ v.pool[s].state = p.state /\ v.pool[s].limit = p.limit
      /\ v.pool[s].retired = p.retired /\ v.pool[s].whenIdle = p.whenIdle
      /\ \A b \in Batches : v.batch[b] = IF b \in first THEN [w.batch[b] EXCEPT !.pc = "granted"]
                                         ELSE w.batch[b]
  <2>1. Sensible /\ w \in Worlds /\ s \in Sessions /\ v = Drain(w, s)
    OBVIOUS
  <2> QED BY ONLY <2>1, DrainFields DEF p, n, first
<1>2. /\ p \in PoolRecord /\ p.waiters \in Seq(Batches) /\ p.active \in Nat /\ p.limit \in Nat
      /\ w.batch \in [Batches -> BatchRecord] /\ Len(p.waiters) \in Nat /\ MaxConnections \in Nat
  BY <1>0 DEF Worlds, PoolRecord, Unknown, Sensible
<1>3. /\ n \in 0..Len(p.waiters) /\ n \in Nat
      /\ n > 0 => HasSlot(p) /\ p.active + n <= p.limit /\ p.limit <= MaxConnections
      /\ n = Len(p.waiters) \/ ~HasSlot(p) \/ p.active + n = p.limit
  BY <1>0, <1>2, GrantedFacts
<1>4. /\ Rest(p.waiters, n) \in Seq(Batches) /\ Distinct(Rest(p.waiters, n))
      /\ Len(Rest(p.waiters, n)) = Len(p.waiters) - n
      /\ Items(Rest(p.waiters, n)) = Items(p.waiters) \ first /\ first \subseteq Items(p.waiters)
      /\ IsFiniteSet(first) /\ Cardinality(first) = n
  <2>1. Distinct(p.waiters)
    BY <1>0 DEF Counted
  <2>2. first = Front(p.waiters, n)
    BY <1>0
  <2> QED BY ONLY <1>2, <1>3, <2>1, <2>2, FrontAndRest
<1>6. /\ Items(p.waiters) = Queued(w, X, s)
      /\ \A b \in first : b \in Batches \ X /\ w.batch[b].pc = "waiting" /\ w.batch[b].on = s
  BY <1>0, <1>4 DEF Counted, Queued
<1>7. \A b \in Batches : /\ b \in first => /\ v.batch[b].pc = "granted" /\ v.batch[b].on = s
                                           /\ v.batch[b].abort = w.batch[b].abort
                                           /\ v.batch[b].executed = w.batch[b].executed
                                           /\ v.batch[b].result = w.batch[b].result
                         /\ b \notin first => v.batch[b] = w.batch[b]
  <2> TAKE b \in Batches
  <2>1. w.batch[b] \in BatchRecord
    BY <1>2
  <2> QED BY <1>1, <1>6, <2>1, ZenonT(30) DEF BatchRecord
<1>8. /\ Held(v, X, s) = Held(w, X, s) \cup first
      /\ Held(w, X, s) \cap first = {}
      /\ Queued(v, X, s) = Queued(w, X, s) \ first
  BY <1>6, <1>7 DEF Held, Queued, Holding
<1>9. \A t \in Sessions \ {s} : Held(v, X, t) = Held(w, X, t) /\ Queued(v, X, t) = Queued(w, X, t)
  BY <1>6, <1>7 DEF Held, Queued, Holding
<1>10. Cardinality(Held(v, X, s)) = p.active + n
  <2>1. p.active = Cardinality(Held(w, X, s)) /\ IsFiniteSet(Held(w, X, s))
    BY <1>0, FiniteSlots DEF Counted
  <2>2. Cardinality(Held(w, X, s) \cup first) = Cardinality(Held(w, X, s)) + Cardinality(first)
                                                - Cardinality(Held(w, X, s) \cap first)
    BY <1>4, <2>1, FS_Union
  <2>3. Cardinality(Held(w, X, s) \cap first) = 0
    BY <1>8, FS_EmptySet
  <2> QED BY <1>2, <1>3, <1>4, <1>8, <2>1, <2>2, <2>3
<1>11. p.waiters = <<>> => Rest(p.waiters, n) = <<>> /\ p.active + n = p.active
  BY <1>2, <1>3, <1>4
<1>12. Counted(v, X, s)
  <2>1. p.active + n <= MaxConnections
    BY <1>0, <1>2, <1>3 DEF Counted
  <2> QED BY <1>0, <1>1, <1>4, <1>6, <1>8, <1>10, <1>11, <2>1 DEF Counted
<1>13. \A t \in Sessions \ {s} : Counted(v, X, t) /\ Served(v, t)
  BY <1>1, <1>9 DEF Counted, Served
<1>14. Served(v, s)
  <2>1. ASSUME Rest(p.waiters, n) # <<>> PROVE ~HasSlot(v.pool[s])
    <3>1. n # Len(p.waiters)
      BY <1>2, <1>4, <2>1
    <3> QED BY <1>1, <1>2, <1>3, <3>1 DEF HasSlot
  <2> QED BY <1>0, <1>1, <1>11, <2>1 DEF Served
<1>15. \A b \in Batches \ X : Honest(v.batch[b])
  BY <1>6, <1>7 DEF Honest, Holding
<1>16. Alike(w, v)
  <2>1. \A t \in Sessions : v.pool[t].state = w.pool[t].state
    BY <1>0, <1>1
  <2>2. TakesStreams(v) <=> TakesStreams(w)
    BY <1>1, <2>1 DEF TakesStreams, Worlds
  <2> QED BY <1>6, <1>7, <2>1, <2>2 DEF Alike, Moving, Holding
<1> QED BY <1>0, <1>1, <1>6, <1>7, <1>12, <1>13, <1>14, <1>15, <1>16 DEF Sound

\* A session may be destroyed, and forget that it ends when it is idle.
LEMMA DestroySound ==
    ASSUME NEW w, NEW X, Sound(w, X), NEW s \in Sessions, NEW v \in Worlds,
           v.batch = w.batch, v.session = w.session, v.all = w.all,
           \A t \in Sessions \ {s} : v.pool[t] = w.pool[t],
           v.pool[s].active = w.pool[s].active, v.pool[s].limit = w.pool[s].limit,
           v.pool[s].waiters = w.pool[s].waiters, v.pool[s].retired = w.pool[s].retired,
           v.pool[s].state = "destroyed"
    PROVE  Sound(v, X)
<1>1. \A t \in Sessions : Held(v, X, t) = Held(w, X, t) /\ Queued(v, X, t) = Queued(w, X, t)
  BY DEF Held, Queued
<1>2. \A t \in Sessions : Counted(w, X, t) /\ Served(w, t)
  BY DEF Sound
<1>3. Counted(v, X, s) /\ Served(v, s)
  BY <1>1, <1>2 DEF Counted, Served, HasSlot
<1>4. \A t \in Sessions \ {s} : Counted(v, X, t) /\ Served(v, t)
  BY <1>1, <1>2 DEF Counted, Served
<1> QED BY <1>3, <1>4 DEF Sound

\* A slot that is given back goes to the next waiter, or ends a retired session.
LEMMA ReleaseSound ==
    ASSUME Sensible, NEW w, Sound(w, {}), NEW b \in Batches, w.batch[b].pc \in Holding,
           NEW s, s = w.batch[b].on, NEW v, v = Release(w, s)
    PROVE  /\ SoundBut(v, b) /\ Alike(w, v) /\ v.batch[b] = w.batch[b]
           /\ v.session = w.session
<1> DEFINE u == [w EXCEPT !.pool[s].active = @ - 1]
           d == Drain(u, s)
           e == Destroy([d EXCEPT !.pool[s].whenIdle = FALSE], s)
<1>1. /\ w \in Worlds /\ s \in Sessions /\ w.pool \in [Sessions -> PoolRecord] /\ w.pool[s] \in PoolRecord
      /\ w.pool[s].active \in Nat /\ \A t \in Sessions : Counted(w, {}, t) /\ Served(w, t)
      /\ \A c \in Batches : Honest(w.batch[c])
  <2>1. Honest(w.batch[b])
    BY DEF Sound
  <2> QED BY <2>1 DEF Sound, Honest, Worlds, PoolRecord
<1>2. /\ Held(w, {b}, s) = Held(w, {}, s) \ {b} /\ b \in Held(w, {}, s)
      /\ \A t \in Sessions \ {s} : Held(w, {b}, t) = Held(w, {}, t)
      /\ \A t \in Sessions : Queued(w, {b}, t) = Queued(w, {}, t)
  BY DEF Held, Queued, Holding
<1>3. /\ Cardinality(Held(w, {b}, s)) = w.pool[s].active - 1
      /\ w.pool[s].active - 1 \in Nat
  <2>1. /\ IsFiniteSet(Held(w, {}, s)) /\ w.pool[s].active = Cardinality(Held(w, {}, s))
        /\ Cardinality(Held(w, {b}, s)) \in Nat
    BY <1>1, FiniteSlots DEF Counted
  <2>2. Cardinality(Held(w, {}, s) \ {b}) = Cardinality(Held(w, {}, s)) - 1
    BY <1>2, <2>1, FS_RemoveElement
  <2> QED BY <1>1, <1>2, <2>1, <2>2
<1>4. /\ u \in Worlds /\ u.batch = w.batch /\ u.session = w.session /\ u.all = w.all
      /\ \A t \in Sessions : t # s => u.pool[t] = w.pool[t]
      /\ u.pool[s].active = w.pool[s].active - 1 /\ u.pool[s].waiters = w.pool[s].waiters
      /\ u.pool[s].limit = w.pool[s].limit /\ u.pool[s].state = w.pool[s].state
      /\ u.pool[s].retired = w.pool[s].retired /\ u.pool[s].whenIdle = w.pool[s].whenIdle
  BY <1>1, <1>3 DEF Worlds, PoolRecord
<1>5. Release(w, s) = IF d.pool[s].active = 0 /\ d.pool[s].whenIdle THEN e ELSE d
  BY DEF Release
<1> HIDE DEF u
<1>6. \A t \in Sessions : Held(u, {b}, t) = Held(w, {b}, t) /\ Queued(u, {b}, t) = Queued(w, {b}, t)
  BY <1>4 DEF Held, Queued
<1>7. \A t \in Sessions \ {s} : Counted(u, {b}, t) /\ Served(u, t)
  <2> TAKE t \in Sessions \ {s}
  <2>1. u.pool[t] = w.pool[t] /\ Counted(w, {}, t) /\ Served(w, t) /\ u.all = w.all
    BY <1>1, <1>4
  <2>2. Held(u, {b}, t) = Held(w, {}, t) /\ Queued(u, {b}, t) = Queued(w, {}, t)
    BY <1>2, <1>6
  <2> QED BY ONLY <2>1, <2>2 DEF Counted, Served
<1>8. Counted(u, {b}, s)
  <2>1. w.pool[s].active - 1 <= MaxConnections
    BY <1>1, <1>3 DEF Counted, Sensible
  <2>2. w.pool[s].state # "absent"
    BY <1>1, <1>3 DEF Counted
  <2> QED BY <1>1, <1>2, <1>3, <1>4, <1>6, <2>1, <2>2, ZenonT(30) DEF Counted
<1>9. u.pool[s].waiters # <<>> \/ u.pool[s].state = "open" => s \in u.all
  BY <1>1, <1>4 DEF Served
<1>10. \A c \in Batches \ {b} : Honest(u.batch[c])
  BY <1>1, <1>4
<1>11. /\ Sound(d, {b}) /\ Alike(u, d)
       /\ d.session = u.session /\ d.all = u.all
       /\ \A t \in Sessions : /\ d.pool[t].state = u.pool[t].state
                              /\ d.pool[t].whenIdle = u.pool[t].whenIdle
                              /\ d.pool[t].retired = u.pool[t].retired
       /\ d.batch[b] = u.batch[b]
  <2> DEFINE X == {b}
  <2>1. Sensible /\ u \in Worlds /\ s \in Sessions /\ b \in X \cap Batches
    BY <1>1, <1>4
  <2>2. \A t \in Sessions : Counted(u, X, t)
    BY <1>7, <1>8
  <2>3. \A t \in Sessions \ {s} : Served(u, t)
    BY <1>7
  <2>4. \A c \in Batches \ X : Honest(u.batch[c])
    BY <1>10
  <2> HIDE DEF X
  <2>5. /\ Sound(d, X) /\ Alike(u, d)
        /\ d.session = u.session /\ d.all = u.all
        /\ \A t \in Sessions : /\ d.pool[t].state = u.pool[t].state
                               /\ d.pool[t].whenIdle = u.pool[t].whenIdle
                               /\ d.pool[t].retired = u.pool[t].retired
        /\ \A c \in X \cap Batches : d.batch[c] = u.batch[c]
    BY ONLY <1>9, <2>1, <2>2, <2>3, <2>4, DrainSound
  <2> QED BY <2>1, <2>5 DEF X
<1>12. Alike(w, d) /\ d.session = w.session /\ d.batch[b] = w.batch[b]
  <2>1. \A t \in Sessions : u.pool[t].state = w.pool[t].state
    BY <1>4
  <2>2. Alike(w, u)
    BY <1>1, <1>4, <2>1 DEF Alike, TakesStreams, Worlds
  <2> QED BY <1>4, <1>11, <2>2 DEF Alike
<1>13. CASE d.pool[s].active = 0 /\ d.pool[s].whenIdle
  <2>1. d \in Worlds /\ d.pool \in [Sessions -> PoolRecord] /\ d.pool[s] \in PoolRecord
    BY <1>1, <1>11 DEF Sound, Worlds
  <2>2. d.pool[s].state \notin {"absent", "open"}
    BY <1>1, <1>11, <1>13 DEF Sound, Counted
  <2> HIDE DEF d
  <2>3. /\ e \in Worlds /\ e.batch = d.batch /\ e.session = d.session /\ e.all = d.all
        /\ \A t \in Sessions \ {s} : e.pool[t] = d.pool[t]
        /\ e.pool[s].active = d.pool[s].active /\ e.pool[s].limit = d.pool[s].limit
        /\ e.pool[s].waiters = d.pool[s].waiters /\ e.pool[s].retired = d.pool[s].retired
        /\ e.pool[s].state = "destroyed"
    BY <1>1, <2>1 DEF Destroy, Worlds, PoolRecord
  <2> HIDE DEF e
  <2>4. Sound(e, {b})
    BY <1>1, <1>11, <2>3, DestroySound
  <2>5. Alike(w, e)
    <3>1. TakesStreams(e) <=> TakesStreams(d)
      BY <1>1, <2>1, <2>2, <2>3 DEF TakesStreams, Worlds
    <3>2. \A t \in Sessions : e.pool[t].state = "absent" <=> d.pool[t].state = "absent"
      BY <2>2, <2>3
    <3> QED BY <1>12, <2>3, <3>1, <3>2 DEF Alike
  <2> QED BY <1>5, <1>12, <1>13, <2>3, <2>4, <2>5 DEF SoundBut
<1> QED BY <1>5, <1>11, <1>12, <1>13 DEF SoundBut

\* When a session may be retired: its slots are counted, and nobody else waits for a free one.
Retirable(w, X, s, how) ==
    /\ how = "destroy" \/ w.pool[s].state \in {"leaving", "destroyed"}
    /\ w.pool[s].state # "absent"
    /\ \A t \in Sessions : Counted(w, X, t)
    /\ \A t \in Sessions \ {s} : Served(w, t)
    /\ \A b \in Batches \ X : Honest(w.batch[b])

\* What retiring changes.
Retired(w, v, X, s) ==
    /\ v.session = (IF w.session = s THEN Nobody ELSE w.session) /\ v.all = w.all
    /\ \A t \in Sessions : t # s => v.pool[t] = w.pool[t]
    /\ v.pool[s].state \in {w.pool[s].state, "destroyed"}
    /\ \A b \in Batches : /\ v.batch[b].abort = w.batch[b].abort
                          /\ v.batch[b].pc \in Moving <=> w.batch[b].pc \in Moving
                          /\ b \in X \/ w.batch[b].pc # "waiting" => v.batch[b] = w.batch[b]

\* Whoever waits for a slot of a retired session is rejected; its streams keep theirs.
LEMMA RetireSound ==
    ASSUME Sensible, NEW w \in Worlds, NEW X, NEW s \in Sessions, NEW how, Retirable(w, X, s, how),
           NEW v, v = RetireSession(w, s, how)
    PROVE  Sound(v, X) /\ Retired(w, v, X, s)
<1>0. /\ how = "destroy" \/ w.pool[s].state \in {"leaving", "destroyed"}
      /\ w.pool[s].state # "absent"
      /\ \A t \in Sessions : Counted(w, X, t)
      /\ \A t \in Sessions \ {s} : Served(w, t)
      /\ \A b \in Batches \ X : Honest(w.batch[b])
  BY DEF Retirable
<1> DEFINE p == w.pool[s]
           idle == how = "when idle" /\ p.active = 0
           later == p.whenIdle \/ (how = "when idle" /\ ~idle)
           rejected == {b \in Batches : \E i \in DOMAIN p.waiters : p.waiters[i] = b}
           q == [p EXCEPT !.retired = TRUE, !.limit = Unknown, !.waiters = <<>>, !.whenIdle = later]
           u == [b \in Batches |-> IF b \in rejected THEN [w.batch[b] EXCEPT !.pc = "rejected"]
                                   ELSE w.batch[b]]
           r == [w EXCEPT !.session = IF @ = s THEN Nobody ELSE @, !.pool[s] = q, !.batch = u]
           e == Destroy(r, s)
<1>1. v = IF how = "destroy" \/ idle THEN e ELSE r
  BY DEF RetireSession
<1>2. /\ p \in PoolRecord /\ w.batch \in [Batches -> BatchRecord] /\ w.pool \in [Sessions -> PoolRecord]
      /\ p.waiters \in Seq(Batches) /\ w.session \in Sessions \cup {Nobody}
      /\ \A b \in Batches : w.batch[b] \in BatchRecord
  BY DEF Worlds, PoolRecord
<1>3. Counted(w, X, s)
  BY <1>0
<1>4. rejected = Queued(w, X, s)
  <2>1. rejected = Items(p.waiters)
    BY <1>2 DEF Items
  <2> QED BY <1>3, <2>1 DEF Counted
<1>5. /\ q \in PoolRecord /\ q.active = p.active /\ q.state = p.state /\ q.retired = TRUE
      /\ q.waiters = <<>>
  <2>1. Unknown \in 0..Unknown /\ <<>> \in Seq(Batches)
    BY DEF Unknown, Sensible
  <2>2. later \in BOOLEAN
    BY <1>2 DEF PoolRecord
  <2> HIDE DEF later
  <2> QED BY <1>2, <2>1, <2>2 DEF PoolRecord
<1>6. u \in [Batches -> BatchRecord]
  <2>1. \A b \in Batches : [w.batch[b] EXCEPT !.pc = "rejected"] \in BatchRecord
    BY <1>2, ZenonT(30) DEF BatchRecord, Moving
  <2> HIDE DEF rejected
  <2> QED BY <1>2, <2>1
<1>7. \A b \in Batches : /\ b \in rejected => /\ u[b].pc = "rejected" /\ w.batch[b].pc = "waiting"
                                              /\ u[b].abort = w.batch[b].abort
                                              /\ u[b].executed = w.batch[b].executed
                                              /\ u[b].result = w.batch[b].result
                                              /\ b \notin X /\ w.batch[b].on = s
                         /\ b \notin rejected => u[b] = w.batch[b]
  <2>1. ASSUME NEW b \in rejected PROVE b \in Batches \ X /\ w.batch[b].pc = "waiting" /\ w.batch[b].on = s
    BY <1>4, <2>1 DEF Queued
  <2>2. ASSUME NEW b \in rejected PROVE u[b] = [w.batch[b] EXCEPT !.pc = "rejected"]
    BY <2>1, <2>2
  <2>3. \A b \in Batches : b \notin rejected => u[b] = w.batch[b]
    OBVIOUS
  <2> HIDE DEF rejected, u
  <2> TAKE b \in Batches
  <2>4. w.batch[b] \in BatchRecord
    BY <1>2
  <2>5. CASE b \in rejected
    BY <2>1, <2>2, <2>4, <2>5 DEF BatchRecord
  <2> QED BY <2>3, <2>5
<1> HIDE DEF q, u, rejected
<1>8. /\ r \in Worlds /\ r.session = (IF w.session = s THEN Nobody ELSE w.session) /\ r.all = w.all
      /\ r.pool = [w.pool EXCEPT ![s] = q] /\ r.batch = u
  BY <1>2, <1>5, <1>6 DEF Worlds
<1> HIDE DEF r
<1>9. /\ e \in Worlds /\ e.session = r.session /\ e.all = w.all /\ e.batch = u
      /\ \A t \in Sessions : t # s => e.pool[t] = w.pool[t]
      /\ e.pool[s].active = q.active /\ e.pool[s].waiters = <<>> /\ e.pool[s].retired = TRUE
      /\ e.pool[s].state = "destroyed"
  <2>1. /\ r \in Worlds /\ r.pool = [w.pool EXCEPT ![s] = q] /\ w.pool \in [Sessions -> PoolRecord]
        /\ q \in PoolRecord /\ q.waiters = <<>> /\ q.retired = TRUE /\ s \in Sessions
    BY <1>2, <1>5, <1>8
  <2>2. [q EXCEPT !.state = "destroyed"] \in PoolRecord
    BY <2>1 DEF PoolRecord
  <2>3. /\ e \in Worlds /\ e.session = r.session /\ e.all = r.all /\ e.batch = r.batch
        /\ e.pool = [r.pool EXCEPT ![s] = [q EXCEPT !.state = "destroyed"]]
    BY ONLY <2>1, <2>2 DEF e, Destroy, Worlds
  <2>4. /\ e.pool[s] = [q EXCEPT !.state = "destroyed"]
        /\ \A t \in Sessions : t # s => e.pool[t] = w.pool[t]
    BY ONLY <2>1, <2>3
  <2> QED BY <1>8, <2>1, <2>3, <2>4 DEF PoolRecord
<1> HIDE DEF e, idle
<1>10. /\ v \in Worlds /\ v.session = r.session /\ v.all = w.all /\ v.batch = u
       /\ \A t \in Sessions : t # s => v.pool[t] = w.pool[t]
       /\ v.pool[s].active = p.active /\ v.pool[s].waiters = <<>> /\ v.pool[s].retired = TRUE
       /\ v.pool[s].state \in {p.state, "destroyed"} /\ v.pool[s].state \in {"leaving", "destroyed"}
  BY <1>0, <1>1, <1>2, <1>5, <1>8, <1>9
<1>11. /\ \A t \in Sessions : Held(v, X, t) = Held(w, X, t)
       /\ \A t \in Sessions \ {s} : Queued(v, X, t) = Queued(w, X, t)
       /\ Queued(v, X, s) = {}
  BY <1>4, <1>7, <1>10 DEF Held, Queued, Holding
<1>12. Counted(v, X, s) /\ Served(v, s)
  <2>1. Items(v.pool[s].waiters) = {} /\ Distinct(v.pool[s].waiters)
    BY <1>10 DEF Items, Distinct
  <2> QED BY <1>3, <1>10, <1>11, <2>1 DEF Counted, Served
<1>13. \A t \in Sessions \ {s} : Counted(v, X, t) /\ Served(v, t)
  <2> TAKE t \in Sessions \ {s}
  <2>1. v.pool[t] = w.pool[t] /\ Counted(w, X, t) /\ Served(w, t) /\ v.all = w.all
    BY <1>0, <1>10
  <2> QED BY ONLY <1>11, <2>1, t \in Sessions \ {s} DEF Counted, Served
<1>14. \A b \in Batches \ X : Honest(v.batch[b])
  BY <1>0, <1>7, <1>10 DEF Honest, Holding
<1> QED BY <1>7, <1>8, <1>10, <1>12, <1>13, <1>14 DEF Sound, Moving, Retired

---------------------------------------------------------------------------
(* Requests.                                                               *)

Placed(w, b, r) == [w EXCEPT !.batch[b] = r]

\* A batch in the hands of the step may stand anywhere.
LEMMA WithBatch ==
    ASSUME NEW w, NEW b \in Batches, SoundBut(w, b), NEW r \in BatchRecord, NEW v, v = Placed(w, b, r)
    PROVE  /\ SoundBut(v, b) /\ v.batch[b] = r
           /\ v.pool = w.pool /\ v.session = w.session /\ v.all = w.all
           /\ \A c \in Batches : c # b => v.batch[c] = w.batch[c]
<1>1. w \in Worlds /\ w.batch \in [Batches -> BatchRecord]
  BY DEF SoundBut, Sound, Worlds
<1>2. /\ v \in Worlds /\ v.batch[b] = r
      /\ v.pool = w.pool /\ v.session = w.session /\ v.all = w.all
      /\ \A c \in Batches : c # b => v.batch[c] = w.batch[c]
  BY <1>1 DEF Worlds, Placed
<1>3. \A t \in Sessions : Held(v, {b}, t) = Held(w, {b}, t) /\ Queued(v, {b}, t) = Queued(w, {b}, t)
  BY <1>2 DEF Held, Queued
<1>4. \A t \in Sessions : Counted(v, {b}, t) /\ Served(v, t)
  <2> TAKE t \in Sessions
  <2>1. Counted(w, {b}, t) /\ Served(w, t)
    BY DEF SoundBut, Sound
  <2> QED BY ONLY <1>2, <1>3, <2>1, t \in Sessions DEF Counted, Served
<1> QED BY <1>2, <1>4 DEF SoundBut, Sound

\* A batch that neither holds a slot nor waits leaves the hands of the step.
LEMMA FreeSound ==
    ASSUME NEW w, NEW b \in Batches, SoundBut(w, b), Honest(w.batch[b]), w.batch[b].pc \notin Holding \cup {"waiting"}
    PROVE  Sound(w, {})
<1>1. \A t \in Sessions : Held(w, {b}, t) = Held(w, {}, t) /\ Queued(w, {b}, t) = Queued(w, {}, t)
  BY DEF Held, Queued
<1>2. \A t \in Sessions : Counted(w, {}, t) /\ Served(w, t)
  <2> TAKE t \in Sessions
  <2>1. Counted(w, {b}, t) /\ Served(w, t)
    BY DEF SoundBut, Sound
  <2> QED BY ONLY <1>1, <2>1, t \in Sessions DEF Counted
<1> QED BY <1>2 DEF SoundBut, Sound

\* And back: a batch outside the slots is taken into the hands of the step.
LEMMA TakeSound ==
    ASSUME NEW w, NEW b \in Batches, Sound(w, {}), w.batch[b].pc \notin Holding \cup {"waiting"}
    PROVE  SoundBut(w, b)
<1>1. \A t \in Sessions : Held(w, {b}, t) = Held(w, {}, t) /\ Queued(w, {b}, t) = Queued(w, {}, t)
  BY DEF Held, Queued
<1>2. \A t \in Sessions : Counted(w, {b}, t) /\ Served(w, t)
  <2> TAKE t \in Sessions
  <2>1. Counted(w, {}, t) /\ Served(w, t)
    BY DEF SoundBut, Sound
  <2> QED BY ONLY <1>1, <2>1, t \in Sessions DEF Counted
<1> QED BY <1>2 DEF SoundBut, Sound

\* A batch gets its result.
LEMMA FinishSound ==
    ASSUME NEW w, NEW b \in Batches, SoundBut(w, b), NEW result \in {"ok", "unsent", "safe_to_retry", "possibly_sent"},
           w.batch[b].executed <= 1,
           result \in {"unsent", "safe_to_retry"} => w.batch[b].executed = 0,
           result = "ok" => w.batch[b].executed = 1,
           NEW v, v = Finish(w, b, result)
    PROVE  /\ Sound(v, {}) /\ v.batch[b].pc = "done"
           /\ v.pool = w.pool /\ v.session = w.session /\ v.all = w.all
           /\ \A c \in Batches : c # b => v.batch[c] = w.batch[c]
<1> DEFINE r == [NoBatch EXCEPT !.pc = "done", !.executed = w.batch[b].executed, !.result = result]
<1>1. w.batch[b] \in BatchRecord
  BY DEF SoundBut, Sound, Worlds
<1>2. r \in BatchRecord /\ Honest(r) /\ r.pc = "done"
  BY <1>1 DEF BatchRecord, NoBatch, Nobody, Honest, Holding, Moving
<1>3. v = Placed(w, b, r)
  BY DEF Finish, Placed
<1> HIDE DEF r
<1>4. /\ SoundBut(v, b) /\ v.batch[b] = r
      /\ v.pool = w.pool /\ v.session = w.session /\ v.all = w.all
      /\ \A c \in Batches : c # b => v.batch[c] = w.batch[c]
  <2>1. b \in Batches /\ SoundBut(w, b) /\ r \in BatchRecord
    BY <1>2
  <2> QED BY ONLY <2>1, <1>3, WithBatch
<1>5. Sound(v, {})
  BY <1>2, <1>4, FreeSound DEF Holding
<1> QED BY <1>2, <1>4, <1>5

\* A new session is there when it is needed.
LEMMA ConnectSound ==
    ASSUME Sensible, NEW w, NEW b \in Batches, SoundBut(w, b), NEW f \in 0..MaxSessionFaults, Opened(w, f),
           NEW v, v = Connects(w)
    PROVE  /\ SoundBut(v, b) /\ Opened(v, f) /\ TakesStreams(v)
           /\ v.batch = w.batch /\ v.session \in Sessions /\ v.session \in v.all
<1> DEFINE s == CHOOSE s \in Sessions : /\ w.pool[s].state = "absent"
                                        /\ \A n \in 1..s - 1 : w.pool[n].state # "absent"
           u == [w EXCEPT !.pool[s].state = "open", !.session = s, !.all = @ \cup {s}]
<1>1. /\ w \in Worlds /\ w.pool \in [Sessions -> PoolRecord] /\ w.session \in Sessions \cup {Nobody}
      /\ w.all \in SUBSET Sessions /\ Sessions = 1..(MaxSessionFaults + 1) /\ MaxSessionFaults \in Nat /\ f \in Nat
      /\ \A t \in Sessions : Counted(w, {b}, t) /\ Served(w, t)
      /\ \A c \in Batches \ {b} : Honest(w.batch[c])
  <2>1. w \in Worlds /\ \A t \in Sessions : Counted(w, {b}, t) /\ Served(w, t)
    BY DEF SoundBut, Sound
  <2>2. \A c \in Batches \ {b} : Honest(w.batch[c])
    BY DEF SoundBut, Sound
  <2>3. Sessions = 1..(MaxSessionFaults + 1) /\ MaxSessionFaults \in Nat /\ f \in Nat
    BY DEF Sessions, Sensible
  <2> QED BY ONLY <2>1, <2>2, <2>3 DEF Worlds
<1>2. CASE TakesStreams(w)
  BY <1>1, <1>2 DEF Connects, TakesStreams, Served
<1>3. CASE ~TakesStreams(w)
  <2>1. PICK n \in 0..f : \A t \in Sessions : w.pool[t].state # "absent" <=> t <= n
    <3>1. PICK n \in 0..f + 0 : \A t \in Sessions : w.pool[t].state # "absent" <=> t <= n
      BY <1>3 DEF Opened
    <3>2. n \in 0..f
      BY <1>1, <3>1
    <3> QED BY ONLY <3>1, <3>2
  <2>2. v = u
    BY <1>3 DEF Connects
  <2>3. s = n + 1 /\ s \in Sessions /\ w.pool[s].state = "absent"
    <3>1. n + 1 \in Sessions /\ n \in Nat
      BY <1>1, <2>1
    <3>2. w.pool[n + 1].state = "absent" /\ \A m \in 1..(n + 1) - 1 : w.pool[m].state # "absent"
      BY <1>1, <2>1, <3>1
    <3>3. s \in Sessions /\ w.pool[s].state = "absent" /\ \A m \in 1..s - 1 : w.pool[m].state # "absent"
      BY <3>1, <3>2
    <3> HIDE DEF s
    <3>4. s > n
      BY <1>1, <2>1, <3>1, <3>3
    <3>5. ~(s > n + 1)
      <4> SUFFICES ASSUME s > n + 1 PROVE FALSE
        OBVIOUS
      <4>1. n + 1 \in 1..s - 1
        BY <1>1, <3>1, <3>3
      <4> QED BY <3>2, <3>3, <4>1
    <3> QED BY <1>1, <3>1, <3>3, <3>4, <3>5
  <2> HIDE DEF s
  <2>4. /\ v \in Worlds /\ v.batch = w.batch /\ v.session = s /\ v.all = w.all \cup {s}
        /\ \A t \in Sessions : t # s => v.pool[t] = w.pool[t]
        /\ v.pool[s] = [w.pool[s] EXCEPT !.state = "open"]
    <3>1. [w.pool[s] EXCEPT !.state = "open"] \in PoolRecord /\ w.all \cup {s} \in SUBSET Sessions
      BY <1>1, <2>3 DEF PoolRecord
    <3>2. w \in Worlds /\ w.pool \in [Sessions -> PoolRecord] /\ s \in Sessions
      BY <1>1, <2>3
    <3> QED BY ONLY <2>2, <3>1, <3>2 DEF u, Worlds
  <2>5. w.pool[s] \in PoolRecord
    BY <1>1, <2>3
  <2> HIDE DEF u
  <2>6. /\ v.pool[s].active = w.pool[s].active /\ v.pool[s].waiters = w.pool[s].waiters
        /\ v.pool[s].limit = w.pool[s].limit /\ v.pool[s].state = "open"
        /\ v.pool[s].retired = w.pool[s].retired /\ v.pool[s].whenIdle = w.pool[s].whenIdle
    BY <2>4, <2>5 DEF PoolRecord
  <2>7. \A t \in Sessions : Held(v, {b}, t) = Held(w, {b}, t) /\ Queued(v, {b}, t) = Queued(w, {b}, t)
    BY <2>4 DEF Held, Queued
  <2>8. Counted(v, {b}, s) /\ Served(v, s)
    <3>1. Counted(w, {b}, s) /\ w.pool[s].waiters = <<>>
      BY <1>1, <2>3 DEF Counted
    <3> QED BY ONLY <2>3, <2>4, <2>6, <2>7, <3>1 DEF Counted, Served
  <2>9. \A t \in Sessions \ {s} : Counted(v, {b}, t) /\ Served(v, t)
    <3> TAKE t \in Sessions \ {s}
    <3>1. v.pool[t] = w.pool[t] /\ Counted(w, {b}, t) /\ Served(w, t) /\ v.all = w.all \cup {s}
      BY <1>1, <2>4
    <3> QED BY ONLY <2>7, <3>1, t \in Sessions \ {s} DEF Counted, Served
  <2>10. SoundBut(v, b)
    BY <1>1, <2>4, <2>8, <2>9 DEF SoundBut, Sound
  <2>11. TakesStreams(v)
    BY <1>1, <2>3, <2>4, <2>6 DEF TakesStreams, Nobody
  <2>12. Opened(v, f)
    <3>1. n + 1 \in 0..f + 1
      BY <1>1, <2>1
    <3>2. \A t \in Sessions : v.pool[t].state # "absent" <=> t <= n + 1
      <4> TAKE t \in Sessions
      <4>1. t \in Nat /\ n \in Nat /\ (w.pool[t].state # "absent" <=> t <= n)
        BY <1>1, <2>1
      <4>2. CASE t = s
        BY <2>3, <2>6, <4>1, <4>2
      <4>3. CASE t # s
        BY <2>3, <2>4, <4>1, <4>3
      <4> QED BY <4>2, <4>3
    <3> QED BY <2>11, <3>1, <3>2 DEF Opened
  <2> QED BY <2>3, <2>4, <2>10, <2>11, <2>12
<1> QED BY <1>2, <1>3

\* A request gets a free slot or waits for one.
LEMMA AcquireSound ==
    ASSUME Sensible, NEW w, NEW b \in Batches, SoundBut(w, b), NEW s \in Sessions,
           w.pool[s].state = "open", s \in w.all,
           w.batch[b].executed = 0, w.batch[b].result = "none", NEW v, v = Acquire(w, b, s)
    PROVE  /\ Sound(v, {})
           /\ v.session = w.session /\ v.all = w.all
           /\ \A t \in Sessions : v.pool[t].state = w.pool[t].state
           /\ v.batch[b].abort = w.batch[b].abort
           /\ \A c \in Batches : c # b => v.batch[c] = w.batch[c]
<1> DEFINE p == w.pool[s]
           granted == [w.batch[b] EXCEPT !.pc = "granted", !.on = s]
           waiting == [w.batch[b] EXCEPT !.pc = "waiting", !.on = s]
           r == IF HasSlot(p) THEN granted ELSE waiting
           q == IF HasSlot(p) THEN [p EXCEPT !.active = @ + 1] ELSE [p EXCEPT !.waiters = Append(@, b)]
<1>1. /\ w \in Worlds /\ w.pool \in [Sessions -> PoolRecord] /\ w.batch \in [Batches -> BatchRecord]
      /\ p \in PoolRecord /\ p.active \in Nat /\ p.limit \in Nat /\ p.waiters \in Seq(Batches) /\ p.limit <= Unknown
      /\ w.batch[b] \in BatchRecord
  BY DEF SoundBut, Sound, Worlds, PoolRecord, Unknown, Sensible
<1>2. /\ \A t \in Sessions : Counted(w, {b}, t) /\ Served(w, t)
      /\ \A c \in Batches \ {b} : Honest(w.batch[c])
  BY DEF SoundBut, Sound
<1>3. /\ r \in BatchRecord /\ Honest(r) /\ r.on = s /\ r.abort = w.batch[b].abort
      /\ r.pc = IF HasSlot(p) THEN "granted" ELSE "waiting"
  <2>1. s \in Nat
    BY DEF Sessions
  <2>2. granted \in BatchRecord /\ waiting \in BatchRecord
    BY <1>1, <2>1 DEF BatchRecord, Moving, Holding
  <2>3. /\ granted.pc = "granted" /\ granted.on = s /\ granted.abort = w.batch[b].abort
        /\ granted.executed = 0 /\ granted.result = "none"
        /\ waiting.pc = "waiting" /\ waiting.on = s /\ waiting.abort = w.batch[b].abort
        /\ waiting.executed = 0 /\ waiting.result = "none"
    BY <1>1 DEF BatchRecord
  <2> HIDE DEF granted, waiting
  <2> QED BY <2>2, <2>3 DEF Honest, Holding
<1>4. /\ q \in PoolRecord /\ q.state = p.state /\ q.limit = p.limit /\ q.retired = p.retired
      /\ q.whenIdle = p.whenIdle
      /\ HasSlot(p) => q.active = p.active + 1 /\ q.waiters = p.waiters
      /\ ~HasSlot(p) => q.active = p.active /\ q.waiters = Append(p.waiters, b)
  <2>1. p.active + 1 \in Nat /\ Append(p.waiters, b) \in Seq(Batches)
    BY <1>1
  <2> QED BY <1>1, <2>1 DEF PoolRecord
<1>5. v = [w EXCEPT !.pool[s] = q, !.batch[b] = r]
  BY DEF Acquire
<1> HIDE DEF r, q
<1>6. /\ v \in Worlds /\ v.session = w.session /\ v.all = w.all
      /\ v.pool = [w.pool EXCEPT ![s] = q] /\ v.batch = [w.batch EXCEPT ![b] = r]
  <2>1. w \in Worlds /\ r \in BatchRecord /\ q \in PoolRecord /\ b \in Batches /\ s \in Sessions
    BY <1>1, <1>3, <1>4
  <2> QED BY ONLY <1>5, <2>1 DEF Worlds
<1>7. /\ v.pool[s] = q /\ v.batch[b] = r
      /\ \A t \in Sessions : t # s => v.pool[t] = w.pool[t]
      /\ \A c \in Batches : c # b => v.batch[c] = w.batch[c]
  BY <1>1, <1>6
<1>8. /\ \A t \in Sessions \ {s} : Held(v, {}, t) = Held(w, {b}, t) /\ Queued(v, {}, t) = Queued(w, {b}, t)
      /\ HasSlot(p) => Held(v, {}, s) = Held(w, {b}, s) \cup {b} /\ Queued(v, {}, s) = Queued(w, {b}, s)
      /\ ~HasSlot(p) => Held(v, {}, s) = Held(w, {b}, s) /\ Queued(v, {}, s) = Queued(w, {b}, s) \cup {b}
  BY <1>3, <1>7 DEF Held, Queued, Holding
<1>9. Counted(w, {b}, s) /\ Served(w, s) /\ ~p.retired
  BY <1>2 DEF Counted
<1>10. Counted(v, {}, s) /\ Served(v, s)
  <2>1. CASE HasSlot(p)
    <3>1. Cardinality(Held(v, {}, s)) = p.active + 1
      <4>1. IsFiniteSet(Held(w, {b}, s)) /\ b \notin Held(w, {b}, s) /\ Cardinality(Held(w, {b}, s)) = p.active
        <5>1. IsFiniteSet(Held(w, {b}, s)) /\ Cardinality(Held(w, {b}, s)) = p.active
          BY <1>9, FiniteSlots DEF Counted
        <5> QED BY <5>1 DEF Held
      <4> QED BY <1>8, <2>1, <4>1, FS_AddElement
    <3>2. p.waiters = <<>> /\ p.active + 1 <= MaxConnections
      BY <1>1, <1>9, <2>1 DEF Served, HasSlot, Unknown, Sensible
    <3> QED BY <1>4, <1>6, <1>7, <1>8, <1>9, <2>1, <3>1, <3>2 DEF Counted, Served
  <2>2. CASE ~HasSlot(p)
    <3>1. b \notin Items(p.waiters) /\ Distinct(p.waiters)
      BY <1>9 DEF Counted, Queued
    <3>2. Distinct(Append(p.waiters, b)) /\ Items(Append(p.waiters, b)) = Items(p.waiters) \cup {b}
      <4>1. p.waiters \in Seq(Batches)
        BY <1>1
      <4> QED BY ONLY <3>1, <4>1, b \in Batches, AppendItems, AppendDistinct
    <3>3. v.pool[s].active = p.active /\ v.pool[s].waiters = Append(p.waiters, b)
      BY <1>4, <1>7, <2>2
    <3>4. ~HasSlot(v.pool[s])
      BY <1>4, <1>7, <2>2 DEF HasSlot
    <3> QED BY <1>4, <1>6, <1>7, <1>8, <1>9, <2>2, <3>2, <3>3, <3>4 DEF Counted, Served
  <2> QED BY <2>1, <2>2
<1>11. \A t \in Sessions \ {s} : Counted(v, {}, t) /\ Served(v, t)
  <2> TAKE t \in Sessions \ {s}
  <2>1. v.pool[t] = w.pool[t] /\ Counted(w, {b}, t) /\ Served(w, t) /\ v.all = w.all
    BY <1>2, <1>6, <1>7
  <2> QED BY ONLY <1>8, <2>1, t \in Sessions \ {s} DEF Counted, Served
<1>12. \A c \in Batches : Honest(v.batch[c])
  BY <1>2, <1>3, <1>7
<1> QED BY <1>3, <1>4, <1>6, <1>7, <1>10, <1>11, <1>12 DEF Sound

\* A request finds its session, or opens one.
LEMMA TryStreamSound ==
    ASSUME Sensible, NEW w, NEW b \in Batches, SoundBut(w, b), NEW f \in 0..MaxSessionFaults, Opened(w, f),
           w.batch[b].executed = 0, w.batch[b].result = "none", NEW v, v = TryStream(w, b)
    PROVE  Sound(v, {}) /\ Opened(v, f)
<1> DEFINE c == Connects(w)
<1>1. /\ SoundBut(c, b) /\ Opened(c, f) /\ TakesStreams(c)
      /\ c.batch = w.batch /\ c.session \in Sessions /\ c.session \in c.all
  BY ConnectSound
<1>2. v = Acquire(c, b, c.session)
  BY DEF TryStream
<1> HIDE DEF c
<1>3. /\ Sound(v, {}) /\ v.session = c.session
      /\ \A t \in Sessions : v.pool[t].state = c.pool[t].state
  <2>1. c.pool[c.session].state = "open" /\ c.batch[b].executed = 0 /\ c.batch[b].result = "none"
    BY <1>1 DEF TakesStreams
  <2>2. Sensible /\ b \in Batches
    OBVIOUS
  <2> QED BY ONLY <1>1, <1>2, <2>1, <2>2, AcquireSound
<1>4. TakesStreams(v)
  BY <1>1, <1>3 DEF TakesStreams
<1>5. Opened(v, f)
  BY <1>1, <1>3, <1>4 DEF Opened
<1> QED BY <1>3, <1>5

\* The second attempt, or the end.
LEMMA TryAgainSound ==
    ASSUME Sensible, NEW w, NEW b \in Batches, SoundBut(w, b), NEW f \in 0..MaxSessionFaults,
           w.batch[b].abort = "no" => Opened(w, f),
           w.batch[b].executed = 0, w.batch[b].result = "none", NEW v, v = TryAgain(w, b)
    PROVE  /\ Sound(v, {})
           /\ Opened(w, f) => Opened(v, f)
           /\ w.batch[b].abort # "no" => /\ v.batch[b].pc = "done"
                                         /\ \A c \in Batches : c # b => v.batch[c] = w.batch[c]
<1>1. CASE w.batch[b].attempt = 0 /\ w.batch[b].abort = "no"
  <2> DEFINE r == [w.batch[b] EXCEPT !.attempt = 1]
             u == Placed(w, b, r)
  <2>1. w.batch[b] \in BatchRecord /\ w \in Worlds /\ w.batch \in [Batches -> BatchRecord]
    BY DEF SoundBut, Sound, Worlds
  <2>2. r \in BatchRecord /\ r.executed = 0 /\ r.result = "none"
    BY <2>1 DEF BatchRecord
  <2>3. v = TryStream(u, b)
    BY <1>1, <2>1 DEF TryAgain, Placed, Worlds
  <2> HIDE DEF r, u
  <2>4. /\ SoundBut(u, b) /\ u.batch[b] = r /\ u.pool = w.pool /\ u.session = w.session /\ u.all = w.all
    BY <2>2, WithBatch DEF u
  <2>5. Opened(u, f)
    BY <1>1, <2>4 DEF Opened, TakesStreams
  <2>6. Sound(v, {}) /\ Opened(v, f)
    <3>1. u.batch[b].executed = 0 /\ u.batch[b].result = "none" /\ Sensible /\ b \in Batches /\ f \in 0..MaxSessionFaults
      BY <2>2, <2>4
    <3> QED BY ONLY <2>3, <2>4, <2>5, <3>1, TryStreamSound
  <2> QED BY <1>1, <2>6
<1>2. CASE ~(w.batch[b].attempt = 0 /\ w.batch[b].abort = "no")
  <2>1. v = Finish(w, b, "possibly_sent")
    BY <1>2 DEF TryAgain
  <2>2. /\ Sound(v, {}) /\ v.batch[b].pc = "done"
        /\ v.pool = w.pool /\ v.session = w.session /\ v.all = w.all
        /\ \A c \in Batches : c # b => v.batch[c] = w.batch[c]
    BY <2>1, FinishSound
  <2>3. Opened(w, f) => Opened(v, f)
    BY <2>2 DEF Opened, TakesStreams
  <2> QED BY <2>2, <2>3
<1> QED BY <1>1, <1>2

\* The same request again, or one to another URL.
LEMMA RequestSound ==
    ASSUME Sensible, NEW w, NEW b \in Batches, SoundBut(w, b), NEW f \in 0..MaxSessionFaults, Opened(w, f),
           NEW change \in BatchRecord, change.executed = 0, change.result = "none", NEW v, v = Request(w, b, change)
    PROVE  Sound(v, {}) /\ Opened(v, f)
<1> DEFINE r == [change EXCEPT !.attempt = 0]
           u == Placed(w, b, r)
<1>1. r \in BatchRecord /\ r.executed = 0 /\ r.result = "none"
  BY DEF BatchRecord
<1>2. v = TryStream(u, b)
  BY DEF Request, Placed
<1> HIDE DEF r, u
<1>3. SoundBut(u, b) /\ u.batch[b] = r /\ u.pool = w.pool /\ u.session = w.session /\ u.all = w.all
  BY <1>1, WithBatch DEF u
<1>4. Opened(u, f)
  BY <1>3 DEF Opened, TakesStreams
<1>5. u.batch[b].executed = 0 /\ u.batch[b].result = "none" /\ Sensible /\ b \in Batches /\ f \in 0..MaxSessionFaults
  BY <1>1, <1>3
<1> QED BY ONLY <1>2, <1>3, <1>4, <1>5, TryStreamSound

\* A batch that keeps its slot, its place in the queue, or neither, may change otherwise.
LEMMA MoveSound ==
    ASSUME NEW w, NEW b \in Batches, Sound(w, {}), NEW r \in BatchRecord, Honest(r), r.on = w.batch[b].on,
           r.pc \in Holding <=> w.batch[b].pc \in Holding,
           r.pc = "waiting" <=> w.batch[b].pc = "waiting",
           NEW v, v = Placed(w, b, r)
    PROVE  /\ Sound(v, {}) /\ v.batch[b] = r
           /\ v.pool = w.pool /\ v.session = w.session /\ v.all = w.all
           /\ \A c \in Batches : c # b => v.batch[c] = w.batch[c]
<1>1. w \in Worlds /\ w.batch \in [Batches -> BatchRecord]
  BY DEF Sound, Worlds
<1>2. /\ v \in Worlds /\ v.batch[b] = r
      /\ v.pool = w.pool /\ v.session = w.session /\ v.all = w.all
      /\ \A c \in Batches : c # b => v.batch[c] = w.batch[c]
  BY <1>1 DEF Worlds, Placed
<1>3. \A t \in Sessions : Held(v, {}, t) = Held(w, {}, t) /\ Queued(v, {}, t) = Queued(w, {}, t)
  BY <1>2 DEF Held, Queued
<1>4. \A t \in Sessions : Counted(v, {}, t) /\ Served(v, t)
  <2> TAKE t \in Sessions
  <2>1. Counted(w, {}, t) /\ Served(w, t)
    BY DEF Sound
  <2> QED BY ONLY <1>2, <1>3, <2>1, t \in Sessions DEF Counted, Served
<1>5. \A c \in Batches : Honest(v.batch[c])
  BY <1>2 DEF Sound
<1> QED BY <1>2, <1>4, <1>5 DEF Sound

\* Admission and close() see the same of two worlds that are alike.
LEMMA AlikeFacts ==
    ASSUME NEW w, NEW v, Alike(w, v)
    PROVE  /\ \A f : Opened(w, f) => Opened(v, f)
           /\ AllAborted(w) => AllAborted(v)
BY DEF Alike, Opened, AllAborted

---------------------------------------------------------------------------
(* The steps.                                                              *)

\* A step that leads to a sound world keeps the invariant.
LEMMA WorldStep ==
    ASSUME Sensible, Inv, NEW w, Becomes(w), Sound(w, {}), UNCHANGED transportClosed, detours' \in Nat,
           sessionFaults' \in 0..MaxSessionFaults,
           ~transportClosed => Opened(w, sessionFaults'), transportClosed => AllAborted(w)
    PROVE  Inv'
<1>1. World' = w
  <2>1. w \in Worlds /\ batch' = w.batch /\ pool' = w.pool /\ session' = w.session /\ allSessions' = w.all
    BY DEF Sound, Becomes
  <2>2. World' = [batch |-> batch', pool |-> pool', session |-> session', all |-> allSessions']
    BY DEF World
  <2> QED BY ONLY <2>1, <2>2 DEF Worlds
<1>2. w \in Worlds /\ sessionFaults' \in Nat /\ sessionFaults' <= MaxSessionFaults
  BY DEF Sound, Sensible
<1>3. TypeOK'
  BY <1>1, <1>2 DEF Inv, TypeOK
<1>4. Sound(World, {})' /\ (~transportClosed => Opened(World, sessionFaults))' /\ (transportClosed => AllAborted(World))'
  BY <1>1
<1> QED BY <1>2, <1>3, <1>4 DEF Inv

\* What the invariant says of a batch.
LEMMA OfTheBatch ==
    ASSUME Sensible, Inv, NEW b \in Batches
    PROVE  /\ Sound(World, {}) /\ World \in Worlds /\ Honest(batch[b]) /\ batch[b] \in BatchRecord
           /\ World.batch = batch /\ World.pool = pool /\ World.session = session /\ World.all = allSessions
           /\ sessionFaults \in 0..MaxSessionFaults /\ detours \in Nat
           /\ batch[b].pc \in Moving /\ batch[b].abort = "no" => ~transportClosed
           /\ ~transportClosed => Opened(World, sessionFaults)
<1>1. World.batch = batch /\ World.pool = pool /\ World.session = session /\ World.all = allSessions
  BY DEF World
<1>2. Sound(World, {}) /\ World \in Worlds /\ sessionFaults \in 0..MaxSessionFaults /\ detours \in Nat
  BY DEF Inv, TypeOK, Sensible
<1>3. Honest(batch[b])
  BY <1>1, <1>2 DEF Sound
<1>4. batch[b] \in BatchRecord
  BY <1>1, <1>2 DEF Worlds
<1>5. /\ batch[b].pc \in Moving /\ batch[b].abort = "no" => ~transportClosed
      /\ ~transportClosed => Opened(World, sessionFaults)
  BY <1>1 DEF Inv, AllAborted
<1> QED BY <1>1, <1>2, <1>3, <1>4, <1>5

\* A batch is posted.
LEMMA PostInv ==
    ASSUME Sensible, Inv, NEW b \in Batches, Post(b)
    PROVE  Inv'
<1>1. /\ Sound(World, {}) /\ World \in Worlds /\ Honest(batch[b]) /\ batch[b] \in BatchRecord /\ World.batch = batch
      /\ sessionFaults \in 0..MaxSessionFaults /\ detours \in Nat
      /\ ~transportClosed => Opened(World, sessionFaults)
  BY OfTheBatch
<1>2. batch[b].pc = "idle" /\ UNCHANGED <<transportClosed, detours, sessionFaults>>
  BY DEF Post
<1>3. World.batch[b].executed = 0 /\ World.batch[b].result = "none"
  BY <1>1, <1>2 DEF Honest
<1>4. SoundBut(World, b)
  BY <1>1, <1>2, TakeSound DEF Holding
<1>5. CASE Becomes(Finish(World, b, "unsent"))
  <2> DEFINE v == Finish(World, b, "unsent")
  <2>1. /\ Sound(v, {}) /\ v.batch[b].pc = "done"
        /\ v.pool = World.pool /\ v.session = World.session /\ v.all = World.all
        /\ \A c \in Batches : c # b => v.batch[c] = World.batch[c]
    BY <1>3, <1>4, FinishSound
  <2>2. Becomes(v)
    BY <1>5
  <2> HIDE DEF v
  <2>3. Opened(World, sessionFaults) => Opened(v, sessionFaults)
    BY <2>1 DEF Opened, TakesStreams
  <2>4. AllAborted(World) => AllAborted(v)
    BY <2>1 DEF AllAborted, Moving, Holding
  <2> QED BY <1>1, <1>2, <2>1, <2>2, <2>3, <2>4, WorldStep DEF Inv
<1>6. CASE ~transportClosed /\ Becomes(Request(World, b, batch[b]))
  <2> DEFINE v == Request(World, b, batch[b])
  <2>1. batch[b].executed = 0 /\ batch[b].result = "none" /\ Opened(World, sessionFaults)
    BY <1>1, <1>3, <1>6
  <2>2. Sound(v, {}) /\ Opened(v, sessionFaults)
    BY <1>1, <1>4, <2>1, RequestSound
  <2>3. Becomes(v)
    BY <1>6
  <2> HIDE DEF v
  <2> QED BY <1>1, <1>2, <1>6, <2>2, <2>3, WorldStep
<1> QED BY <1>5, <1>6 DEF Post

\* A batch whose stream failed, and its slot.
LEMMA StreamFailsInv ==
    ASSUME Sensible, Inv, NEW b \in Batches, NEW how, StreamFails(b, how), batch[b].pc \in Holding,
           how = "refused" => batch[b].pc # "executed",
           UNCHANGED <<transportClosed, detours, sessionFaults>>
    PROVE  Inv'
<1>1. /\ Sound(World, {}) /\ World \in Worlds /\ Honest(batch[b]) /\ batch[b] \in BatchRecord /\ World.batch = batch
      /\ sessionFaults \in 0..MaxSessionFaults /\ detours \in Nat
      /\ batch[b].pc \in Moving /\ batch[b].abort = "no" => ~transportClosed
      /\ ~transportClosed => Opened(World, sessionFaults)
  BY OfTheBatch
<1> DEFINE w == Release(World, batch[b].on)
<1>2. SoundBut(w, b) /\ Alike(World, w) /\ w.batch[b] = batch[b]
  <2>1. World.batch[b].pc \in Holding /\ World.batch[b].on = batch[b].on
    BY <1>1
  <2> QED BY <1>1, <2>1, ReleaseSound
<1>3. StreamFails(b, how) = Becomes(IF RefusedStream(how) THEN TryAgain(w, b) ELSE Finish(w, b, "possibly_sent"))
  BY DEF StreamFails
<1> HIDE DEF w
<1>4. batch[b].executed <= 1
  BY <1>1 DEF Honest, Holding
<1>5. batch[b].pc \in Moving
  BY DEF Moving
<1>6. CASE RefusedStream(how)
  <2> DEFINE v == TryAgain(w, b)
  <2>1. batch[b].executed = 0 /\ batch[b].result = "none"
    BY <1>1, <1>6 DEF Honest, Holding, RefusedStream
  <2>2. Opened(World, sessionFaults) => Opened(w, sessionFaults)
    BY <1>2, AlikeFacts
  <2>3. /\ Sound(v, {})
        /\ Opened(w, sessionFaults) => Opened(v, sessionFaults)
        /\ batch[b].abort # "no" => /\ v.batch[b].pc = "done"
                                    /\ \A c \in Batches : c # b => v.batch[c] = w.batch[c]
    <3>1. w.batch[b].abort = "no" => Opened(w, sessionFaults)
      BY <1>1, <1>2, <1>5, <2>2
    <3>2. w.batch[b].executed = 0 /\ w.batch[b].result = "none"
      BY <1>2, <2>1
    <3>3. /\ Sound(v, {})
          /\ Opened(w, sessionFaults) => Opened(v, sessionFaults)
          /\ w.batch[b].abort # "no" => /\ v.batch[b].pc = "done"
                                        /\ \A c \in Batches : c # b => v.batch[c] = w.batch[c]
      BY <1>1, <1>2, <3>1, <3>2, TryAgainSound
    <3> QED BY <1>2, <3>3
  <2>4. Becomes(v)
    BY <1>3, <1>6
  <2> HIDE DEF v
  <2>5. transportClosed => AllAborted(v)
    <3> SUFFICES ASSUME transportClosed PROVE AllAborted(v)
      OBVIOUS
    <3>1. AllAborted(w)
      BY <1>2, AlikeFacts DEF Inv
    <3>2. batch[b].abort # "no"
      BY <1>1, <1>5
    <3> QED BY <2>3, <3>1, <3>2 DEF AllAborted, Moving, Holding
  <2>6. ~transportClosed => Opened(v, sessionFaults)
    BY <1>1, <2>2, <2>3
  <2> QED BY <1>1, <2>3, <2>4, <2>5, <2>6, WorldStep
<1>7. CASE ~RefusedStream(how)
  <2> DEFINE v == Finish(w, b, "possibly_sent")
  <2>1. /\ Sound(v, {}) /\ v.batch[b].pc = "done"
        /\ v.pool = w.pool /\ v.session = w.session /\ v.all = w.all
        /\ \A c \in Batches : c # b => v.batch[c] = w.batch[c]
    BY <1>2, <1>4, FinishSound
  <2>2. Becomes(v)
    BY <1>3, <1>7
  <2> HIDE DEF v
  <2>3. Opened(World, sessionFaults) => Opened(v, sessionFaults)
    <3>1. Opened(World, sessionFaults) => Opened(w, sessionFaults)
      BY <1>2, AlikeFacts
    <3> QED BY <2>1, <3>1 DEF Opened, TakesStreams
  <2>4. AllAborted(World) => AllAborted(v)
    <3>1. AllAborted(World) => AllAborted(w)
      BY <1>2, AlikeFacts
    <3> QED BY <2>1, <3>1 DEF AllAborted, Moving, Holding
  <2> QED BY <1>1, <2>1, <2>2, <2>3, <2>4, WorldStep DEF Inv
<1> QED BY <1>6, <1>7

\* An aborted stream, or one of a destroyed session, and a stream that the server refused.
LEMMA BrokenInv ==
    ASSUME Sensible, Inv, NEW b \in Batches, Broken(b) \/ Refuse(b)
    PROVE  Inv'
<1>1. CASE Broken(b)
  BY <1>1, StreamFailsInv DEF Broken, Holding
<1>2. CASE Refuse(b)
  BY <1>2, StreamFailsInv DEF Refuse, Holding
<1> QED BY <1>1, <1>2

\* The server executes a batch.
LEMMA ExecuteInv ==
    ASSUME Sensible, Inv, NEW b \in Batches, Execute(b)
    PROVE  Inv'
<1>1. /\ Sound(World, {}) /\ World \in Worlds /\ Honest(batch[b]) /\ batch[b] \in BatchRecord /\ World.batch = batch
      /\ World.pool = pool /\ World.session = session /\ World.all = allSessions
      /\ sessionFaults \in 0..MaxSessionFaults /\ detours \in Nat
  BY OfTheBatch
<1> DEFINE r == [batch[b] EXCEPT !.pc = "executed", !.executed = @ + 1]
           v == Placed(World, b, r)
<1>2. /\ batch[b].pc = "streaming" /\ batch' = [batch EXCEPT ![b] = r]
      /\ UNCHANGED <<pool, session, allSessions, transportClosed, detours, sessionFaults>>
  BY DEF Execute
<1>3. /\ r \in BatchRecord /\ Honest(r) /\ r.on = batch[b].on /\ r.pc = "executed"
      /\ r.abort = batch[b].abort
  <2>1. batch[b].executed = 0 /\ batch[b].result = "none" /\ batch[b].on \in Sessions
    BY <1>1, <1>2 DEF Honest, Holding
  <2>2. r \in BatchRecord
    <3>1. batch[b].executed + 1 \in Nat
      BY <2>1
    <3> QED BY <1>1, <3>1 DEF BatchRecord, Moving, Holding
  <2>3. /\ r.pc = "executed" /\ r.on = batch[b].on /\ r.abort = batch[b].abort /\ r.executed = 1
        /\ r.result = batch[b].result
    BY <1>1, <2>1 DEF BatchRecord
  <2> HIDE DEF r
  <2> QED BY <2>1, <2>2, <2>3 DEF Honest
<1> HIDE DEF r
<1>4. /\ Sound(v, {}) /\ v.batch[b] = r
      /\ v.pool = World.pool /\ v.session = World.session /\ v.all = World.all
      /\ \A c \in Batches : c # b => v.batch[c] = World.batch[c]
  BY <1>1, <1>2, <1>3, MoveSound DEF Holding
<1>5. Becomes(v)
  BY <1>1, <1>2 DEF Becomes, Placed, World
<1> HIDE DEF v
<1>6. Opened(World, sessionFaults) => Opened(v, sessionFaults)
  BY <1>4 DEF Opened, TakesStreams
<1>7. AllAborted(World) => AllAborted(v)
  BY <1>1, <1>2, <1>3, <1>4 DEF AllAborted, Moving, Holding
<1> QED BY <1>1, <1>2, <1>4, <1>5, <1>6, <1>7, WorldStep DEF Inv

\* The session was retired while the batch waited.
LEMMA RejectedInv ==
    ASSUME Sensible, Inv, NEW b \in Batches, Rejected(b)
    PROVE  Inv'
<1>1. /\ Sound(World, {}) /\ World \in Worlds /\ Honest(batch[b]) /\ World.batch = batch
      /\ sessionFaults \in 0..MaxSessionFaults /\ detours \in Nat
      /\ batch[b].pc \in Moving /\ batch[b].abort = "no" => ~transportClosed
      /\ ~transportClosed => Opened(World, sessionFaults)
  BY OfTheBatch
<1> DEFINE v == TryAgain(World, b)
<1>2. /\ batch[b].pc = "rejected" /\ UNCHANGED <<transportClosed, detours, sessionFaults>> /\ Becomes(v)
      /\ batch[b].pc \in Moving
  BY DEF Rejected, Moving
<1>3. World.batch[b].executed = 0 /\ World.batch[b].result = "none"
  BY <1>1, <1>2 DEF Honest
<1>4. SoundBut(World, b)
  BY <1>1, <1>2, TakeSound DEF Holding
<1>5. /\ Sound(v, {})
      /\ Opened(World, sessionFaults) => Opened(v, sessionFaults)
      /\ batch[b].abort # "no" => /\ v.batch[b].pc = "done"
                                  /\ \A c \in Batches : c # b => v.batch[c] = World.batch[c]
  <2>1. World.batch[b].abort = "no" => Opened(World, sessionFaults)
    BY <1>1, <1>2
  <2> QED BY <1>1, <1>3, <1>4, <2>1, TryAgainSound
<1> HIDE DEF v
<1>6. transportClosed => AllAborted(v)
  <2> SUFFICES ASSUME transportClosed PROVE AllAborted(v)
    OBVIOUS
  <2>1. AllAborted(World) /\ batch[b].abort # "no"
    BY <1>1, <1>2 DEF Inv
  <2> QED BY <1>5, <2>1 DEF AllAborted, Moving, Holding
<1>7. ~transportClosed => Opened(v, sessionFaults)
  BY <1>1, <1>5
<1> QED BY <1>1, <1>2, <1>5, <1>6, <1>7, WorldStep

\* A granted batch opens its stream.
LEMMA OpenInv ==
    ASSUME Sensible, Inv, NEW b \in Batches, Open(b)
    PROVE  Inv'
<1> DEFINE s == batch[b].on
<1>1. /\ Sound(World, {}) /\ World \in Worlds /\ Honest(batch[b]) /\ batch[b] \in BatchRecord
      /\ World.batch = batch /\ World.pool = pool /\ World.session = session /\ World.all = allSessions
      /\ sessionFaults \in 0..MaxSessionFaults /\ detours \in Nat
      /\ batch[b].pc \in Moving /\ batch[b].abort = "no" => ~transportClosed
      /\ ~transportClosed => Opened(World, sessionFaults)
  BY OfTheBatch
<1>2. /\ batch[b].pc = "granted" /\ UNCHANGED <<transportClosed, detours, sessionFaults>>
      /\ batch[b].pc \in Moving /\ batch[b].pc \in Holding
  BY DEF Open, Moving, Holding
<1>3. s \in Sessions /\ batch[b].executed = 0 /\ batch[b].result = "none"
  BY <1>1, <1>2 DEF Honest
<1>4. ASSUME NEW pc \in {"streaming", "broken"}, Becomes([World EXCEPT !.batch[b].pc = pc])
      PROVE  Inv'
  <2> DEFINE r == [batch[b] EXCEPT !.pc = pc]
             v == Placed(World, b, r)
  <2>1. /\ r \in BatchRecord /\ r.pc = pc /\ r.on = batch[b].on /\ r.abort = batch[b].abort
        /\ r.executed = batch[b].executed /\ r.result = batch[b].result
    BY <1>1 DEF BatchRecord, Moving, Holding
  <2>2. Becomes(v)
    BY <1>1, <1>4 DEF Placed, Worlds
  <2> HIDE DEF r
  <2>3. Honest(r) /\ r.pc \in Holding /\ r.pc # "waiting"
    BY <1>3, <1>4, <2>1 DEF Honest, Holding
  <2>4. /\ Sound(v, {}) /\ v.batch[b] = r
        /\ v.pool = World.pool /\ v.session = World.session /\ v.all = World.all
        /\ \A c \in Batches : c # b => v.batch[c] = World.batch[c]
    <3>1. World.batch[b].pc \in Holding /\ World.batch[b].pc # "waiting" /\ r.on = World.batch[b].on
      BY <1>1, <1>2, <2>1
    <3> QED BY <1>1, <2>1, <2>3, <3>1, MoveSound
  <2> HIDE DEF v
  <2>5. Opened(World, sessionFaults) => Opened(v, sessionFaults)
    BY <2>4 DEF Opened, TakesStreams
  <2>6. AllAborted(World) => AllAborted(v)
    BY <1>1, <1>2, <2>1, <2>4 DEF AllAborted
  <2> QED BY <1>1, <1>2, <2>2, <2>4, <2>5, <2>6, WorldStep DEF Inv
<1>5. CASE pool[s].state # "open" /\ batch[b].attempt = 0 /\ batch[b].abort = "no"
  <2> DEFINE x == RetireSession(World, s, "destroy")
             y == Release(x, s)
             v == TryAgain(y, b)
  <2>1. ~transportClosed /\ Opened(World, sessionFaults)
    BY <1>1, <1>2, <1>5
  <2>2. Becomes(v)
    BY <1>5 DEF Open
  <2>3. /\ \A t \in Sessions : Counted(World, {}, t)
        /\ \A t \in Sessions \ {s} : Served(World, t)
        /\ \A c \in Batches : Honest(World.batch[c])
    BY <1>1 DEF Sound
  <2>4. World.pool[s].state # "absent"
    <3>1. b \in Held(World, {}, s)
      BY <1>1, <1>2 DEF Held
    <3>2. Cardinality(Held(World, {}, s)) # 0
      BY <3>1, FiniteSlots, FS_EmptySet
    <3>3. World.pool[s].active = Cardinality(Held(World, {}, s))
      BY <1>3, <2>3 DEF Counted
    <3> QED BY <1>3, <2>3, <3>2, <3>3 DEF Counted
  <2>5. /\ Sound(x, {})
        /\ x.session = (IF session = s THEN Nobody ELSE session)
        /\ \A t \in Sessions : t # s => x.pool[t] = pool[t]
        /\ x.pool[s].state \in {pool[s].state, "destroyed"}
        /\ \A c \in Batches : /\ x.batch[c].abort = batch[c].abort
                              /\ x.batch[c].pc \in Moving <=> batch[c].pc \in Moving
                              /\ batch[c].pc # "waiting" => x.batch[c] = batch[c]
    <3> DEFINE X == {}
               how == "destroy"
    <3>1. Sensible /\ World \in Worlds /\ s \in Sessions /\ Retirable(World, X, s, how) /\ x = RetireSession(World, s, how)
      BY <1>1, <1>3, <2>3, <2>4 DEF x, Retirable
    <3> HIDE DEF X, how
    <3>2. Sound(x, X) /\ Retired(World, x, X, s)
      BY ONLY <3>1, RetireSound
    <3> QED BY <1>1, <3>2 DEF X, Retired
  <2> HIDE DEF x
  <2>6. x.batch[b] = batch[b]
    BY <1>2, <2>5
  <2>7. /\ SoundBut(y, b) /\ Alike(x, y) /\ y.batch[b] = batch[b]
    <3>1. x.batch[b].pc \in Holding /\ x.batch[b].on = s
      BY <1>2, <2>6
    <3>2. SoundBut(y, b) /\ Alike(x, y) /\ y.batch[b] = x.batch[b]
      BY <2>5, <3>1, ReleaseSound
    <3> QED BY <2>6, <3>2
  <2> HIDE DEF y
  <2>8. Alike(World, x)
    <3>1. \A t \in Sessions : x.pool[t].state = "absent" <=> World.pool[t].state = "absent"
      BY <1>1, <2>4, <2>5
    <3>2. session \in Sessions \cup {Nobody}
      BY <1>1 DEF Worlds
    <3>3. TakesStreams(x) <=> TakesStreams(World)
      BY <1>1, <1>5, <2>5, <3>2 DEF TakesStreams
    <3> QED BY <1>1, <2>5, <3>1, <3>3 DEF Alike
  <2>9. Opened(y, sessionFaults)
    BY <2>1, <2>7, <2>8, AlikeFacts
  <2>10. Sound(v, {}) /\ Opened(v, sessionFaults)
    <3>1. y.batch[b].executed = 0 /\ y.batch[b].result = "none"
      BY <1>3, <2>7
    <3> QED BY <1>1, <2>7, <2>9, <3>1, TryAgainSound
  <2> HIDE DEF v
  <2> QED BY <1>1, <1>2, <2>1, <2>2, <2>10, WorldStep
<1>6. ASSUME Becomes(Finish(Release(World, s), b, "possibly_sent"))
      PROVE  Inv'
  <2>1. StreamFails(b, "broken")
    BY <1>6 DEF StreamFails, RefusedStream
  <2> QED BY <1>2, <2>1, StreamFailsInv
<1> QED BY <1>4, <1>5, <1>6 DEF Open

\* The server answers: the batch has its result, or it is sent again.
LEMMA AnswerInv ==
    ASSUME Sensible, Inv, NEW b \in Batches, Answer(b)
    PROVE  Inv'
<1>1. /\ Sound(World, {}) /\ World \in Worlds /\ Honest(batch[b]) /\ batch[b] \in BatchRecord /\ World.batch = batch
      /\ sessionFaults \in 0..MaxSessionFaults /\ detours \in Nat
      /\ batch[b].pc \in Moving /\ batch[b].abort = "no" => ~transportClosed
      /\ ~transportClosed => Opened(World, sessionFaults)
  BY OfTheBatch
<1> DEFINE w == Release(World, batch[b].on)
<1>2. /\ batch[b].pc \in {"streaming", "executed"} /\ batch[b].pc \in Moving /\ batch[b].pc \in Holding
      /\ UNCHANGED <<transportClosed, sessionFaults>>
  BY DEF Answer, Moving, Holding
<1>3. ~transportClosed /\ Opened(World, sessionFaults)
  BY <1>1, <1>2 DEF Answer, Quiet
<1>4. SoundBut(w, b) /\ Alike(World, w) /\ w.batch[b] = batch[b]
  <2>1. World.batch[b].pc \in Holding /\ World.batch[b].on = batch[b].on
    BY <1>1, <1>2
  <2> QED BY <1>1, <2>1, ReleaseSound
<1>5. Opened(w, sessionFaults)
  BY <1>3, <1>4, AlikeFacts
<1>6. PICK status \in Statuses(batch[b].pc = "executed") :
         IF \/ status = "redirect" /\ batch[b].redirects < MaxRedirects
            \/ status = "unauthorized" /\ batch[b].replay = 0
         THEN /\ detours < MaxDetours /\ detours' = detours + 1
              /\ Becomes(Request(w, b, Again(b, status)))
         ELSE /\ Becomes(Finish(w, b, Disposition(status)))
              /\ UNCHANGED detours
  BY DEF Answer
<1> HIDE DEF w
<1>7. /\ batch[b].pc = "streaming" => batch[b].executed = 0 /\ batch[b].result = "none"
      /\ batch[b].pc = "executed" => batch[b].executed = 1
  BY <1>1 DEF Honest
<1>8. CASE \/ status = "redirect" /\ batch[b].redirects < MaxRedirects
           \/ status = "unauthorized" /\ batch[b].replay = 0
  <2> DEFINE r == Again(b, status)
             v == Request(w, b, r)
  <2>1. batch[b].pc = "streaming"
    BY <1>2, <1>6, <1>8 DEF Statuses
  <2>2. r \in BatchRecord /\ r.executed = 0 /\ r.result = "none"
    <3>1. batch[b].redirects + 1 \in Nat
      BY <1>1 DEF BatchRecord
    <3> QED BY <1>1, <1>7, <2>1, <3>1 DEF Again, BatchRecord
  <2>3. Becomes(v) /\ detours' \in Nat
    BY <1>1, <1>6, <1>8
  <2> HIDE DEF r
  <2>4. Sound(v, {}) /\ Opened(v, sessionFaults)
    BY <1>1, <1>4, <1>5, <2>2, RequestSound
  <2> HIDE DEF v
  <2> QED BY <1>1, <1>2, <1>3, <2>3, <2>4, WorldStep
<1>9. CASE ~(\/ status = "redirect" /\ batch[b].redirects < MaxRedirects
             \/ status = "unauthorized" /\ batch[b].replay = 0)
  <2> DEFINE result == Disposition(status)
             v == Finish(w, b, result)
  <2>1. Becomes(v) /\ detours' = detours
    BY <1>6, <1>9
  <2>2. /\ result \in {"ok", "unsent", "safe_to_retry", "possibly_sent"}
        /\ result \in {"unsent", "safe_to_retry"} => batch[b].pc = "streaming"
        /\ result = "ok" => batch[b].pc = "executed"
    BY <1>2, <1>6 DEF Disposition, Statuses
  <2> HIDE DEF result
  <2>3. /\ w.batch[b].executed <= 1
        /\ result \in {"unsent", "safe_to_retry"} => w.batch[b].executed = 0
        /\ result = "ok" => w.batch[b].executed = 1
    BY <1>2, <1>4, <1>7, <2>2
  <2>4. /\ Sound(v, {}) /\ v.pool = w.pool /\ v.session = w.session
    BY <1>4, <2>2, <2>3, FinishSound
  <2> HIDE DEF v
  <2>5. Opened(v, sessionFaults)
    BY <1>5, <2>4 DEF Opened, TakesStreams
  <2> QED BY <1>1, <1>2, <1>3, <2>1, <2>4, <2>5, WorldStep
<1> QED BY <1>8, <1>9

---------------------------------------------------------------------------
(* The events of a session.                                                *)

\* SETTINGS: a session has room for others that wait.
LEMMA LimitSound ==
    ASSUME Sensible, NEW w, Sound(w, {}), NEW s \in Sessions, NEW limit \in RemoteLimits, NEW v, v = UpdateLimit(w, s, limit)
    PROVE  /\ Sound(v, {}) /\ Alike(w, v) /\ v.session = w.session
           /\ \A t \in Sessions : v.pool[t].state = w.pool[t].state
<1>1. /\ w \in Worlds /\ w.pool \in [Sessions -> PoolRecord] /\ w.pool[s] \in PoolRecord
      /\ \A t \in Sessions : Counted(w, {}, t) /\ Served(w, t)
      /\ \A c \in Batches : Honest(w.batch[c])
  BY DEF Sound, Worlds
<1>2. CASE w.pool[s].retired
  BY <1>1, <1>2 DEF UpdateLimit, Alike
<1>3. CASE ~w.pool[s].retired
  <2> DEFINE m == IF limit < MaxConnections THEN limit ELSE MaxConnections
             q == [w.pool[s] EXCEPT !.limit = m]
             u == [w EXCEPT !.pool[s] = q]
             X == {}
  <2>1. m \in 0..Unknown
    BY DEF Unknown, Sensible
  <2>2. v = Drain(u, s)
    BY <1>3 DEF UpdateLimit
  <2> HIDE DEF m
  <2>3. /\ q \in PoolRecord /\ q.state = w.pool[s].state /\ q.active = w.pool[s].active
        /\ q.waiters = w.pool[s].waiters /\ q.retired = w.pool[s].retired /\ q.whenIdle = w.pool[s].whenIdle
    BY <1>1, <2>1 DEF PoolRecord
  <2> HIDE DEF q
  <2>4. /\ u \in Worlds /\ u.batch = w.batch /\ u.session = w.session /\ u.all = w.all
        /\ u.pool[s] = q /\ \A t \in Sessions : t # s => u.pool[t] = w.pool[t]
    BY <1>1, <2>3 DEF Worlds
  <2> HIDE DEF u
  <2>5. \A t \in Sessions : Held(u, {}, t) = Held(w, {}, t) /\ Queued(u, {}, t) = Queued(w, {}, t)
    BY <2>4 DEF Held, Queued
  <2>6. Counted(u, {}, s)
    <3>1. Counted(w, {}, s)
      BY <1>1
    <3> QED BY ONLY <2>3, <2>4, <2>5, <3>1, s \in Sessions DEF Counted
  <2>7. \A t \in Sessions \ {s} : Counted(u, {}, t) /\ Served(u, t)
    <3> TAKE t \in Sessions \ {s}
    <3>1. u.pool[t] = w.pool[t] /\ Counted(w, {}, t) /\ Served(w, t) /\ u.all = w.all
      BY <1>1, <2>4
    <3> QED BY ONLY <2>5, <3>1, t \in Sessions \ {s} DEF Counted, Served
  <2>8. u.pool[s].waiters # <<>> \/ u.pool[s].state = "open" => s \in u.all
    BY <1>1, <2>3, <2>4 DEF Served
  <2>9. /\ \A t \in Sessions : Counted(u, X, t)
        /\ \A t \in Sessions \ {s} : Served(u, t)
        /\ \A c \in Batches \ X : Honest(u.batch[c])
    BY <1>1, <2>4, <2>6, <2>7
  <2>10. X = {}
    OBVIOUS
  <2> HIDE DEF X
  <2>11. Sensible /\ u \in Worlds /\ s \in Sessions
    BY <2>4
  <2>12. /\ Sound(v, X) /\ Alike(u, v)
         /\ v.session = u.session
         /\ \A t \in Sessions : v.pool[t].state = u.pool[t].state
    BY ONLY <2>2, <2>8, <2>9, <2>11, DrainSound
  <2>13. \A t \in Sessions : u.pool[t].state = w.pool[t].state
    BY <2>3, <2>4
  <2>14. Alike(w, u)
    BY <1>1, <2>4, <2>13 DEF Alike, TakesStreams, Worlds
  <2> QED BY <2>4, <2>10, <2>12, <2>13, <2>14 DEF Alike
<1> QED BY <1>2, <1>3

\* SETTINGS.
LEMMA SettingsInv ==
    ASSUME Sensible, Inv, NEW s \in Sessions, Settings(s)
    PROVE  Inv'
<1>1. PICK limit \in RemoteLimits : Becomes(UpdateLimit(World, s, limit))
  BY DEF Settings
<1> DEFINE v == UpdateLimit(World, s, limit)
<1>2. Sound(World, {}) /\ sessionFaults \in 0..MaxSessionFaults /\ detours \in Nat
  BY DEF Inv, TypeOK, Sensible
<1>3. Sound(v, {}) /\ Alike(World, v)
  BY <1>2, LimitSound
<1>4. Becomes(v) /\ UNCHANGED <<transportClosed, detours, sessionFaults>>
  BY <1>1 DEF Settings
<1> HIDE DEF v
<1>5. /\ Opened(World, sessionFaults) => Opened(v, sessionFaults)
      /\ AllAborted(World) => AllAborted(v)
  BY <1>3, AlikeFacts
<1> QED BY <1>2, <1>3, <1>4, <1>5, WorldStep DEF Inv

\* A session is retired: another one may be opened for the fault, or it was not in use.
LEMMA RetiredInv ==
    ASSUME Sensible, Inv, NEW w \in Worlds, Alike(World, w), NEW s \in Sessions, NEW v, Sound(v, {}), Retired(w, v, {}, s),
           w.pool[s].state # "absent", Becomes(v), UNCHANGED <<transportClosed, detours>>,
           \/ SessionFault
           \/ w.pool[s].state # "open" /\ UNCHANGED sessionFaults
    PROVE  Inv'
<1>1. sessionFaults \in 0..MaxSessionFaults /\ detours \in Nat /\ sessionFaults \in Nat
  BY DEF Inv, TypeOK, Sensible
<1>2. AllAborted(World) => AllAborted(w)
  BY AlikeFacts
<1>3. AllAborted(w) => AllAborted(v)
  BY DEF Retired, AllAborted
<1>4. \A t \in Sessions : v.pool[t].state = "absent" <=> World.pool[t].state = "absent"
  BY DEF Retired, Alike
<1>5. ASSUME ~transportClosed PROVE Opened(v, sessionFaults')
  <2>1. PICK n \in 0..sessionFaults + (IF TakesStreams(World) THEN 1 ELSE 0) :
          \A t \in Sessions : World.pool[t].state # "absent" <=> t <= n
    BY <1>5 DEF Inv, Opened
  <2>2. \A t \in Sessions : v.pool[t].state # "absent" <=> t <= n
    BY <1>4, <2>1
  <2>3. CASE SessionFault
    <3>1. n \in 0..sessionFaults' + (IF TakesStreams(v) THEN 1 ELSE 0)
      BY <1>1, <2>1, <2>3 DEF SessionFault
    <3> QED BY <2>2, <3>1 DEF Opened
  <2>4. CASE w.pool[s].state # "open" /\ UNCHANGED sessionFaults
    <3>1. TakesStreams(World) <=> TakesStreams(w)
      BY DEF Alike
    <3>2. TakesStreams(w) => TakesStreams(v)
      <4>1. TakesStreams(w) => w.session # s /\ w.session \in Sessions \cup {Nobody}
        BY <2>4 DEF TakesStreams, Worlds
      <4> QED BY <4>1 DEF TakesStreams, Retired
    <3>3. n \in 0..sessionFaults' + (IF TakesStreams(v) THEN 1 ELSE 0)
      BY <1>1, <2>1, <2>4, <3>1, <3>2
    <3> QED BY <2>2, <3>3 DEF Opened
  <2> QED BY <2>3, <2>4
<1>6. sessionFaults' \in 0..MaxSessionFaults
  BY <1>1 DEF SessionFault, Sensible
<1> QED BY <1>1, <1>2, <1>3, <1>5, <1>6, WorldStep DEF Inv

\* GOAWAY.
LEMMA GoawayInv ==
    ASSUME Sensible, Inv, NEW s \in Sessions, Goaway(s)
    PROVE  Inv'
<1> DEFINE p == [pool[s] EXCEPT !.state = "leaving"]
           l == [World EXCEPT !.pool[s].state = "leaving"]
           X == {}
           how == "when idle"
<1>1. /\ Sound(World, {}) /\ World \in Worlds
      /\ World.batch = batch /\ World.pool = pool /\ World.session = session /\ World.all = allSessions
  BY DEF Inv, TypeOK, World
<1>2. /\ pool[s].state = "open" /\ SessionFault /\ UNCHANGED <<transportClosed, detours>>
      /\ \/ Becomes(RetireSession(l, s, how))
         \/ \E limit \in RemoteLimits : Becomes(RetireSession(UpdateLimit(l, s, limit), s, how))
  BY DEF Goaway
<1>3. /\ pool \in [Sessions -> PoolRecord] /\ pool[s] \in PoolRecord
      /\ \A t \in Sessions : Counted(World, {}, t) /\ Served(World, t)
      /\ \A c \in Batches : Honest(batch[c])
  BY <1>1 DEF Sound, Worlds
<1>4. /\ p \in PoolRecord /\ p.state = "leaving" /\ p.active = pool[s].active /\ p.limit = pool[s].limit
      /\ p.waiters = pool[s].waiters /\ p.retired = pool[s].retired /\ p.whenIdle = pool[s].whenIdle
  BY <1>3 DEF PoolRecord
<1>5. l = [World EXCEPT !.pool[s] = p]
  BY <1>1
<1> HIDE DEF p
<1>6. /\ l \in Worlds /\ l.batch = batch /\ l.session = session /\ l.all = allSessions
      /\ l.pool[s] = p /\ \A t \in Sessions : t # s => l.pool[t] = pool[t]
  BY <1>1, <1>3, <1>4, <1>5 DEF Worlds
<1> HIDE DEF l
<1>7. Sound(l, {})
  <2>1. \A t \in Sessions : Held(l, {}, t) = Held(World, {}, t) /\ Queued(l, {}, t) = Queued(World, {}, t)
    BY <1>1, <1>6 DEF Held, Queued
  <2>2. Counted(l, {}, s) /\ Served(l, s)
    BY <1>1, <1>3, <1>4, <1>6, <2>1 DEF Counted, Served, HasSlot
  <2>3. \A t \in Sessions \ {s} : Counted(l, {}, t) /\ Served(l, t)
    BY <1>1, <1>3, <1>6, <2>1 DEF Counted, Served
  <2> QED BY <1>3, <1>6, <2>2, <2>3 DEF Sound
<1>8. ASSUME NEW w, Sound(w, {}), w.pool[s].state = "leaving",
             \A t \in Sessions : w.pool[t].state = "absent" <=> pool[t].state = "absent",
             \A c \in Batches : w.batch[c].abort = batch[c].abort /\ (w.batch[c].pc \in Moving <=> batch[c].pc \in Moving),
             Becomes(RetireSession(w, s, how))
      PROVE  Inv'
  <2> DEFINE v == RetireSession(w, s, how)
  <2>1. Sensible /\ w \in Worlds /\ s \in Sessions /\ Retirable(w, X, s, how)
    BY <1>8 DEF Sound, Retirable
  <2> HIDE DEF X, how
  <2>2. Sound(v, X) /\ Retired(w, v, X, s)
    BY ONLY <2>1, RetireSound
  <2>3. Becomes(v)
    BY <1>8
  <2> HIDE DEF v
  <2>4. Sound(v, {}) /\ Retired(w, v, {}, s)
    BY <2>2 DEF X
  <2>5. sessionFaults \in 0..MaxSessionFaults /\ detours \in Nat /\ sessionFaults' \in 0..MaxSessionFaults
    BY <1>2 DEF Inv, TypeOK, Sensible, SessionFault
  <2>6. AllAborted(World) => AllAborted(v)
    BY <1>1, <1>8, <2>4 DEF Retired, AllAborted
  <2>7. \A t \in Sessions : v.pool[t].state = "absent" <=> pool[t].state = "absent"
    BY <1>8, <2>4 DEF Retired
  <2>8. ASSUME ~transportClosed PROVE Opened(v, sessionFaults')
    <3>1. PICK n \in 0..sessionFaults + (IF TakesStreams(World) THEN 1 ELSE 0) :
            \A t \in Sessions : pool[t].state # "absent" <=> t <= n
      BY <1>1, <2>8 DEF Inv, Opened
    <3>2. n \in 0..sessionFaults' + (IF TakesStreams(v) THEN 1 ELSE 0)
      BY <1>2, <2>5, <3>1 DEF SessionFault
    <3>3. \A t \in Sessions : v.pool[t].state # "absent" <=> t <= n
      BY <2>7, <3>1
    <3> QED BY <3>2, <3>3 DEF Opened
  <2> QED BY <1>2, <2>3, <2>4, <2>5, <2>6, <2>8, WorldStep DEF Inv
<1>9. CASE Becomes(RetireSession(l, s, how))
  BY <1>1, <1>2, <1>4, <1>6, <1>7, <1>8, <1>9
<1>10. CASE \E limit \in RemoteLimits : Becomes(RetireSession(UpdateLimit(l, s, limit), s, how))
  <2>1. PICK limit \in RemoteLimits : Becomes(RetireSession(UpdateLimit(l, s, limit), s, how))
    BY <1>10
  <2> DEFINE w == UpdateLimit(l, s, limit)
  <2>2. /\ Sound(w, {}) /\ Alike(l, w) /\ \A t \in Sessions : w.pool[t].state = l.pool[t].state
    BY <1>7, LimitSound
  <2>3. Becomes(RetireSession(w, s, how))
    BY <2>1
  <2> HIDE DEF w, how
  <2>4. /\ w.pool[s].state = "leaving"
        /\ \A t \in Sessions : w.pool[t].state = "absent" <=> pool[t].state = "absent"
    BY <1>2, <1>4, <1>6, <2>2
  <2>5. \A c \in Batches : w.batch[c].abort = batch[c].abort /\ (w.batch[c].pc \in Moving <=> batch[c].pc \in Moving)
    BY <1>6, <2>2 DEF Alike
  <2> QED BY <1>8, <2>2, <2>3, <2>4, <2>5
<1> QED BY <1>2, <1>9, <1>10

\* A session breaks.
LEMMA SessionErrorInv ==
    ASSUME Sensible, Inv, NEW s \in Sessions, SessionError(s)
    PROVE  Inv'
<1> DEFINE X == {}
           how == "destroy"
           v == RetireSession(World, s, how)
<1>1. Sound(World, {}) /\ World \in Worlds /\ World.pool = pool
  BY DEF Inv, TypeOK, World
<1>2. /\ World.pool[s].state \in {"open", "leaving"} /\ Becomes(v) /\ SessionFault
      /\ UNCHANGED <<transportClosed, detours>>
  BY <1>1 DEF SessionError
<1>3. Sensible /\ World \in Worlds /\ s \in Sessions /\ Retirable(World, X, s, how)
  BY <1>1, <1>2 DEF Sound, Retirable
<1> HIDE DEF X, how
<1>4. Sound(v, X) /\ Retired(World, v, X, s)
  BY ONLY <1>3, RetireSound
<1> HIDE DEF v
<1>5. Sound(v, {}) /\ Retired(World, v, {}, s)
  BY <1>4 DEF X
<1>6. Alike(World, World) /\ World.pool[s].state # "absent"
  BY <1>2 DEF Alike
<1> QED BY <1>1, <1>2, <1>5, <1>6, RetiredInv

\* The close event of a session.
LEMMA SessionClosedInv ==
    ASSUME Sensible, Inv, NEW s \in Sessions, SessionClosed(s)
    PROVE  Inv'
<1> DEFINE X == {}
           how == "leave"
           w == [World EXCEPT !.all = @ \ {s}]
           v == RetireSession(w, s, how)
<1>1. Sound(World, {}) /\ World \in Worlds /\ World.pool = pool
  BY DEF Inv, TypeOK, World
<1>2. /\ World.pool[s].state = "destroyed" /\ Becomes(v) /\ UNCHANGED <<transportClosed, detours, sessionFaults>>
  BY <1>1 DEF SessionClosed
<1>3. /\ w \in Worlds /\ w.pool = World.pool /\ w.batch = World.batch /\ w.session = World.session
      /\ w.all = World.all \ {s}
  BY <1>1 DEF Worlds
<1> HIDE DEF w
<1>4. \A t \in Sessions : Held(w, {}, t) = Held(World, {}, t) /\ Queued(w, {}, t) = Queued(World, {}, t)
  BY <1>3 DEF Held, Queued
<1>5. \A t \in Sessions : Counted(w, {}, t) /\ (t # s => Served(w, t))
  <2> TAKE t \in Sessions
  <2>1. Counted(World, {}, t) /\ Served(World, t)
    BY <1>1 DEF Sound
  <2> QED BY ONLY <1>3, <1>4, <2>1, t \in Sessions DEF Counted, Served
<1>6. \A c \in Batches : Honest(w.batch[c])
  BY <1>1, <1>3 DEF Sound
<1>7. Sensible /\ w \in Worlds /\ s \in Sessions /\ Retirable(w, X, s, how)
  BY <1>2, <1>3, <1>5, <1>6 DEF Retirable
<1> HIDE DEF X, how
<1>8. Sound(v, X) /\ Retired(w, v, X, s)
  BY ONLY <1>7, RetireSound
<1> HIDE DEF v
<1>9. Sound(v, {}) /\ Retired(w, v, {}, s)
  BY <1>8 DEF X
<1>10. Alike(World, w) /\ w.pool[s].state # "absent" /\ w.pool[s].state # "open"
  BY <1>2, <1>3 DEF Alike, TakesStreams
<1> QED BY <1>2, <1>3, <1>9, <1>10, RetiredInv

---------------------------------------------------------------------------
(* Aborts.                                                                 *)

\* A waiter leaves the queue.
LEMMA LeaveSound ==
    ASSUME Sensible, NEW w, Sound(w, {}), NEW b \in Batches, w.batch[b].pc = "waiting", NEW s, s = w.batch[b].on,
           NEW u, u = [w EXCEPT !.pool[s].waiters = Without(@, b)]
    PROVE  /\ SoundBut(u, b) /\ u.batch = w.batch /\ u.session = w.session
           /\ \A t \in Sessions : u.pool[t].state = w.pool[t].state
<1>1. /\ w \in Worlds /\ s \in Sessions /\ w.pool \in [Sessions -> PoolRecord] /\ w.pool[s] \in PoolRecord
      /\ w.pool[s].waiters \in Seq(Batches)
      /\ \A t \in Sessions : Counted(w, {}, t) /\ Served(w, t)
      /\ \A c \in Batches : Honest(w.batch[c])
  <2>1. Honest(w.batch[b])
    BY DEF Sound
  <2> QED BY <2>1 DEF Sound, Honest, Worlds, PoolRecord
<1> DEFINE q == [w.pool[s] EXCEPT !.waiters = Without(w.pool[s].waiters, b)]
<1>2. Counted(w, {}, s) /\ Served(w, s)
  BY <1>1
<1>3. /\ Without(w.pool[s].waiters, b) \in Seq(Batches)
      /\ Items(Without(w.pool[s].waiters, b)) = Items(w.pool[s].waiters) \ {b}
      /\ Distinct(Without(w.pool[s].waiters, b))
  <2>1. b \in Items(w.pool[s].waiters) /\ Distinct(w.pool[s].waiters)
    BY <1>2 DEF Counted, Queued
  <2> QED BY ONLY <1>1, <2>1, WithoutFacts
<1>4. w.pool[s].waiters # <<>>
  <2>1. b \in Items(w.pool[s].waiters)
    BY <1>2 DEF Counted, Queued
  <2>2. Items(<<>>) = {}
    BY DEF Items
  <2> QED BY <2>1, <2>2
<1>5. /\ q \in PoolRecord /\ q.state = w.pool[s].state /\ q.limit = w.pool[s].limit /\ q.active = w.pool[s].active
      /\ q.retired = w.pool[s].retired /\ q.whenIdle = w.pool[s].whenIdle
      /\ q.waiters = Without(w.pool[s].waiters, b)
  BY <1>1, <1>3 DEF PoolRecord
<1>6. u = [w EXCEPT !.pool[s] = q]
  BY <1>1
<1> HIDE DEF q
<1>7. /\ u \in Worlds /\ u.batch = w.batch /\ u.session = w.session /\ u.all = w.all
      /\ u.pool[s] = q /\ \A t \in Sessions : t # s => u.pool[t] = w.pool[t]
  <2>1. /\ u.batch = w.batch /\ u.session = w.session /\ u.all = w.all
        /\ u.pool = [w.pool EXCEPT ![s] = q]
    BY <1>1, <1>6 DEF Worlds
  <2>2. /\ u.pool \in [Sessions -> PoolRecord] /\ u.pool[s] = q
        /\ \A t \in Sessions : t # s => u.pool[t] = w.pool[t]
    BY ONLY <2>1, <1>1, <1>5
  <2>3. u \in Worlds
    BY ONLY <1>1, <1>6, <2>1, <2>2 DEF Worlds
  <2> QED BY ONLY <2>1, <2>2, <2>3
<1>8. /\ \A t \in Sessions : Held(u, {b}, t) = Held(w, {}, t)
      /\ \A t \in Sessions : t # s => Queued(u, {b}, t) = Queued(w, {}, t)
      /\ Queued(u, {b}, s) = Queued(w, {}, s) \ {b}
  BY <1>7 DEF Held, Queued, Holding
<1>9. Counted(u, {b}, s) /\ Served(u, s)
  BY <1>2, <1>3, <1>4, <1>5, <1>7, <1>8 DEF Counted, Served, HasSlot
<1>10. \A t \in Sessions \ {s} : Counted(u, {b}, t) /\ Served(u, t)
  <2> TAKE t \in Sessions \ {s}
  <2>1. u.pool[t] = w.pool[t] /\ Counted(w, {}, t) /\ Served(w, t) /\ u.all = w.all
    BY <1>1, <1>7
  <2> QED BY ONLY <1>8, <2>1, t \in Sessions \ {s} DEF Counted, Served
<1> QED BY <1>1, <1>5, <1>7, <1>9, <1>10 DEF SoundBut, Sound

\* The timer of a batch fires.
LEMMA TimeoutInv ==
    ASSUME Sensible, Inv, NEW b \in Batches, Timeout(b)
    PROVE  Inv'
<1>1. /\ Sound(World, {}) /\ World \in Worlds /\ Honest(batch[b]) /\ batch[b] \in BatchRecord /\ World.batch = batch
      /\ World.pool = pool /\ World.session = session
      /\ sessionFaults \in 0..MaxSessionFaults /\ detours \in Nat
      /\ ~transportClosed => Opened(World, sessionFaults)
  BY OfTheBatch
<1> DEFINE v == Abort(World, b, "timeout")
           s == batch[b].on
<1>2. /\ batch[b].pc \in {"waiting", "streaming", "executed"} /\ Becomes(v)
      /\ UNCHANGED <<transportClosed, detours, sessionFaults>>
  BY DEF Timeout
<1>3. CASE batch[b].pc = "waiting"
  <2> DEFINE u == [World EXCEPT !.pool[s].waiters = Without(@, b)]
  <2>1. v = Finish(u, b, "possibly_sent")
    BY <1>1, <1>3 DEF Abort
  <2>2. /\ SoundBut(u, b) /\ u.batch = batch /\ u.session = session
        /\ \A t \in Sessions : u.pool[t].state = pool[t].state
    <3>1. World.batch[b].pc = "waiting" /\ s = World.batch[b].on
      BY <1>1, <1>3
    <3> QED BY <1>1, <3>1, LeaveSound
  <2> HIDE DEF u
  <2>3. u.batch[b].executed = 0
    BY <1>1, <1>3, <2>2 DEF Honest
  <2> HIDE DEF v
  <2>4. /\ Sound(v, {}) /\ v.batch[b].pc = "done" /\ v.pool = u.pool /\ v.session = u.session
        /\ \A c \in Batches : c # b => v.batch[c] = u.batch[c]
    BY <2>1, <2>2, <2>3, FinishSound
  <2>5. Opened(World, sessionFaults) => Opened(v, sessionFaults)
    <3>1. TakesStreams(World) <=> TakesStreams(v)
      BY <1>1, <2>2, <2>4 DEF TakesStreams, Worlds
    <3> QED BY <1>1, <2>2, <2>4, <3>1 DEF Opened
  <2>6. AllAborted(World) => AllAborted(v)
    BY <1>1, <2>2, <2>4 DEF AllAborted, Moving, Holding
  <2> QED BY <1>1, <1>2, <2>4, <2>5, <2>6, WorldStep DEF Inv, v
<1>4. CASE batch[b].pc # "waiting"
  <2> DEFINE r == [batch[b] EXCEPT !.abort = "timeout"]
  <2>1. v = Placed(World, b, r)
    BY <1>1, <1>2, <1>4 DEF Abort, Placed, Worlds
  <2>2. /\ r \in BatchRecord /\ r.pc = batch[b].pc /\ r.on = batch[b].on /\ r.abort # "no"
        /\ r.executed = batch[b].executed /\ r.result = batch[b].result
    BY <1>1 DEF BatchRecord
  <2> HIDE DEF r, v
  <2>3. Honest(r)
    BY <1>1, <2>2 DEF Honest
  <2>4. /\ Sound(v, {}) /\ v.batch[b] = r
        /\ v.pool = World.pool /\ v.session = World.session
        /\ \A c \in Batches : c # b => v.batch[c] = World.batch[c]
    BY <1>1, <2>1, <2>2, <2>3, MoveSound
  <2>5. Opened(World, sessionFaults) => Opened(v, sessionFaults)
    BY <2>4 DEF Opened, TakesStreams
  <2>6. AllAborted(World) => AllAborted(v)
    BY <2>2, <2>4 DEF AllAborted
  <2> QED BY <1>1, <1>2, <2>4, <2>5, <2>6, WorldStep DEF Inv, v
<1> QED BY <1>3, <1>4

\* close().
LEMMA CloseInv ==
    ASSUME Sensible, Inv, Close
    PROVE  Inv'
<1> DEFINE W == World'
<1>1. /\ Sound(World, {}) /\ World \in Worlds
      /\ World.batch = batch /\ World.pool = pool /\ World.session = session /\ World.all = allSessions
      /\ sessionFaults \in Nat /\ sessionFaults <= MaxSessionFaults /\ detours \in Nat
  BY DEF Inv, TypeOK, World
<1>2. /\ batch \in [Batches -> BatchRecord] /\ pool \in [Sessions -> PoolRecord] /\ allSessions \subseteq Sessions
      /\ \A s \in Sessions : Counted(World, {}, s) /\ Served(World, s)
      /\ \A b \in Batches : Honest(batch[b])
  BY <1>1 DEF Sound, Worlds
<1>3. /\ transportClosed' = TRUE /\ session' = Nobody /\ allSessions' = {} /\ UNCHANGED <<detours, sessionFaults>>
      /\ batch' = [b \in Batches |-> Abort(World, b, "closed").batch[b]]
  BY DEF Close
<1>4. \A b \in Batches :
         /\ batch'[b] \in BatchRecord /\ Honest(batch'[b])
         /\ batch'[b].pc \in Moving => batch'[b].abort # "no"
         /\ batch'[b].pc # "waiting"
         /\ batch'[b].pc \in Holding <=> batch[b].pc \in Holding
         /\ batch[b].pc \in Holding => batch'[b].on = batch[b].on
  <2> TAKE b \in Batches
  <2>1. batch[b] \in BatchRecord /\ Honest(batch[b])
    BY <1>2
  <2>2. batch'[b] = Abort(World, b, "closed").batch[b]
    BY <1>3
  <2>3. CASE batch[b].pc = "waiting"
    <3> DEFINE r == [NoBatch EXCEPT !.pc = "done", !.executed = batch[b].executed, !.result = "possibly_sent"]
    <3>1. Abort(World, b, "closed").batch[b] = r
      BY <1>1, <1>2, <2>3 DEF Abort, Finish, Worlds
    <3>2. r \in BatchRecord /\ r.pc = "done" /\ r.result = "possibly_sent" /\ r.executed = batch[b].executed
      BY <2>1 DEF BatchRecord, NoBatch, Nobody
    <3> HIDE DEF r
    <3> QED BY <2>1, <2>2, <2>3, <3>1, <3>2 DEF Honest, Holding, Moving
  <2>4. CASE batch[b].pc \in Holding \cup {"rejected"}
    <3> DEFINE r == [batch[b] EXCEPT !.abort = "closed"]
    <3>1. Abort(World, b, "closed").batch[b] = r
      BY <1>1, <1>2, <2>4 DEF Abort, Holding, Worlds
    <3>2. /\ r \in BatchRecord /\ r.abort = "closed" /\ r.pc = batch[b].pc /\ r.on = batch[b].on
          /\ r.executed = batch[b].executed /\ r.result = batch[b].result
      BY <2>1 DEF BatchRecord
    <3> HIDE DEF r
    <3> QED BY <2>1, <2>2, <2>4, <3>1, <3>2 DEF Honest, Holding
  <2>5. CASE batch[b].pc \in {"idle", "done"}
    <3>1. Abort(World, b, "closed").batch[b] = batch[b]
      BY <1>1, <2>5 DEF Abort
    <3> QED BY <2>1, <2>2, <2>5, <3>1 DEF Holding, Moving
  <2> QED BY <2>1, <2>3, <2>4, <2>5 DEF BatchRecord, Moving, Holding
<1>5. \A s \in Sessions :
         /\ pool'[s] \in PoolRecord /\ pool'[s].active = pool[s].active /\ pool'[s].retired = pool[s].retired
         /\ pool'[s].waiters = <<>> /\ pool'[s].state \in {pool[s].state, "destroyed"} /\ pool'[s].state # "open"
         /\ pool'[s].whenIdle = pool[s].whenIdle
  <2> TAKE s \in Sessions
  <2> DEFINE q == [pool[s] EXCEPT !.state = "destroyed", !.limit = Unknown, !.waiters = <<>>]
  <2>1. pool[s] \in PoolRecord /\ Served(World, s)
    BY <1>2
  <2>2. pool'[s] = IF s \in allSessions THEN q ELSE pool[s]
    BY DEF Close
  <2>3. /\ q \in PoolRecord /\ q.active = pool[s].active /\ q.retired = pool[s].retired /\ q.whenIdle = pool[s].whenIdle
        /\ q.waiters = <<>> /\ q.state = "destroyed"
    <3>1. Unknown \in 0..Unknown /\ <<>> \in Seq(Batches)
      BY DEF Unknown, Sensible
    <3> QED BY <2>1, <3>1 DEF PoolRecord
  <2> HIDE DEF q
  <2>4. s \notin allSessions => pool[s].waiters = <<>> /\ pool[s].state # "open"
    BY <1>1, <2>1 DEF Served
  <2> QED BY <2>1, <2>2, <2>3, <2>4
<1>6. /\ W.batch = batch' /\ W.pool = pool' /\ W.session = session' /\ W.all = allSessions'
      /\ W = [batch |-> batch', pool |-> pool', session |-> session', all |-> allSessions']
  BY DEF World
<1> HIDE DEF W
<1>7. W \in Worlds
  <2>1. batch' \in [Batches -> BatchRecord]
    BY <1>3, <1>4
  <2>2. pool' \in [Sessions -> PoolRecord]
    BY <1>5 DEF Close
  <2> QED BY <1>3, <1>6, <2>1, <2>2 DEF Worlds
<1>8. \A s \in Sessions : Counted(W, {}, s) /\ Served(W, s)
  <2> TAKE s \in Sessions
  <2>1. Counted(World, {}, s)
    BY <1>2
  <2>2. Held(W, {}, s) = Held(World, {}, s) /\ Queued(W, {}, s) = {}
    BY <1>1, <1>4, <1>6 DEF Held, Queued
  <2>3. /\ W.pool[s].active = pool[s].active /\ W.pool[s].retired = pool[s].retired
        /\ W.pool[s].waiters = <<>> /\ W.pool[s].state \in {pool[s].state, "destroyed"} /\ W.pool[s].state # "open"
        /\ W.pool[s].whenIdle = pool[s].whenIdle
    BY <1>5, <1>6
  <2>4. Items(<<>>) = {} /\ Distinct(<<>>)
    BY DEF Items, Distinct
  <2> QED BY ONLY <1>1, <2>1, <2>2, <2>3, <2>4, s \in Sessions DEF Counted, Served
<1>9. \A b \in Batches : Honest(W.batch[b])
  BY <1>4, <1>6
<1>10. Sound(W, {}) /\ AllAborted(W)
  BY <1>4, <1>6, <1>7, <1>8, <1>9 DEF Sound, AllAborted
<1>11. TypeOK'
  BY <1>1, <1>3, <1>7 DEF TypeOK, W
<1>12. Sound(World, {})' /\ AllAborted(World)'
  BY <1>10 DEF W
<1> QED BY <1>1, <1>3, <1>11, <1>12 DEF Inv

---------------------------------------------------------------------------
(* The theorems.                                                           *)

\* At the start nothing is posted.
LEMMA InitInv == Sensible /\ Init => Inv
<1> SUFFICES ASSUME Sensible, Init PROVE Inv
  OBVIOUS
<1>1. NoBatch \in BatchRecord /\ Honest(NoBatch) /\ NoBatch.pc = "idle"
  BY DEF NoBatch, BatchRecord, Honest, Holding, Moving, Nobody
<1>2. /\ NoSession \in PoolRecord /\ NoSession.active = 0 /\ NoSession.waiters = <<>> /\ NoSession.state = "absent"
      /\ NoSession.retired = FALSE /\ NoSession.whenIdle = FALSE
  <2>1. Unknown \in 0..Unknown /\ <<>> \in Seq(Batches)
    BY DEF Unknown, Sensible
  <2> QED BY <2>1 DEF NoSession, PoolRecord
<1>3. /\ World.batch = batch /\ World.pool = pool /\ World.session = Nobody /\ World.all = {}
      /\ \A b \in Batches : batch[b] = NoBatch
      /\ \A s \in Sessions : pool[s] = NoSession
      /\ transportClosed = FALSE /\ detours = 0 /\ sessionFaults = 0
  BY DEF Init, World
<1>4. World \in Worlds
  BY <1>1, <1>2 DEF Init, World, Worlds
<1>5. \A s \in Sessions : Counted(World, {}, s) /\ Served(World, s)
  <2> TAKE s \in Sessions
  <2>1. Held(World, {}, s) = {} /\ Queued(World, {}, s) = {}
    BY <1>1, <1>3 DEF Held, Queued, Holding
  <2>2. Items(<<>>) = {} /\ Distinct(<<>>) /\ Cardinality({}) = 0
    BY FS_EmptySet DEF Items, Distinct
  <2>3. World.pool[s] = NoSession /\ MaxConnections \in Nat
    BY <1>3 DEF Sensible
  <2>4. /\ World.pool[s].active = 0 /\ World.pool[s].waiters = <<>> /\ World.pool[s].state = "absent"
        /\ World.pool[s].retired = FALSE /\ World.pool[s].whenIdle = FALSE
    BY <1>2, <2>3
  <2>5. Counted(World, {}, s)
    <3>1. Cardinality(Held(World, {}, s)) = 0
      BY <2>1, <2>2
    <3>2. Items(World.pool[s].waiters) = Queued(World, {}, s) /\ Distinct(World.pool[s].waiters)
      BY <2>1, <2>2, <2>4
    <3>3. 0 <= MaxConnections
      BY <2>3
    <3> QED BY ONLY <2>4, <3>1, <3>2, <3>3 DEF Counted
  <2>6. Served(World, s)
    BY ONLY <2>4 DEF Served
  <2> QED BY <2>5, <2>6
<1>6. Sound(World, {})
  BY <1>1, <1>3, <1>4, <1>5 DEF Sound
<1>7. Opened(World, sessionFaults)
  <2>1. ~TakesStreams(World) /\ 0 \in 0..(0 + 0)
    BY <1>3 DEF TakesStreams
  <2>2. \A s \in Sessions : World.pool[s].state # "absent" <=> s <= 0
    BY <1>2, <1>3 DEF Sessions
  <2> QED BY <1>3, <2>1, <2>2 DEF Opened
<1>8. TypeOK
  BY <1>3, <1>4 DEF TypeOK
<1>9. 0 <= MaxSessionFaults /\ (transportClosed => AllAborted(World))
  BY <1>3 DEF Sensible
<1> QED BY <1>3, <1>6, <1>7, <1>8, <1>9 DEF Inv

\* Every step keeps the invariant.
LEMMA NextInv == Sensible /\ Inv /\ [Next]_httpVars => Inv'
<1> SUFFICES ASSUME Sensible, Inv, [Next]_httpVars PROVE Inv'
  OBVIOUS
<1>1. CASE UNCHANGED httpVars
  <2>1. World' = World
    BY <1>1 DEF httpVars, World
  <2>2. Sound(World, {})' /\ (~transportClosed => Opened(World, sessionFaults))' /\ (transportClosed => AllAborted(World))'
    BY <1>1, <2>1 DEF Inv, httpVars
  <2>3. TypeOK'
    BY <1>1, <2>1 DEF Inv, TypeOK, httpVars
  <2> QED BY <1>1, <2>2, <2>3 DEF Inv, httpVars
<1>2. ASSUME NEW b \in Batches, Post(b) PROVE Inv'
  BY <1>2, PostInv
<1>3. ASSUME NEW b \in Batches, Open(b) PROVE Inv'
  BY <1>3, OpenInv
<1>4. ASSUME NEW b \in Batches, Rejected(b) PROVE Inv'
  BY <1>4, RejectedInv
<1>5. ASSUME NEW b \in Batches, Broken(b) \/ Refuse(b) PROVE Inv'
  BY <1>5, BrokenInv
<1>6. ASSUME NEW b \in Batches, Execute(b) PROVE Inv'
  BY <1>6, ExecuteInv
<1>7. ASSUME NEW b \in Batches, Answer(b) PROVE Inv'
  BY <1>7, AnswerInv
<1>8. ASSUME NEW b \in Batches, Timeout(b) PROVE Inv'
  BY <1>8, TimeoutInv
<1>9. ASSUME NEW s \in Sessions, SessionClosed(s) PROVE Inv'
  BY <1>9, SessionClosedInv
<1>10. ASSUME NEW s \in Sessions, Settings(s) PROVE Inv'
  BY <1>10, SettingsInv
<1>11. ASSUME NEW s \in Sessions, Goaway(s) PROVE Inv'
  BY <1>11, GoawayInv
<1>12. ASSUME NEW s \in Sessions, SessionError(s) PROVE Inv'
  BY <1>12, SessionErrorInv
<1>13. CASE Close
  BY <1>13, CloseInv
<1> QED BY <1>1, <1>2, <1>3, <1>4, <1>5, <1>6, <1>7, <1>8, <1>9, <1>10, <1>11, <1>12, <1>13 DEF Next, Continue, Due

\* The invariant implies what is promised of the slots and of the results.
LEMMA InvImplies == Sensible /\ Inv => SlotsConserved /\ ExecutedAsReported
<1> SUFFICES ASSUME Sensible, Inv PROVE SlotsConserved /\ ExecutedAsReported
  OBVIOUS
<1>1. Sound(World, {}) /\ World.batch = batch /\ World.pool = pool /\ World \in Worlds
  BY DEF Inv, TypeOK, World
<1>2. SlotsConserved
  <2> SUFFICES ASSUME NEW s \in Sessions
               PROVE  LET p == pool[s] IN
                      /\ p.active = Cardinality({b \in Batches : HoldsSlot(b) /\ batch[b].on = s})
                      /\ p.active <= MaxConnections
                      /\ {p.waiters[i] : i \in DOMAIN p.waiters}
                              = {b \in Batches : batch[b].pc = "waiting" /\ batch[b].on = s}
                      /\ \A i, j \in DOMAIN p.waiters : p.waiters[i] = p.waiters[j] => i = j
                      /\ p.waiters # <<>> => ~HasSlot(p) /\ ~p.retired
    BY DEF SlotsConserved
  <2>1. Counted(World, {}, s) /\ Served(World, s)
    BY <1>1 DEF Sound
  <2>2. /\ Held(World, {}, s) = {b \in Batches : HoldsSlot(b) /\ batch[b].on = s}
        /\ Queued(World, {}, s) = {b \in Batches : batch[b].pc = "waiting" /\ batch[b].on = s}
    BY <1>1 DEF Held, Queued, HoldsSlot, Holding
  <2>3. DOMAIN pool[s].waiters = 1..Len(pool[s].waiters)
    BY <1>1 DEF Worlds, PoolRecord
  <2>4. {pool[s].waiters[i] : i \in DOMAIN pool[s].waiters} = Items(pool[s].waiters)
    BY <2>3 DEF Items
  <2>5. \A i, j \in DOMAIN pool[s].waiters : pool[s].waiters[i] = pool[s].waiters[j] => i = j
    BY <1>1, <2>1, <2>3 DEF Counted, Distinct
  <2>6. /\ pool[s].active = Cardinality(Held(World, {}, s)) /\ pool[s].active <= MaxConnections
        /\ Items(pool[s].waiters) = Queued(World, {}, s)
        /\ pool[s].waiters # <<>> => ~HasSlot(pool[s]) /\ ~pool[s].retired
    BY <1>1, <2>1 DEF Counted, Served
  <2> QED BY <2>2, <2>4, <2>5, <2>6
<1>3. ExecutedAsReported
  <2> SUFFICES ASSUME NEW b \in Batches
               PROVE  /\ batch[b].executed <= 1
                      /\ batch[b].result \in {"unsent", "safe_to_retry"} => batch[b].executed = 0
                      /\ batch[b].result = "ok" => batch[b].executed = 1
    BY DEF ExecutedAsReported
  <2>1. Honest(batch[b]) /\ batch[b] \in BatchRecord
    BY <1>1 DEF Sound, Worlds
  <2> QED BY <2>1 DEF Honest, BatchRecord, Moving, Holding
<1> QED BY <1>2, <1>3

\* The types of the model's variables.
THEOREM TypeCorrect ==
    ASSUME Sensible
    PROVE  Spec => []TypeOK
<1>1. Init => Inv
  BY InitInv
<1>2. Inv /\ [Next]_httpVars => Inv'
  BY NextInv
<1>3. Inv => TypeOK
  BY DEF Inv
<1> QED BY <1>1, <1>2, <1>3, PTL DEF Spec

\* Every slot in use is held by one request, the queue holds those that wait, and nobody
\* waits for a free slot (HTTP2SlotPool).
THEOREM EverySlotIsHeldByOne ==
    ASSUME Sensible
    PROVE  Spec => []SlotsConserved
<1>1. Init => Inv
  BY InitInv
<1>2. Inv /\ [Next]_httpVars => Inv'
  BY NextInv
<1>3. Inv => SlotsConserved
  BY InvImplies
<1> QED BY <1>1, <1>2, <1>3, PTL DEF Spec

\* A batch is executed at most once, and its result does not promise that it may be sent
\* again after it was (http2Request, topLevelError).
THEOREM ResultsAreTrue ==
    ASSUME Sensible
    PROVE  Spec => []ExecutedAsReported
<1>1. Init => Inv
  BY InitInv
<1>2. Inv /\ [Next]_httpVars => Inv'
  BY NextInv
<1>3. Inv => ExecutedAsReported
  BY InvImplies
<1> QED BY <1>1, <1>2, <1>3, PTL DEF Spec
=============================================================================
