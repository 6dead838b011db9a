------------------------- MODULE DurableStepsProofs -------------------------
(***************************************************************************)
(* Durable steps, for any workers, steps, values and calls of a handler:   *)
(* they implement the journal, a lease that was replaced is not renewed,   *)
(* and no outcome is written with one.                                     *)
(***************************************************************************)
EXTENDS DurableSteps, TLAPS

CallRecord ==
    [pc : {"unused", "validating", "recorded", "running", "pausing", "paused", "committing",
           "committed", "rejected", "done", "failed"},
     name : Names \cup {None}, to : States \cup {None}, token : Nat,
     value : Values \cup {None}]

Context == [token : Nat, phase : {"idle", "committing", "uncertain"}]

Guard == [state : {"active", "paused", "stopped"}, token : Nat, inFlight : Nat, error : BOOLEAN]

Request == [kind : {"commit", "outcome"}, worker : Workers, token : Nat, name : Names \cup {None},
            to : States \cup {"end", None}, value : Values \cup {None}]

ServerOK ==
    /\ flow \in [state : {"ready", "running", "ended"}, runState : States, fence : Nat,
                 owner : Workers \cup {None}]
    /\ flow.owner = None <=> flow.state # "running"
    /\ journal \in [Names -> Values \cup {None}]

TypeOK ==
    /\ disciplined \in BOOLEAN
    /\ ServerOK
    /\ returned \in [Names -> SUBSET Values]
    /\ late \in SUBSET Request
    /\ handler \in [Workers -> {"idle", "runs", "stopping"}]
    /\ ctx \in [Workers -> Context]
    /\ guard \in [Workers -> Guard]
    /\ call \in [Workers -> UNION {[CallsOf(w) -> CallRecord] : w \in Workers}]
    /\ \A w \in Workers : call[w] \in [CallsOf(w) -> CallRecord]

Active(r) == r.pc \notin {"unused", "done", "failed"}

\* The lease of a request, or of the context h is a handler of, is not of the future; if it
\* is the current one, the worker holds it.
Leased(w, token) == LeaseIsCurrent(token) => flow.owner = w

Holds(w, h, x) == x.token <= flow.fence /\ (h # "idle" => Leased(w, x.token))

\* What a call knows of its step.  As long as the lease is the one the call was validated
\* with, no result is recorded; one that is recorded stays.
Knows(w, r) ==
    /\ r.token <= flow.fence
    /\ Active(r) => Leased(w, r.token) /\ r.to \in States
    /\ r.pc \in {"validating", "recorded", "running"} => r.name # None
    /\ r.pc \in {"running", "pausing", "paused", "committing"}
       /\ r.name # None /\ LeaseIsCurrent(r.token) => journal[r.name] = None
    /\ r.pc \in {"pausing", "paused", "committing", "committed"} /\ r.name # None
         => r.value \in Values
    /\ r.pc = "recorded" => r.value # None
    /\ r.pc \in {"recorded", "committed"} /\ r.name # None => r.value = journal[r.name]

\* A commit that may still come has the current lease, of a worker that does not go on; and
\* as it has that lease, its step is not recorded.
MayCome(q) ==
    /\ q.kind = "outcome" => q.to \in Outcomes
    /\ q.kind = "commit" =>
         /\ LeaseIsCurrent(q.token) /\ q.worker = flow.owner /\ q.to \in States
         /\ q.name # None => q.value \in Values /\ journal[q.name] = None
         /\ disciplined => handler[q.worker] = "idle" \/ ctx[q.worker].phase = "uncertain"

---------------------------------------------------------------------------
(* Handlers that await each call and make none after a failed one.         *)

Writing == {"committing", "committed", "rejected"}

\* All calls before c are done, all after it still to come.
Only(w, c) == \A d \in CallsOf(w) : /\ d < c => call[w][d].pc = "done"
                                    /\ c < d => call[w][d].pc = "unused"

\* What holds of the context x, the guard g and the one call r that is not done.
Single(w, x, g, r) ==
    /\ g.state # "stopped"
    /\ x.phase = "committing" <=> r.pc \in Writing
    /\ x.phase = "uncertain" => r.pc = "failed"
    /\ x.phase # "idle" => g.inFlight = 0 /\ g.state # "active"
    /\ r.pc # "paused"
    /\ g.state = "paused" /\ x.phase = "idle" => r.pc = "pausing" \/ (r.pc = "failed" /\ g.error)
    /\ r.pc = "pausing" => g.state = "paused" /\ x.phase = "idle"
    /\ g.state = "active" => g.token = x.token
    /\ g.inFlight # 0 => g.inFlight = x.token
    /\ Active(r) /\ r.pc # "committed" => r.token = x.token
    /\ flow.owner = w /\ x.phase # "uncertain"
         => flow.fence = IF r.pc = "committed" THEN r.token ELSE x.token

\* What holds of the context x and the guard g of a worker whose calls are over.
Between(w, x, g) ==
    /\ x.phase # "committing"
    /\ x.phase # "idle" => g.inFlight = 0 /\ g.state # "active"
    /\ g.state = "active" => g.token = x.token
    /\ g.inFlight # 0 => g.inFlight = x.token
    /\ flow.owner = w /\ x.phase # "uncertain" => flow.fence = x.token

\* Where a worker may stand: idle, between two calls, in one, or stopping.
Disciplined(w) ==
    \/ /\ handler[w] = "idle" /\ guard[w] = NoGuard /\ ctx[w] = NoContext
       /\ \A c \in CallsOf(w) : call[w][c] = NoCall
    \/ /\ handler[w] = "runs" /\ Between(w, ctx[w], guard[w])
       /\ ctx[w].phase = "idle" /\ guard[w].state = "active"
       /\ \A c \in CallsOf(w) : call[w][c].pc \in {"done", "unused"}
       /\ \A c, d \in CallsOf(w) : c < d /\ call[w][d].pc # "unused" => call[w][c].pc = "done"
    \/ /\ handler[w] = "runs"
       /\ \E c \in CallsOf(w) : /\ Only(w, c) /\ call[w][c].pc \notin {"unused", "done"}
                                /\ Single(w, ctx[w], guard[w], call[w][c])
    \/ /\ handler[w] = "stopping" /\ Between(w, ctx[w], guard[w])
       /\ guard[w].state = "stopped"
       /\ \A c \in CallsOf(w) : ~Active(call[w][c])

WorkerOK(w) == /\ Holds(w, handler[w], ctx[w])
               /\ \A c \in CallsOf(w) : Knows(w, call[w][c])
               /\ disciplined => Disciplined(w)

Inv == /\ TypeOK
       /\ \A w \in Workers : WorkerOK(w)
       /\ \A q \in late : MayCome(q)

---------------------------------------------------------------------------
(* Helpers of the proofs.                                                  *)

LEMMA CallNumbers ==
    ASSUME NEW w \in Workers
    PROVE  CallsOf(w) \subseteq Nat /\ None \notin Names /\ None \notin Values /\ None \notin Workers
BY StepsAssumption DEF CallsOf

\* What changes when one call of one worker does.
LEMMA OneCall ==
    ASSUME TypeOK, NEW w \in Workers, NEW c \in CallsOf(w), NEW r \in CallRecord,
           call' = [call EXCEPT ![w][c] = r]
    PROVE  /\ call' \in [Workers -> UNION {[CallsOf(u) -> CallRecord] : u \in Workers}]
           /\ \A u \in Workers : call'[u] \in [CallsOf(u) -> CallRecord]
           /\ call'[w][c] = r
           /\ \A d \in CallsOf(w) : d # c => call'[w][d] = call[w][d]
           /\ \A u \in Workers : u # w => call'[u] = call[u]
<1> DEFINE calls == [call[w] EXCEPT ![c] = r]
<1>1. call' = [call EXCEPT ![w] = calls]
  OBVIOUS
<1>2. calls \in [CallsOf(w) -> CallRecord]
  BY DEF TypeOK
<1>3. calls[c] = r /\ \A d \in CallsOf(w) : d # c => calls[d] = call[w][d]
  BY DEF TypeOK
<1> HIDE DEF calls
<1>4. call'[w] = calls /\ \A u \in Workers : u # w => call'[u] = call[u]
  BY <1>1 DEF TypeOK
<1>5. \A u \in Workers : call'[u] \in [CallsOf(u) -> CallRecord]
  BY <1>2, <1>4 DEF TypeOK
<1>6. DOMAIN call' = Workers /\ call' = [u \in Workers |-> call'[u]]
  BY <1>1 DEF TypeOK
<1>7. call' \in [Workers -> UNION {[CallsOf(u) -> CallRecord] : u \in Workers}]
  <2> DEFINE all == UNION {[CallsOf(u) -> CallRecord] : u \in Workers}
  <2>1. \A u \in Workers : call'[u] \in all
    BY <1>5
  <2> HIDE DEF all
  <2>2. [u \in Workers |-> call'[u]] \in [Workers -> all]
    BY <2>1
  <2> QED BY <1>6, <2>2 DEF all
<1> QED BY <1>3, <1>4, <1>5, <1>7

\* Where a handler stands whose call c is now r.
Stands(w, x, g, r) ==
    IF r.pc = "done" THEN Between(w, x, g) /\ x.phase = "idle" /\ g.state = "active"
    ELSE r.pc # "unused" /\ Single(w, x, g, r)

\* A call under way is the only one of its handler, and its worker goes on.
LEMMA InCall ==
    ASSUME Inv, disciplined, NEW w \in Workers, NEW c \in CallsOf(w), Active(call[w][c])
    PROVE  /\ handler[w] = "runs" /\ Only(w, c) /\ ctx[w].phase # "uncertain"
           /\ Single(w, ctx[w], guard[w], call[w][c])
<1>1. Disciplined(w) /\ CallsOf(w) \subseteq Nat
  BY CallNumbers DEF Inv, WorkerOK
<1>2. call[w][c].pc \notin {"unused", "done", "failed"}
  BY DEF Active
<1>3. PICK d \in CallsOf(w) : /\ handler[w] = "runs" /\ Only(w, d)
                              /\ Single(w, ctx[w], guard[w], call[w][d])
  BY <1>1, <1>2 DEF Disciplined, Active, NoCall
<1>4. d = c
  BY <1>1, <1>2, <1>3 DEF Only
<1> QED BY <1>2, <1>3, <1>4 DEF Single

\* A call starts when the ones before it are done.
LEMMA AtStart ==
    ASSUME Inv, disciplined, NEW w \in Workers, NEW c \in CallsOf(w), Starts(w, c)
    PROVE  /\ handler[w] = "runs" /\ Only(w, c) /\ Between(w, ctx[w], guard[w])
           /\ ctx[w].phase = "idle" /\ guard[w].state = "active"
<1>1. Disciplined(w) /\ CallsOf(w) \subseteq Nat
  BY CallNumbers DEF Inv, WorkerOK
<1>2. /\ handler[w] = "runs" /\ call[w][c].pc = "unused"
      /\ \A d \in 1..(c - 1) : call[w][d].pc = "done"
  BY DEF Starts
<1>3. \A d \in CallsOf(w) : d < c => call[w][d].pc = "done"
  <2> SUFFICES ASSUME NEW d \in CallsOf(w), d < c PROVE d \in 1..(c - 1)
    BY <1>2
  <2> QED BY StepsAssumption DEF CallsOf
<1>4. CASE /\ handler[w] = "runs" /\ Between(w, ctx[w], guard[w])
           /\ ctx[w].phase = "idle" /\ guard[w].state = "active"
           /\ \A d \in CallsOf(w) : call[w][d].pc \in {"done", "unused"}
           /\ \A d, e \in CallsOf(w) : d < e /\ call[w][e].pc # "unused" => call[w][d].pc = "done"
  BY <1>2, <1>3, <1>4 DEF Only
<1>5. CASE \E d \in CallsOf(w) : Only(w, d) /\ call[w][d].pc \notin {"unused", "done"}
  <2>1. PICK d \in CallsOf(w) : Only(w, d) /\ call[w][d].pc \notin {"unused", "done"}
    BY <1>5
  <2>2. d \in Nat /\ c \in Nat /\ (d < c \/ d = c \/ c < d)
    BY <1>1
  <2> QED BY <1>2, <1>3, <2>1, <2>2 DEF Only
<1> QED BY <1>1, <1>2, <1>4, <1>5 DEF Disciplined

\* A step of one call, which leaves the server alone.
LEMMA CallInv ==
    ASSUME Inv, NEW w \in Workers, NEW c \in CallsOf(w),
           NEW r \in CallRecord, NEW x \in Context, NEW g \in Guard,
           call' = [call EXCEPT ![w][c] = r],
           ctx' = [ctx EXCEPT ![w] = x], guard' = [guard EXCEPT ![w] = g],
           UNCHANGED <<disciplined, server, handler>>,
           returned' \in [Names -> SUBSET Values],
           late' \in SUBSET Request, \A q \in late' \ late : MayCome(q)',
           Holds(w, handler[w], x), Knows(w, r),
           disciplined => /\ handler[w] = "runs" /\ Only(w, c) /\ ctx[w].phase # "uncertain"
                          /\ Stands(w, x, g, r)
    PROVE  Inv'
<1>1. /\ TypeOK /\ \A u \in Workers : WorkerOK(u)
      /\ \A q \in late : MayCome(q)
      /\ flow' = flow /\ journal' = journal /\ disciplined' = disciplined /\ handler' = handler
  BY DEF Inv, server
<1>2. /\ ctx'[w] = x /\ guard'[w] = g
      /\ \A u \in Workers : u # w => ctx'[u] = ctx[u] /\ guard'[u] = guard[u]
  BY <1>1 DEF TypeOK
<1>3. /\ call'[w][c] = r
      /\ \A d \in CallsOf(w) : d # c => call'[w][d] = call[w][d]
      /\ \A u \in Workers : u # w => call'[u] = call[u]
  BY <1>1, OneCall, ZenonT(30)
<1>4. TypeOK'
  BY <1>1, OneCall DEF TypeOK, ServerOK
<1>5. ASSUME NEW u \in Workers, u # w PROVE WorkerOK(u)'
  <2>1. WorkerOK(u) /\ call'[u] = call[u] /\ ctx'[u] = ctx[u] /\ guard'[u] = guard[u]
    BY <1>1, <1>2, <1>3, <1>5
  <2>2. Holds(u, handler[u], ctx[u])' /\ \A d \in CallsOf(u) : Knows(u, call[u][d])'
    BY <1>1, <2>1 DEF WorkerOK, Holds, Leased, LeaseIsCurrent, Knows
  <2>3. (disciplined => Disciplined(u))'
    <3>1. flow' = flow /\ disciplined' = disciplined /\ handler' = handler /\ (disciplined => Disciplined(u))
      BY <1>1, <2>1 DEF WorkerOK
    <3>2. /\ Between(u, ctx[u], guard[u])' <=> Between(u, ctx[u], guard[u])
          /\ \A d \in CallsOf(u) : (Only(u, d)' <=> Only(u, d))
          /\ \A d \in CallsOf(u) : (Single(u, ctx[u], guard[u], call[u][d])'
                                       <=> Single(u, ctx[u], guard[u], call[u][d]))
      BY ONLY <2>1, <3>1 DEF Between, Only, Single
    <3> QED BY ONLY <2>1, <3>1, <3>2, CallsOf(u)' = CallsOf(u) DEF Disciplined, CallsOf
  <2> QED BY <2>2, <2>3 DEF WorkerOK, CallsOf
<1>6. Holds(w, handler[w], ctx[w])'
  BY <1>1, <1>2 DEF Holds, Leased, LeaseIsCurrent
<1>7. \A d \in CallsOf(w) : Knows(w, call[w][d])'
  <2>1. \A d \in CallsOf(w) : Knows(w, call[w][d])
    BY <1>1 DEF WorkerOK
  <2> QED BY <1>1, <1>3, <2>1 DEF Knows, Leased, LeaseIsCurrent
<1>8. ASSUME disciplined PROVE Disciplined(w)'
  <2>1. handler[w] = "runs" /\ Only(w, c) /\ Stands(w, x, g, r)
    BY <1>8
  <2>2. Only(w, c)'
    <3>1. CallsOf(w) \subseteq Nat
      BY CallNumbers
    <3> QED BY <1>3, <2>1, <3>1 DEF Only
  <2>3. CASE r.pc = "done"
    <3>1. Between(w, x, g) /\ x.phase = "idle" /\ g.state = "active"
      BY <2>1, <2>3 DEF Stands
    <3>2. Between(w, ctx[w], guard[w])' /\ ctx'[w].phase = "idle" /\ guard'[w].state = "active"
      BY <1>1, <1>2, <3>1 DEF Between
    <3>3. \A d \in CallsOf(w) : /\ d < c => call'[w][d].pc = "done"
                                /\ c < d => call'[w][d].pc = "unused"
                                /\ d = c => call'[w][d].pc = "done"
      BY <1>3, <2>2, <2>3 DEF Only
    <3>4. CallsOf(w) \subseteq Nat
      BY CallNumbers
    <3>5. \A d \in CallsOf(w) : call'[w][d].pc \in {"done", "unused"}
      BY <3>3, <3>4
    <3>6. \A d, e \in CallsOf(w) : d < e /\ call'[w][e].pc # "unused" => call'[w][d].pc = "done"
      BY <3>3, <3>4
    <3> QED BY <1>1, <2>1, <3>2, <3>5, <3>6 DEF Disciplined
  <2>4. CASE r.pc # "done"
    <3>1. r.pc \notin {"unused", "done"} /\ Single(w, x, g, r)
      BY <2>1, <2>4 DEF Stands
    <3>2. Single(w, ctx[w], guard[w], call[w][c])'
      BY <1>1, <1>2, <1>3, <3>1 DEF Single, Active
    <3> QED BY <1>1, <1>3, <2>1, <2>2, <3>1, <3>2 DEF Disciplined
  <2> QED BY <2>3, <2>4
<1>9. ASSUME NEW q \in late' PROVE MayCome(q)'
  <2>1. CASE q \notin late
    BY <2>1
  <2>2. CASE q \in late
    <3>1. MayCome(q) /\ q.worker \in Workers
      BY <1>1, <2>2 DEF TypeOK, Request
    <3>2. disciplined /\ q.kind = "commit" => q.worker # w
      BY <3>1 DEF MayCome
    <3> QED BY <1>1, <1>2, <3>1, <3>2 DEF MayCome, LeaseIsCurrent
  <2> QED BY <2>1, <2>2
<1> QED BY <1>1, <1>4, <1>5, <1>6, <1>7, <1>8, <1>9 DEF Inv, WorkerOK

---------------------------------------------------------------------------
(* The calls of a handler.                                                 *)

\* What a step of a call begins with.
LEMMA CallFacts ==
    ASSUME Inv, NEW w \in Workers, NEW c \in CallsOf(w)
    PROVE  /\ call[w][c] \in CallRecord /\ ctx[w] \in Context /\ guard[w] \in Guard
           /\ Holds(w, handler[w], ctx[w]) /\ Knows(w, call[w][c])
           /\ returned \in [Names -> SUBSET Values] /\ late \in SUBSET Request
           /\ late \ late = {} /\ ServerOK
           /\ ctx = [ctx EXCEPT ![w] = ctx[w]] /\ guard = [guard EXCEPT ![w] = guard[w]]
<1>1. TypeOK /\ WorkerOK(w)
  BY DEF Inv
<1>2. ctx = [ctx EXCEPT ![w] = ctx[w]] /\ guard = [guard EXCEPT ![w] = guard[w]]
  BY <1>1 DEF TypeOK
<1> QED BY <1>1, <1>2 DEF TypeOK, WorkerOK

\* A record that a call gets when it is over.
LEMMA Ended ==
    ASSUME ServerOK, NEW w, NEW pc \in {"done", "failed"}
    PROVE  /\ [NoCall EXCEPT !.pc = pc] \in CallRecord
           /\ [NoCall EXCEPT !.pc = pc].pc = pc
           /\ Knows(w, [NoCall EXCEPT !.pc = pc])
BY DEF NoCall, CallRecord, Knows, Active, ServerOK

LEMMA StartStepInv ==
    ASSUME Inv, NEW w \in Workers, NEW c \in CallsOf(w), NEW n \in Names, StartStep(w, c, n)
    PROVE  Inv'
<1> DEFINE r == [NoCall EXCEPT !.pc = "validating", !.name = n, !.to = Target[n],
                               !.token = ctx[w].token]
<1>1. /\ call' = [call EXCEPT ![w][c] = r] /\ ctx' = ctx /\ guard' = guard
      /\ UNCHANGED <<disciplined, server, handler, late, returned>>
      /\ Starts(w, c)
  BY DEF StartStep, SetCall
<1>2. /\ ctx[w] \in Context /\ Holds(w, handler[w], ctx[w]) /\ Target[n] \in States
  BY CallFacts, StepsAssumption
<1>3. /\ r \in CallRecord /\ r.pc = "validating" /\ r.name = n /\ r.to = Target[n]
      /\ r.token = ctx[w].token
  BY <1>2 DEF NoCall, CallRecord, Context
<1> HIDE DEF r
<1>4. n # None
  BY CallNumbers
<1>5. Knows(w, r)
  BY <1>1, <1>2, <1>3, <1>4 DEF Knows, Holds, Active, Starts
<1>6. disciplined => /\ handler[w] = "runs" /\ Only(w, c) /\ ctx[w].phase # "uncertain"
                     /\ Stands(w, ctx[w], guard[w], r)
  BY <1>1, <1>3, AtStart DEF Stands, Single, Between, Active, Writing
<1> QED BY <1>1, <1>2, <1>3, <1>5, <1>6, CallFacts, CallInv

\* The call fails without having changed anything else, while renewal goes on or has failed.
LEMMA FailInv ==
    ASSUME Inv, NEW w \in Workers, NEW c \in CallsOf(w), EndCall(w, c, "failed"),
           Active(call[w][c]),
           call[w][c].pc \in {"validating", "running"}
             \/ (call[w][c].pc = "pausing" /\ guard[w].error),
           UNCHANGED <<disciplined, server, handler, ctx, guard, late, returned>>
    PROVE  Inv'
<1> DEFINE r == [NoCall EXCEPT !.pc = "failed"]
<1>1. call' = [call EXCEPT ![w][c] = r] /\ ctx' = ctx /\ guard' = guard
  BY DEF EndCall
<1>2. ServerOK
  BY CallFacts
<1>3. r \in CallRecord /\ r.pc = "failed" /\ Knows(w, r)
  BY <1>2, Ended
<1> HIDE DEF r
<1>4. disciplined => /\ handler[w] = "runs" /\ Only(w, c) /\ ctx[w].phase # "uncertain"
                     /\ Stands(w, ctx[w], guard[w], r)
  BY <1>3, InCall DEF Stands, Single, Active, Writing
<1> QED BY <1>1, <1>3, <1>4, CallFacts, CallInv

LEMMA ValidateInv ==
    ASSUME Inv, NEW w \in Workers, NEW c \in CallsOf(w), Validate(w, c)
    PROVE  Inv'
<1> DEFINE n == call[w][c].name
           next == IF journal[n] # None THEN "recorded" ELSE "running"
           r == [call[w][c] EXCEPT !.pc = next, !.value = journal[n]]
<1>1. /\ UNCHANGED <<disciplined, server, handler, ctx, guard, late, returned>>
      /\ call[w][c].pc = "validating" /\ Active(call[w][c])
  BY DEF Validate, Active
<1>2. CASE EndCall(w, c, "failed")
  BY <1>1, <1>2, FailInv
<1>3. CASE /\ LeaseIsCurrent(call[w][c].token)
           /\ call' = [call EXCEPT ![w][c].pc = next, ![w][c].value = journal[n]]
  <2>1. /\ call[w][c] \in CallRecord /\ Knows(w, call[w][c]) /\ ServerOK
        /\ call \in [Workers -> UNION {[CallsOf(u) -> CallRecord] : u \in Workers}]
        /\ call[w] \in [CallsOf(w) -> CallRecord]
    BY CallFacts DEF Inv, TypeOK
  <2>2. call' = [call EXCEPT ![w][c] = r]
    BY <1>3, <2>1
  <2>3. n \in Names /\ journal[n] \in Values \cup {None}
    BY <1>1, <2>1 DEF Knows, CallRecord, ServerOK
  <2>4. r \in CallRecord
    BY <2>1, <2>3 DEF CallRecord
  <2>5. /\ r.pc = next /\ r.value = journal[n] /\ r.name = n /\ r.to = call[w][c].to
        /\ r.token = call[w][c].token
    BY <2>1 DEF CallRecord
  <2> HIDE DEF r
  <2>6. Knows(w, r)
    BY <1>1, <2>1, <2>3, <2>5 DEF Knows, Active
  <2>7. disciplined => /\ handler[w] = "runs" /\ Only(w, c) /\ ctx[w].phase # "uncertain"
                       /\ Stands(w, ctx[w], guard[w], r)
    BY <1>1, <2>5, InCall DEF Stands, Single, Active, Writing
  <2> QED BY <1>1, <2>2, <2>4, <2>6, <2>7, CallFacts, CallInv
<1> QED BY <1>2, <1>3 DEF Validate

\* A handler that waits for its calls is never refused a commit.
LEMMA RefuseInv ==
    ASSUME Inv, NEW w \in Workers, NEW c \in CallsOf(w), RefuseCommit(w, c),
           Starts(w, c) \/ call[w][c].pc = "running"
    PROVE  Inv'
<1> DEFINE r == [NoCall EXCEPT !.pc = "failed"]
<1>1. /\ call' = [call EXCEPT ![w][c] = r] /\ ctx' = ctx /\ guard' = guard
      /\ UNCHANGED <<disciplined, server, handler, late, returned>>
      /\ ctx[w].phase # "idle" \/ guard[w].state = "stopped"
  BY DEF RefuseCommit, EndCall
<1>2. ServerOK
  BY CallFacts
<1>3. r \in CallRecord /\ Knows(w, r)
  BY <1>2, Ended
<1> HIDE DEF r
<1>4. ~disciplined
  <2>1. ASSUME disciplined, Starts(w, c) PROVE FALSE
    BY <1>1, <2>1, AtStart
  <2>2. ASSUME disciplined, call[w][c].pc = "running" PROVE FALSE
    <3>1. Active(call[w][c]) /\ ctx[w] \in Context
      BY <2>2, CallFacts DEF Active
    <3>2. Single(w, ctx[w], guard[w], call[w][c]) /\ ctx[w].phase # "uncertain"
      BY <2>2, <3>1, InCall
    <3> QED BY <1>1, <2>2, <3>1, <3>2 DEF Single, Writing, Context
  <2> QED BY <2>1, <2>2
<1> QED BY <1>1, <1>3, <1>4, CallFacts, CallInv

\* beforeCommit, of a call that has not awaited anything or whose closure has returned.
LEMMA BeforeCommitInv ==
    ASSUME Inv, NEW w \in Workers, NEW c \in CallsOf(w), NEW request \in CallRecord,
           BeforeCommit(w, c, request),
           \/ /\ Starts(w, c) /\ handler[w] = "runs"
              /\ request.token = ctx[w].token /\ request.name = None
           \/ /\ call[w][c].pc = "running" /\ request.token = call[w][c].token
              /\ request.name = call[w][c].name /\ request.value \in Values,
           request.to \in States
    PROVE  Inv'
<1> DEFINE next == IF guard[w].state = "active" THEN "pausing" ELSE "paused"
           r == [request EXCEPT !.pc = next]
           g == [guard[w] EXCEPT !.state = "paused"]
<1>1. /\ call' = [call EXCEPT ![w][c] = r] /\ ctx' = ctx /\ guard' = [guard EXCEPT ![w] = g]
      /\ UNCHANGED <<disciplined, server, handler, late, returned>>
      /\ ctx[w].phase = "idle"
  BY DEF BeforeCommit, SetCall
<1>2. /\ call[w][c] \in CallRecord /\ Knows(w, call[w][c]) /\ ctx[w] \in Context
      /\ guard[w] \in Guard /\ Holds(w, handler[w], ctx[w])
  BY CallFacts
<1>3. /\ r \in CallRecord /\ r.pc = next /\ r.name = request.name /\ r.to = request.to
      /\ r.token = request.token /\ r.value = request.value
  BY DEF CallRecord
<1>4. /\ g \in Guard /\ g.state = "paused" /\ g.token = guard[w].token
      /\ g.inFlight = guard[w].inFlight /\ g.error = guard[w].error
  BY <1>2 DEF Guard
<1> HIDE DEF r, g
<1>5. Knows(w, r)
  BY <1>2, <1>3 DEF Knows, Holds, Active
<1>6. disciplined => /\ handler[w] = "runs" /\ Only(w, c) /\ ctx[w].phase # "uncertain"
                     /\ Stands(w, ctx[w], g, r)
  <2>1. CASE Starts(w, c) /\ request.token = ctx[w].token
    BY <1>1, <1>3, <1>4, <2>1, AtStart DEF Stands, Single, Between, Active, Writing
  <2>2. CASE call[w][c].pc = "running" /\ request.token = call[w][c].token
    <3>1. Active(call[w][c])
      BY <2>2 DEF Active
    <3> QED BY <1>1, <1>2, <1>3, <1>4, <2>2, <3>1, InCall DEF Stands, Single, Active, Writing, Guard
  <2> QED BY <2>1, <2>2
<1> QED BY <1>1, <1>2, <1>3, <1>4, <1>5, <1>6, CallFacts, CallInv

LEMMA StartAdvanceInv ==
    ASSUME Inv, NEW w \in Workers, NEW c \in CallsOf(w), NEW to \in States,
           StartAdvance(w, c, to)
    PROVE  Inv'
<1> DEFINE request == [NoCall EXCEPT !.to = to, !.token = ctx[w].token]
<1>1. ctx[w] \in Context
  BY CallFacts
<1>2. /\ request \in CallRecord /\ request.to = to /\ request.token = ctx[w].token
      /\ request.name = None
  BY <1>1 DEF CallRecord, NoCall, Context
<1>3. Starts(w, c) /\ (BeforeCommit(w, c, request) \/ RefuseCommit(w, c))
  BY DEF StartAdvance
<1> HIDE DEF request
<1> QED BY <1>2, <1>3, RefuseInv, BeforeCommitInv DEF Starts

LEMMA RunClosureInv ==
    ASSUME Inv, NEW w \in Workers, NEW c \in CallsOf(w), RunClosure(w, c) \/ ClosureThrows(w, c)
    PROVE  Inv'
<1>1. CASE ClosureThrows(w, c)
  BY <1>1, FailInv DEF ClosureThrows, Active
<1>2. CASE RunClosure(w, c) /\ RefuseCommit(w, c)
  BY <1>2, RefuseInv DEF RunClosure
<1>3. CASE RunClosure(w, c) /\ ~RefuseCommit(w, c)
  <2>1. PICK v \in Values : BeforeCommit(w, c, [call[w][c] EXCEPT !.value = v])
    BY <1>3 DEF RunClosure
  <2> DEFINE request == [call[w][c] EXCEPT !.value = v]
  <2>2. /\ call[w][c] \in CallRecord /\ Knows(w, call[w][c]) /\ call[w][c].pc = "running"
        /\ call[w][c].to \in States
    BY <1>3, CallFacts DEF RunClosure, Knows, Active
  <2>3. /\ request \in CallRecord /\ request.to = call[w][c].to /\ request.value = v
        /\ request.token = call[w][c].token /\ request.name = call[w][c].name
    BY <2>2 DEF CallRecord
  <2> HIDE DEF request
  <2>4. BeforeCommit(w, c, request)
    BY <2>1 DEF request
  <2> QED BY <2>2, <2>3, <2>4, BeforeCommitInv
<1> QED BY <1>1, <1>2, <1>3

\* A recorded result is returned, and the lease of the validation becomes the worker's.
LEMMA ReplayInv ==
    ASSUME Inv, NEW w \in Workers, NEW c \in CallsOf(w), Replay(w, c)
    PROVE  Inv'
<1> DEFINE r == [NoCall EXCEPT !.pc = "done"]
           x == [token |-> call[w][c].token, phase |-> "idle"]
<1>1. /\ call' = [call EXCEPT ![w][c] = r] /\ ctx' = [ctx EXCEPT ![w] = x] /\ guard' = guard
      /\ UNCHANGED <<disciplined, server, handler, late>>
      /\ returned' = [returned EXCEPT ![call[w][c].name] = @ \cup {call[w][c].value}]
      /\ call[w][c].pc = "recorded"
  BY DEF Replay, EndCall
<1>2. /\ call[w][c] \in CallRecord /\ Knows(w, call[w][c]) /\ ServerOK
      /\ returned \in [Names -> SUBSET Values]
  BY CallFacts
<1>3. /\ call[w][c].name \in Names /\ call[w][c].value \in Values /\ Active(call[w][c])
  BY <1>1, <1>2 DEF Knows, CallRecord, Active
<1>4. returned' \in [Names -> SUBSET Values]
  BY <1>1, <1>2, <1>3
<1>5. r \in CallRecord /\ Knows(w, r) /\ r.pc = "done"
  BY <1>2, Ended
<1>6. x \in Context /\ Holds(w, handler[w], x)
  BY <1>2, <1>3 DEF Context, CallRecord, Holds, Knows
<1>7. x.token = call[w][c].token /\ x.phase = "idle"
  OBVIOUS
<1> HIDE DEF r, x
<1>8. disciplined => /\ handler[w] = "runs" /\ Only(w, c) /\ ctx[w].phase # "uncertain"
                     /\ Stands(w, x, guard[w], r)
  <2> SUFFICES ASSUME disciplined
               PROVE  /\ handler[w] = "runs" /\ Only(w, c) /\ ctx[w].phase # "uncertain"
                      /\ Stands(w, x, guard[w], r)
    OBVIOUS
  <2>1. /\ handler[w] = "runs" /\ Only(w, c) /\ ctx[w].phase # "uncertain"
        /\ Single(w, ctx[w], guard[w], call[w][c])
    BY <1>3, InCall
  <2>2. ctx[w] \in Context /\ guard[w] \in Guard
    BY CallFacts
  <2>3. ctx[w].phase = "idle" /\ guard[w].state = "active"
    BY <1>1, <2>1, <2>2 DEF Single, Writing, Context, Guard
  <2> QED BY <1>1, <1>3, <1>5, <1>7, <2>1, <2>3 DEF Stands, Single, Between
<1> QED BY <1>1, <1>4, <1>5, <1>6, <1>8, CallFacts, CallInv

\* The commit is written when no renewal is in flight any more.
LEMMA WriteCommitInv ==
    ASSUME Inv, NEW w \in Workers, NEW c \in CallsOf(w), WriteCommit(w, c)
    PROVE  Inv'
<1> DEFINE r == [call[w][c] EXCEPT !.pc = "committing"]
           x == [ctx[w] EXCEPT !.phase = "committing"]
<1>1. /\ UNCHANGED <<disciplined, server, handler, guard, late, returned>>
      /\ call[w][c].pc \in {"paused", "pausing"}
      /\ call[w][c].pc = "pausing" => guard[w].inFlight = 0
  BY DEF WriteCommit, PauseEnds
<1>2. /\ call[w][c] \in CallRecord /\ Knows(w, call[w][c]) /\ ctx[w] \in Context
      /\ Holds(w, handler[w], ctx[w])
  BY CallFacts
<1>3. call' = [call EXCEPT ![w][c] = r] /\ ctx' = [ctx EXCEPT ![w] = x]
  BY DEF WriteCommit, Inv, TypeOK
<1>4. /\ r \in CallRecord /\ r.pc = "committing" /\ r.name = call[w][c].name
      /\ r.to = call[w][c].to /\ r.token = call[w][c].token /\ r.value = call[w][c].value
  BY <1>2 DEF CallRecord
<1>5. /\ x \in Context /\ x.phase = "committing" /\ x.token = ctx[w].token
  BY <1>2 DEF Context
<1> HIDE DEF r, x
<1>6. Holds(w, handler[w], x) /\ Knows(w, r)
  BY <1>1, <1>2, <1>4, <1>5 DEF Holds, Knows, Active
<1>7. disciplined => /\ handler[w] = "runs" /\ Only(w, c) /\ ctx[w].phase # "uncertain"
                     /\ Stands(w, x, guard[w], r)
  <2>1. Active(call[w][c])
    BY <1>1 DEF Active
  <2> QED BY <1>1, <1>4, <1>5, <2>1, InCall DEF Stands, Single, Active, Writing
<1> QED BY <1>1, <1>3, <1>4, <1>5, <1>6, <1>7, CallFacts, CallInv

LEMMA PauseFailsInv ==
    ASSUME Inv, NEW w \in Workers, NEW c \in CallsOf(w), PauseFails(w, c)
    PROVE  Inv'
BY FailInv DEF PauseFails, Active

\* The server refuses a commit whose lease is not the current one.
LEMMA RejectInv ==
    ASSUME Inv, NEW w \in Workers, NEW c \in CallsOf(w), call[w][c].pc = "committing",
           call' = [call EXCEPT ![w][c].pc = "rejected"],
           UNCHANGED <<disciplined, server, handler, ctx, guard, late, returned>>
    PROVE  Inv'
<1> DEFINE r == [call[w][c] EXCEPT !.pc = "rejected"]
<1>1. call[w][c] \in CallRecord /\ Knows(w, call[w][c]) /\ Active(call[w][c])
  BY CallFacts DEF Active
<1>2. call' = [call EXCEPT ![w][c] = r]
  BY DEF Inv, TypeOK
<1>3. /\ r \in CallRecord /\ r.pc = "rejected" /\ r.name = call[w][c].name
      /\ r.to = call[w][c].to /\ r.token = call[w][c].token
  BY <1>1 DEF CallRecord
<1> HIDE DEF r
<1>4. Knows(w, r)
  BY <1>1, <1>3 DEF Knows, Active
<1>5. disciplined => /\ handler[w] = "runs" /\ Only(w, c) /\ ctx[w].phase # "uncertain"
                     /\ Stands(w, ctx[w], guard[w], r)
  BY <1>1, <1>3, InCall DEF Stands, Single, Active, Writing
<1>6. ctx' = [ctx EXCEPT ![w] = ctx[w]] /\ guard' = [guard EXCEPT ![w] = guard[w]]
  BY CallFacts
<1>7. /\ ctx[w] \in Context /\ guard[w] \in Guard /\ Holds(w, handler[w], ctx[w])
      /\ returned' \in [Names -> SUBSET Values] /\ late' \in SUBSET Request /\ late' \ late = {}
  BY CallFacts
<1> QED BY <1>2, <1>3, <1>4, <1>5, <1>6, <1>7, CallInv

\* What resumeWith leaves, of a guard that is paused.
LEMMA ResumedOK ==
    ASSUME NEW g \in Guard, NEW t \in Nat
    PROVE  /\ Resumed(g, t) \in Guard
           /\ Resumed(g, t).inFlight = g.inFlight /\ Resumed(g, t).error = g.error
           /\ g.state = "paused" => Resumed(g, t).state = "active" /\ Resumed(g, t).token = t
BY DEF Resumed, Guard

\* While a call writes, renewal is paused and none is in flight.
LEMMA InWrite ==
    ASSUME Inv, disciplined, NEW w \in Workers, NEW c \in CallsOf(w), call[w][c].pc \in Writing
    PROVE  /\ handler[w] = "runs" /\ Only(w, c) /\ ctx[w].phase = "committing"
           /\ guard[w].state = "paused" /\ guard[w].inFlight = 0
           /\ call[w][c].pc # "committed" => call[w][c].token = ctx[w].token
           /\ flow.owner = w => flow.fence = IF call[w][c].pc = "committed"
                                             THEN call[w][c].token ELSE ctx[w].token
<1>1. Active(call[w][c]) /\ guard[w] \in Guard
  BY CallFacts DEF Active, Writing
<1>2. /\ handler[w] = "runs" /\ Only(w, c)
      /\ Single(w, ctx[w], guard[w], call[w][c])
  BY <1>1, InCall
<1> QED BY <1>1, <1>2 DEF Single, Guard

\* The commit has succeeded: the worker goes on with the new lease, and renewal with it.
LEMMA CommittedInv ==
    ASSUME Inv, NEW w \in Workers, NEW c \in CallsOf(w), Committed(w, c)
    PROVE  Inv'
<1> DEFINE r == [NoCall EXCEPT !.pc = "done"]
           x == [token |-> call[w][c].token, phase |-> "idle"]
           g == Resumed(guard[w], call[w][c].token)
<1>1. /\ call' = [call EXCEPT ![w][c] = r] /\ ctx' = [ctx EXCEPT ![w] = x]
      /\ UNCHANGED <<disciplined, server, handler, late>> /\ call[w][c].pc = "committed"
  BY DEF Committed, EndCall
<1>2. /\ call[w][c] \in CallRecord /\ Knows(w, call[w][c]) /\ ServerOK
      /\ returned \in [Names -> SUBSET Values] /\ guard[w] \in Guard /\ Active(call[w][c])
  BY <1>1, CallFacts DEF Active
<1>3. call[w][c].name # None => call[w][c].name \in Names /\ call[w][c].value \in Values
  BY <1>1, <1>2 DEF Knows, CallRecord
<1>4. returned' \in [Names -> SUBSET Values]
  BY <1>2, <1>3 DEF Committed
<1>5. guard' = [guard EXCEPT ![w] = g]
  BY DEF Committed, Inv, TypeOK
<1>6. r \in CallRecord /\ Knows(w, r) /\ r.pc = "done"
  BY <1>2, Ended
<1>7. x \in Context /\ Holds(w, handler[w], x) /\ x.token = call[w][c].token /\ x.phase = "idle"
  BY <1>2 DEF Context, CallRecord, Holds, Knows
<1>8. /\ call[w][c].token \in Nat /\ g \in Guard /\ g.inFlight = guard[w].inFlight
      /\ guard[w].state = "paused" => g.state = "active" /\ g.token = call[w][c].token
  BY <1>2, ResumedOK DEF CallRecord
<1> HIDE DEF r, x, g
<1>9. disciplined => /\ handler[w] = "runs" /\ Only(w, c) /\ ctx[w].phase # "uncertain"
                     /\ Stands(w, x, g, r)
  BY <1>1, <1>6, <1>7, <1>8, InWrite DEF Stands, Between, Writing
<1> QED BY <1>1, <1>4, <1>5, <1>6, <1>7, <1>8, <1>9, CallFacts, CallInv

LEMMA CommitRejectedInv ==
    ASSUME Inv, NEW w \in Workers, NEW c \in CallsOf(w), CommitRejected(w, c)
    PROVE  Inv'
<1> DEFINE r == [NoCall EXCEPT !.pc = "failed"]
           x == [ctx[w] EXCEPT !.phase = "idle"]
           g == Resumed(guard[w], ctx[w].token)
<1>1. /\ call' = [call EXCEPT ![w][c] = r]
      /\ UNCHANGED <<disciplined, server, handler, late, returned>>
      /\ call[w][c].pc \in {"committing", "rejected"}
  BY DEF CommitRejected, EndCall
<1>2. /\ ctx[w] \in Context /\ guard[w] \in Guard /\ Holds(w, handler[w], ctx[w]) /\ ServerOK
  BY CallFacts
<1>3. ctx' = [ctx EXCEPT ![w] = x] /\ guard' = [guard EXCEPT ![w] = g]
  BY DEF CommitRejected, Inv, TypeOK
<1>4. r \in CallRecord /\ Knows(w, r) /\ r.pc = "failed"
  BY <1>2, Ended
<1>5. x \in Context /\ x.token = ctx[w].token /\ x.phase = "idle"
  BY <1>2 DEF Context
<1>6. /\ ctx[w].token \in Nat /\ g \in Guard /\ g.inFlight = guard[w].inFlight
      /\ guard[w].state = "paused" => g.state = "active" /\ g.token = ctx[w].token
  BY <1>2, ResumedOK DEF Context
<1> HIDE DEF r, x, g
<1>7. Holds(w, handler[w], x)
  BY <1>2, <1>5 DEF Holds
<1>8. disciplined => /\ handler[w] = "runs" /\ Only(w, c) /\ ctx[w].phase # "uncertain"
                     /\ Stands(w, x, g, r)
  BY <1>1, <1>4, <1>5, <1>6, InWrite DEF Stands, Single, Writing, Active
<1> QED BY <1>1, <1>3, <1>4, <1>5, <1>6, <1>7, <1>8, CallFacts, CallInv

\* What a worker gives up may still come.
LEMMA AbandonedMayCome ==
    ASSUME Inv, NEW w \in Workers, NEW calls \in SUBSET CallsOf(w),
           UNCHANGED <<disciplined, server>>,
           disciplined => handler'[w] = "idle" \/ ctx'[w].phase = "uncertain"
    PROVE  Abandoned(w, calls) \in SUBSET Request /\ \A q \in Abandoned(w, calls) : MayCome(q)'
<1> SUFFICES ASSUME NEW q \in Abandoned(w, calls)
             PROVE  q \in Request /\ MayCome(q)'
  OBVIOUS
<1>1. flow' = flow /\ journal' = journal /\ disciplined' = disciplined
  BY DEF server
<1>2. PICK c \in CallsOf(w) : /\ q = Commit(w, c) /\ call[w][c].pc = "committing"
                              /\ LeaseIsCurrent(call[w][c].token)
  BY DEF Abandoned
<1>3. call[w][c] \in CallRecord /\ Knows(w, call[w][c]) /\ Active(call[w][c])
  BY <1>2, CallFacts DEF Active
<1>4. /\ q.kind = "commit" /\ q.worker = w /\ q.token = call[w][c].token
      /\ q.name = call[w][c].name /\ q.to = call[w][c].to /\ q.value = call[w][c].value
  BY <1>2 DEF Commit
<1>5. q \in Request
  BY <1>2, <1>3 DEF Commit, Request, CallRecord
<1>6. /\ LeaseIsCurrent(q.token) /\ q.worker = flow.owner /\ q.to \in States
      /\ q.name # None => q.value \in Values /\ journal[q.name] = None
  BY <1>2, <1>3, <1>4 DEF Knows, Leased
<1>7. MayCome(q)'
  BY <1>1, <1>4, <1>6 DEF MayCome, LeaseIsCurrent
<1> QED BY <1>5, <1>7

\* The result of a commit is not known: the context takes no other one.
LEMMA CommitUncertainInv ==
    ASSUME Inv, NEW w \in Workers, NEW c \in CallsOf(w), CommitUncertain(w, c)
    PROVE  Inv'
<1> DEFINE r == [NoCall EXCEPT !.pc = "failed"]
           x == [ctx[w] EXCEPT !.phase = "uncertain"]
<1>1. /\ call' = [call EXCEPT ![w][c] = r]
      /\ UNCHANGED <<disciplined, server, handler, guard, returned>>
      /\ call[w][c].pc \in Writing /\ late' = late \cup Abandoned(w, {c})
  BY DEF CommitUncertain, EndCall, Writing
<1>2. /\ ctx[w] \in Context /\ guard[w] \in Guard /\ Holds(w, handler[w], ctx[w]) /\ ServerOK
      /\ late \in SUBSET Request /\ ctx \in [Workers -> Context]
  BY CallFacts DEF Inv, TypeOK
<1>3. ctx' = [ctx EXCEPT ![w] = x]
  BY DEF CommitUncertain, Inv, TypeOK
<1>4. r \in CallRecord /\ Knows(w, r) /\ r.pc = "failed"
  BY <1>2, Ended
<1>5. x \in Context /\ x.token = ctx[w].token /\ x.phase = "uncertain"
  BY <1>2 DEF Context
<1> HIDE DEF r, x
<1>6. Holds(w, handler[w], x)
  BY <1>2, <1>5 DEF Holds
<1>7. ctx'[w].phase = "uncertain"
  BY <1>2, <1>3, <1>5
<1>8. Abandoned(w, {c}) \in SUBSET Request /\ \A q \in Abandoned(w, {c}) : MayCome(q)'
  BY <1>1, <1>7, AbandonedMayCome
<1>9. disciplined => /\ handler[w] = "runs" /\ Only(w, c) /\ ctx[w].phase # "uncertain"
                     /\ Stands(w, x, guard[w], r)
  BY <1>1, <1>4, <1>5, InWrite DEF Stands, Single, Writing, Active
<1>10. late' \in SUBSET Request /\ \A q \in late' \ late : MayCome(q)'
  BY <1>1, <1>2, <1>8
<1> QED BY <1>1, <1>3, <1>4, <1>5, <1>6, <1>9, <1>10, CallFacts, CallInv

---------------------------------------------------------------------------
(* The server.                                                             *)

\* When the lease has changed or is given up, whatever was known with it stays true.
LEMMA Elapsed ==
    ASSUME Inv, ServerOK', flow.fence <= flow'.fence,
           \A t \in Nat : t <= flow.fence => ~LeaseIsCurrent(t)',
           \A n \in Names : journal[n] # None => journal'[n] = journal[n],
           NEW w \in Workers
    PROVE  /\ \A c \in CallsOf(w) : call'[w][c] = call[w][c] => Knows(w, call[w][c])'
           /\ handler'[w] = handler[w] /\ ctx'[w] = ctx[w] => Holds(w, handler[w], ctx[w])'
<1>1. flow.fence \in Nat /\ flow'.fence \in Nat
  BY DEF Inv, TypeOK, ServerOK
<1>2. ASSUME NEW c \in CallsOf(w), call'[w][c] = call[w][c] PROVE Knows(w, call[w][c])'
  <2>1. call[w][c] \in CallRecord /\ Knows(w, call[w][c])
    BY CallFacts
  <2>2. PICK r \in CallRecord : r = call[w][c]
    BY <2>1
  <2>3. ~LeaseIsCurrent(r.token)' /\ r.token \in Nat /\ r.token <= flow'.fence
    BY <1>1, <2>1, <2>2 DEF Knows, CallRecord
  <2>4. r.pc = "recorded" /\ r.name # None => r.value # None /\ r.name \in Names /\ r.value = journal[r.name]
    BY <2>1, <2>2 DEF Knows, CallRecord
  <2>5. r.pc = "committed" /\ r.name # None => r.value # None /\ r.name \in Names /\ r.value = journal[r.name]
    BY <2>1, <2>2, CallNumbers DEF Knows, CallRecord
  <2>6. Knows(w, r)'
    BY <2>1, <2>2, <2>3, <2>4, <2>5 DEF Knows, Leased
  <2> QED BY <1>2, <2>2, <2>6 DEF Knows, Leased, LeaseIsCurrent, Active
<1>3. ASSUME handler'[w] = handler[w], ctx'[w] = ctx[w] PROVE Holds(w, handler[w], ctx[w])'
  <2>1. ctx[w] \in Context /\ Holds(w, handler[w], ctx[w])
    BY DEF Inv, TypeOK, WorkerOK
  <2>2. ctx[w].token \in Nat /\ ctx[w].token <= flow'.fence
    BY <1>1, <2>1 DEF Context, Holds
  <2>3. PICK t \in Nat : t = ctx[w].token /\ ~LeaseIsCurrent(t)'
    BY <2>1, <2>2 DEF Holds
  <2> QED BY <1>3, <2>2, <2>3 DEF Holds, Leased, LeaseIsCurrent
<1> QED BY <1>2, <1>3

LEMMA CommitApplied ==
    ASSUME Inv, NEW q, ApplyCommit(q), q.to \in States, q.name \in Names \cup {None},
           q.name # None => q.value \in Values /\ journal[q.name] = None
    PROVE  /\ ServerOK' /\ flow'.fence = flow.fence + 1 /\ flow.fence <= flow'.fence
           /\ flow'.state = "running" /\ flow'.owner = flow.owner
           /\ \A t \in Nat : t <= flow.fence => ~LeaseIsCurrent(t)'
           /\ \A n \in Names : journal[n] # None => journal'[n] = journal[n]
           /\ late' = {}
           /\ UNCHANGED <<disciplined, handler, ctx, guard, returned>>
<1>1. ServerOK /\ flow.state = "running" /\ flow.fence \in Nat /\ flow.fence + 1 \in Nat
  BY DEF Inv, TypeOK, ServerOK, ApplyCommit, LeaseIsCurrent
<1>2. flow' = [flow EXCEPT !.fence = flow.fence + 1, !.runState = q.to]
  BY DEF ApplyCommit
<1>3. /\ flow'.fence = flow.fence + 1 /\ flow'.state = "running" /\ flow'.owner = flow.owner
      /\ flow' \in [state : {"ready", "running", "ended"}, runState : States, fence : Nat,
                    owner : Workers \cup {None}]
  BY <1>1, <1>2 DEF ServerOK
<1>4. /\ journal' \in [Names -> Values \cup {None}]
      /\ \A n \in Names : journal[n] # None => journal'[n] = journal[n]
  BY <1>1 DEF ApplyCommit, ServerOK
<1>5. \A t \in Nat : t <= flow.fence => ~LeaseIsCurrent(t)'
  BY <1>1, <1>3 DEF LeaseIsCurrent
<1>6. ServerOK'
  BY <1>1, <1>3, <1>4 DEF ServerOK
<1> QED BY <1>1, <1>3, <1>4, <1>5, <1>6 DEF ApplyCommit

\* A commit nobody waits for is carried out: its worker does not go on.
LEMMA ApplyLateCommitInv ==
    ASSUME Inv, ApplyLateCommit
    PROVE  Inv'
<1>1. PICK q \in late : ApplyCommit(q) /\ call' = call
  BY DEF ApplyLateCommit
<1>2. q.kind = "commit" /\ MayCome(q) /\ q \in Request
  BY <1>1 DEF ApplyCommit, Inv, TypeOK
<1>3. /\ q.to \in States /\ q.name \in Names \cup {None}
      /\ q.name # None => q.value \in Values /\ journal[q.name] = None
      /\ q.worker = flow.owner
      /\ disciplined => handler[q.worker] = "idle" \/ ctx[q.worker].phase = "uncertain"
  BY <1>2 DEF MayCome, Request
<1>4. /\ ServerOK' /\ flow.fence <= flow'.fence /\ flow'.owner = flow.owner
      /\ \A t \in Nat : t <= flow.fence => ~LeaseIsCurrent(t)'
      /\ \A n \in Names : journal[n] # None => journal'[n] = journal[n]
      /\ late' = {}
      /\ UNCHANGED <<disciplined, handler, ctx, guard, returned>>
  BY <1>1, <1>3, CommitApplied
<1>5. TypeOK'
  BY <1>1, <1>4 DEF Inv, TypeOK
<1>6. ASSUME NEW w \in Workers PROVE WorkerOK(w)'
  <2>1. Holds(w, handler[w], ctx[w])' /\ \A c \in CallsOf(w) : Knows(w, call[w][c])'
    BY <1>1, <1>4, Elapsed
  <2>2. ASSUME disciplined PROVE Disciplined(w)'
    <3>1. Disciplined(w)
      BY <2>2 DEF Inv, WorkerOK
    <3>2. CASE flow.owner = w
      <4>1. handler[w] = "idle" \/ ctx[w].phase = "uncertain"
        BY <1>3, <2>2, <3>2
      <4> QED BY <1>1, <1>4, <3>1, <4>1, ZenonT(30) DEF Disciplined, Between, Single, Only
    <3>3. CASE flow.owner # w
      BY <1>1, <1>4, <3>1, <3>3, ZenonT(30) DEF Disciplined, Between, Single, Only
    <3> QED BY <3>2, <3>3
  <2> QED BY <1>4, <2>1, <2>2 DEF WorkerOK
<1> QED BY <1>4, <1>5, <1>6 DEF Inv

\* An outcome releases the flow or ends it.
LEMMA ApplyOutcomeInv ==
    ASSUME Inv, ApplyOutcome
    PROVE  Inv'
<1>1. PICK q \in late :
        /\ q.kind = "outcome" /\ LeaseIsCurrent(q.token)
        /\ flow' = IF q.to = "end" THEN [flow EXCEPT !.state = "ended", !.owner = None]
                   ELSE [flow EXCEPT !.state = "ready", !.owner = None, !.runState = q.to]
        /\ late' = {}
        /\ UNCHANGED <<disciplined, journal, handler, ctx, guard, call, returned>>
  BY DEF ApplyOutcome
<1>2. ServerOK /\ q.to \in States \cup {"end"} /\ TypeOK
  BY <1>1 DEF Inv, TypeOK, MayCome, Outcomes
<1>3. /\ flow' \in [state : {"ready", "running", "ended"}, runState : States, fence : Nat,
                    owner : Workers \cup {None}]
      /\ flow'.fence = flow.fence /\ flow'.owner = None /\ flow'.state # "running"
  <2>1. CASE q.to = "end"
    BY <1>1, <1>2, <2>1 DEF ServerOK
  <2>2. CASE q.to # "end"
    <3>1. q.to \in States
      BY <1>2, <2>2
    <3> QED BY <1>1, <1>2, <2>2, <3>1 DEF ServerOK
  <2> QED BY <2>1, <2>2
<1>4. /\ ServerOK' /\ flow.fence <= flow'.fence
      /\ \A t \in Nat : t <= flow.fence => ~LeaseIsCurrent(t)'
      /\ \A n \in Names : journal[n] # None => journal'[n] = journal[n]
  BY <1>1, <1>2, <1>3 DEF ServerOK, LeaseIsCurrent
<1>5. TypeOK'
  BY <1>1, <1>2, <1>4 DEF TypeOK
<1>6. ASSUME NEW w \in Workers PROVE WorkerOK(w)'
  <2>1. Holds(w, handler[w], ctx[w])' /\ \A c \in CallsOf(w) : Knows(w, call[w][c])'
    BY <1>1, <1>4, Elapsed
  <2>2. flow'.owner # w
    BY <1>3, CallNumbers
  <2>3. disciplined => Disciplined(w)'
    BY <1>1, <2>2 DEF Inv, WorkerOK, Disciplined, Between, Single, Only
  <2> QED BY <1>1, <2>1, <2>3 DEF WorkerOK
<1> QED BY <1>1, <1>5, <1>6 DEF Inv

\* A commit is carried out and its call is told.
LEMMA AnswerCommitInv ==
    ASSUME Inv, NEW w \in Workers, NEW c \in CallsOf(w), AnswerCommit(w, c)
    PROVE  Inv'
<1>1. call[w][c].pc = "committing"
  BY DEF AnswerCommit
<1>2. CASE ~ApplyCommit(Commit(w, c))
  BY <1>1, <1>2, RejectInv DEF AnswerCommit, server
<1>3. CASE ApplyCommit(Commit(w, c))
  <2> DEFINE q == Commit(w, c)
             r == [call[w][c] EXCEPT !.pc = "committed", !.token = flow.fence + 1]
  <2>1. /\ call[w][c] \in CallRecord /\ Knows(w, call[w][c]) /\ Active(call[w][c]) /\ ServerOK
        /\ TypeOK
    BY <1>1, CallFacts DEF Active, Inv
  <2>2. /\ q.name = call[w][c].name /\ q.to = call[w][c].to /\ q.value = call[w][c].value
        /\ q.token = call[w][c].token
    BY DEF Commit
  <2>3. LeaseIsCurrent(call[w][c].token) /\ flow.owner = w
    BY <1>3, <2>1, <2>2 DEF ApplyCommit, Knows, Leased
  <2>4. /\ q.to \in States /\ q.name \in Names \cup {None}
        /\ q.name # None => q.value \in Values /\ journal[q.name] = None
    BY <1>1, <2>1, <2>2, <2>3 DEF Knows, CallRecord
  <2>5. /\ ServerOK' /\ flow'.fence = flow.fence + 1 /\ flow.fence <= flow'.fence
        /\ flow'.owner = flow.owner
        /\ \A t \in Nat : t <= flow.fence => ~LeaseIsCurrent(t)'
        /\ \A n \in Names : journal[n] # None => journal'[n] = journal[n]
        /\ late' = {}
        /\ UNCHANGED <<disciplined, handler, ctx, guard, returned>>
    BY <1>3, <2>4, CommitApplied
  <2>6. journal' = IF q.name = None THEN journal ELSE [journal EXCEPT ![q.name] = q.value]
    BY <1>3 DEF ApplyCommit
  <2>7. call' = [call EXCEPT ![w][c] = r]
    <3>1. call' = [call EXCEPT ![w][c].pc = "committed", ![w][c].token = flow.fence + 1]
      BY <1>3, <2>3 DEF AnswerCommit
    <3> QED BY <2>1, <3>1 DEF TypeOK
  <2>8. flow.fence \in Nat /\ flow.fence + 1 \in Nat
    BY <2>1 DEF ServerOK
  <2>9. /\ r \in CallRecord /\ r.pc = "committed" /\ r.token = flow.fence + 1
        /\ r.name = call[w][c].name /\ r.to = call[w][c].to /\ r.value = call[w][c].value
    BY <2>1, <2>8 DEF CallRecord
  <2> HIDE DEF q, r
  <2>10. /\ call'[w][c] = r
         /\ \A d \in CallsOf(w) : d # c => call'[w][d] = call[w][d]
         /\ \A u \in Workers : u # w => call'[u] = call[u]
    BY <2>1, <2>7, <2>9, OneCall
  <2>11. TypeOK'
    BY <2>1, <2>5, <2>7, <2>9, OneCall DEF TypeOK
  <2>12. ASSUME NEW u \in Workers, u # w PROVE WorkerOK(u)'
    <3>1. Holds(u, handler[u], ctx[u])' /\ \A d \in CallsOf(u) : Knows(u, call[u][d])'
      BY <2>5, <2>10, <2>12, Elapsed
    <3>2. flow.owner # u
      BY <2>3, <2>12
    <3>3. disciplined => Disciplined(u)'
      BY <2>5, <2>10, <2>12, <3>2 DEF Inv, WorkerOK, Disciplined, Between, Single, Only
    <3> QED BY <2>5, <3>1, <3>3 DEF WorkerOK
  <2>13. Knows(w, call[w][c])'
    <3>1. call[w][c].name # None => journal'[call[w][c].name] = call[w][c].value
                                    /\ call[w][c].value \in Values
      BY <2>1, <2>2, <2>4, <2>6 DEF ServerOK
    <3> QED BY <2>1, <2>3, <2>5, <2>8, <2>9, <2>10, <3>1 DEF Knows, Leased, Active
  <2>14. Holds(w, handler[w], ctx[w])' /\ \A d \in CallsOf(w) : Knows(w, call[w][d])'
    BY <2>5, <2>10, <2>13, Elapsed
  <2>15. ASSUME disciplined PROVE Disciplined(w)'
    <3>1. /\ handler[w] = "runs" /\ Only(w, c) /\ Single(w, ctx[w], guard[w], call[w][c])
      BY <2>1, <2>15, InCall
    <3>2. Only(w, c)'
      BY <2>10, <3>1, CallNumbers DEF Only
    <3>3. Single(w, ctx[w], guard[w], call[w][c])'
      BY <1>1, <2>5, <2>9, <2>10, <3>1 DEF Single, Active, Writing
    <3> QED BY <2>5, <2>9, <2>10, <3>1, <3>2, <3>3 DEF Disciplined
  <2> QED BY <2>5, <2>11, <2>12, <2>14, <2>15 DEF Inv, WorkerOK
<1> QED BY <1>2, <1>3

---------------------------------------------------------------------------
(* The end of a handler, the renewal, and the claim.                       *)

\* The calls of a worker that begins anew.
Reset(w) == [c \in CallsOf(w) |-> NoCall]

LEMMA CallsReset ==
    ASSUME TypeOK, NEW w \in Workers, call' = [call EXCEPT ![w] = Reset(w)]
    PROVE  /\ call' \in [Workers -> UNION {[CallsOf(u) -> CallRecord] : u \in Workers}]
           /\ \A u \in Workers : call'[u] \in [CallsOf(u) -> CallRecord]
           /\ \A c \in CallsOf(w) : call'[w][c] = NoCall
           /\ \A u \in Workers : u # w => call'[u] = call[u]
<1>1. NoCall \in CallRecord
  BY DEF NoCall, CallRecord
<1>2. Reset(w) \in [CallsOf(w) -> CallRecord] /\ \A c \in CallsOf(w) : Reset(w)[c] = NoCall
  BY <1>1 DEF Reset
<1>3. PICK r \in [CallsOf(w) -> CallRecord] : r = Reset(w)
  BY <1>2
<1>4. call' = [call EXCEPT ![w] = r]
  BY <1>3
<1>5. r \in UNION {[CallsOf(u) -> CallRecord] : u \in Workers}
  OBVIOUS
<1>6. call' \in [Workers -> UNION {[CallsOf(u) -> CallRecord] : u \in Workers}]
  <2> DEFINE all == UNION {[CallsOf(u) -> CallRecord] : u \in Workers}
  <2>1. call \in [Workers -> all] /\ r \in all
    BY <1>5 DEF TypeOK
  <2> HIDE DEF all
  <2>2. call' \in [Workers -> all]
    BY <1>4, <2>1
  <2> QED BY <2>2 DEF all
<1>7. call'[w] = r /\ \A u \in Workers : u # w => call'[u] = call[u]
  BY <1>4 DEF TypeOK
<1> QED BY <1>2, <1>3, <1>6, <1>7 DEF TypeOK

\* A step of one worker, which leaves the server alone and its calls as they are, or ends
\* them all.
LEMMA WorkerInv ==
    ASSUME Inv, NEW w \in Workers,
           NEW h \in {"idle", "runs", "stopping"}, NEW x \in Context, NEW g \in Guard,
           handler' = [handler EXCEPT ![w] = h],
           ctx' = [ctx EXCEPT ![w] = x], guard' = [guard EXCEPT ![w] = g],
           call' = call \/ call' = [call EXCEPT ![w] = Reset(w)],
           UNCHANGED <<disciplined, server, returned>>,
           late' \in SUBSET Request, \A q \in late' \ late : MayCome(q)',
           Holds(w, h, x), disciplined => Disciplined(w)',
           disciplined /\ (handler[w] = "idle" \/ ctx[w].phase = "uncertain")
             => h = "idle" \/ x.phase = "uncertain"
    PROVE  Inv'
<1>1. /\ TypeOK /\ \A u \in Workers : WorkerOK(u)
      /\ \A q \in late : MayCome(q)
      /\ flow' = flow /\ journal' = journal /\ disciplined' = disciplined /\ returned' = returned
  BY DEF Inv, server
<1>2. /\ handler'[w] = h /\ ctx'[w] = x /\ guard'[w] = g
      /\ \A u \in Workers : u # w => /\ handler'[u] = handler[u]
                                     /\ ctx'[u] = ctx[u] /\ guard'[u] = guard[u]
  BY <1>1 DEF TypeOK
<1>3. /\ call' \in [Workers -> UNION {[CallsOf(u) -> CallRecord] : u \in Workers}]
      /\ \A u \in Workers : call'[u] \in [CallsOf(u) -> CallRecord]
      /\ \A u \in Workers : u # w => call'[u] = call[u]
      /\ \A c \in CallsOf(w) : call'[w][c] = call[w][c] \/ call'[w][c] = NoCall
  <2>1. CASE call' = call
    BY <1>1, <2>1 DEF TypeOK
  <2>2. CASE call' = [call EXCEPT ![w] = Reset(w)]
    BY <1>1, <2>2, CallsReset
  <2> QED BY <2>1, <2>2
<1>4. TypeOK'
  BY <1>1, <1>3 DEF TypeOK, ServerOK
<1>5. ASSUME NEW u \in Workers, u # w PROVE WorkerOK(u)'
  <2>1. /\ WorkerOK(u) /\ call'[u] = call[u] /\ ctx'[u] = ctx[u] /\ guard'[u] = guard[u]
        /\ handler'[u] = handler[u]
    BY <1>1, <1>2, <1>3, <1>5
  <2> QED BY <1>1, <2>1 DEF WorkerOK, Holds, Leased, LeaseIsCurrent, Knows, Disciplined, Between,
                            Single, Only
<1>6. Holds(w, handler[w], ctx[w])'
  BY <1>1, <1>2 DEF Holds, Leased, LeaseIsCurrent
<1>7. ASSUME NEW c \in CallsOf(w) PROVE Knows(w, call[w][c])'
  <2>1. CASE call'[w][c] = call[w][c]
    <3>1. Knows(w, call[w][c])
      BY CallFacts
    <3> QED BY <1>1, <2>1, <3>1 DEF Knows, Leased, LeaseIsCurrent
  <2>2. CASE call'[w][c] = NoCall
    <3>1. flow'.fence \in Nat
      BY <1>4 DEF TypeOK, ServerOK
    <3> QED BY <2>2, <3>1 DEF Knows, NoCall, Active
  <2> QED BY <1>3, <2>1, <2>2
<1>8. ASSUME NEW q \in late' PROVE MayCome(q)'
  <2>1. CASE q \notin late
    BY <2>1
  <2>2. CASE q \in late
    <3>1. MayCome(q) /\ q.worker \in Workers
      BY <1>1, <2>2 DEF TypeOK, Request
    <3>2. disciplined /\ q.kind = "commit"
            => handler'[q.worker] = "idle" \/ ctx'[q.worker].phase = "uncertain"
      BY <1>2, <3>1 DEF MayCome
    <3> QED BY <1>1, <3>1, <3>2 DEF MayCome, LeaseIsCurrent
  <2> QED BY <2>1, <2>2
<1> QED BY <1>1, <1>4, <1>5, <1>6, <1>7, <1>8 DEF Inv, WorkerOK

\* The guard of a worker changes, and stays as its handler expects.
LEMMA GuardInv ==
    ASSUME Inv, NEW w \in Workers, NEW g \in Guard, guard' = [guard EXCEPT ![w] = g],
           UNCHANGED <<disciplined, server, late, handler, ctx, call, returned>>,
           g.state = guard[w].state,
           disciplined =>
             /\ handler[w] # "idle"
             /\ Between(w, ctx[w], guard[w]) => Between(w, ctx[w], g)
             /\ \A c \in CallsOf(w) : Single(w, ctx[w], guard[w], call[w][c])
                                       => Single(w, ctx[w], g, call[w][c])
    PROVE  Inv'
<1>1. /\ TypeOK /\ WorkerOK(w) /\ handler[w] \in {"idle", "runs", "stopping"}
      /\ handler = [handler EXCEPT ![w] = handler[w]] /\ guard'[w] = g
      /\ flow' = flow /\ journal' = journal
  BY DEF Inv, TypeOK, server
<1>2. ASSUME disciplined PROVE Disciplined(w)'
  <2>1. Between(w, ctx[w], guard[w]) => Between(w, ctx[w], guard[w])'
    BY <1>1, <1>2 DEF Between
  <2>2. \A c \in CallsOf(w) : Single(w, ctx[w], guard[w], call[w][c])
                              => Single(w, ctx[w], guard[w], call[w][c])'
    BY <1>1, <1>2 DEF Single, Active
  <2>3. Disciplined(w) /\ handler[w] # "idle"
    BY <1>1, <1>2 DEF WorkerOK
  <2> QED BY <1>1, <2>1, <2>2, <2>3 DEF Disciplined, Only
<1>3. Holds(w, handler[w], ctx[w])
  BY <1>1 DEF WorkerOK
<1>4. /\ ctx[w] \in Context /\ ctx' = [ctx EXCEPT ![w] = ctx[w]]
      /\ handler' = [handler EXCEPT ![w] = handler[w]]
      /\ late' \in SUBSET Request /\ late' \ late = {}
  BY <1>1 DEF TypeOK
<1> QED BY <1>1, <1>2, <1>3, <1>4, WorkerInv

\* A renewal is sent: the guard is active, so it has the lease of the context.
LEMMA RenewInv ==
    ASSUME Inv, NEW w \in Workers, Renew(w)
    PROVE  Inv'
<1>1. guard[w] \in Guard /\ TypeOK /\ WorkerOK(w)
  BY DEF Inv, TypeOK
<1>2. PICK g \in Guard : /\ guard' = [guard EXCEPT ![w] = g]
                         /\ g.state = "active" /\ g.token = guard[w].token
                         /\ g.inFlight = guard[w].token /\ g.error = guard[w].error
  <2>1. [guard[w] EXCEPT !.inFlight = guard[w].token] \in Guard
    BY <1>1 DEF Guard
  <2>2. guard' = [guard EXCEPT ![w] = [guard[w] EXCEPT !.inFlight = guard[w].token]]
    BY <1>1 DEF Renew, TypeOK
  <2> QED BY <1>1, <2>1, <2>2 DEF Renew, Guard
<1>3. guard[w].state = "active"
  BY DEF Renew
<1>4. disciplined => handler[w] # "idle"
  BY <1>1, <1>3 DEF WorkerOK, Disciplined, Between, NoGuard
<1>5. Between(w, ctx[w], guard[w]) => Between(w, ctx[w], g)
  BY <1>2, <1>3 DEF Between
<1>6. \A c \in CallsOf(w) : Single(w, ctx[w], guard[w], call[w][c])
                            => Single(w, ctx[w], g, call[w][c])
  BY <1>2, <1>3 DEF Single
<1> QED BY <1>2, <1>3, <1>4, <1>5, <1>6, GuardInv DEF Renew

\* The answer to a renewal.
LEMMA RenewedInv ==
    ASSUME Inv, NEW w \in Workers, Renewed(w)
    PROVE  Inv'
<1>1. guard[w] \in Guard /\ TypeOK /\ WorkerOK(w)
  BY DEF Inv, TypeOK
<1>2. PICK g \in Guard : /\ guard' = [guard EXCEPT ![w] = g]
                         /\ g.state = guard[w].state /\ g.token = guard[w].token
                         /\ g.inFlight = 0
                         /\ guard[w].error => g.error
  <2>1. PICK error \in BOOLEAN :
          guard' = [guard EXCEPT ![w].inFlight = 0, ![w].error = guard[w].error \/ error]
    BY DEF Renewed
  <2>2. PICK e \in BOOLEAN : e = (guard[w].error \/ error)
    BY <1>1 DEF Guard
  <2>3. guard' = [guard EXCEPT ![w] = [guard[w] EXCEPT !.inFlight = 0, !.error = e]]
    BY <1>1, <2>1, <2>2 DEF TypeOK
  <2>4. [guard[w] EXCEPT !.inFlight = 0, !.error = e] \in Guard
    BY <1>1 DEF Guard
  <2> QED BY <1>1, <2>2, <2>3, <2>4 DEF Guard
<1>3. guard[w].inFlight # 0
  BY DEF Renewed
<1>4. disciplined => handler[w] # "idle"
  BY <1>1, <1>3 DEF WorkerOK, Disciplined, NoGuard
<1>5. Between(w, ctx[w], guard[w]) => Between(w, ctx[w], g)
  BY <1>2 DEF Between
<1>6. \A c \in CallsOf(w) : Single(w, ctx[w], guard[w], call[w][c])
                            => Single(w, ctx[w], g, call[w][c])
  BY <1>2 DEF Single
<1>7. UNCHANGED <<disciplined, server, late, handler, ctx, call, returned>>
  BY DEF Renewed
<1> QED BY <1>2, <1>4, <1>5, <1>6, <1>7, GuardInv

\* A handler ends when none of its calls is under way, or leaves them behind.
LEMMA HandlerEndsInv ==
    ASSUME Inv, NEW w \in Workers, HandlerEnds(w)
    PROVE  Inv'
<1>1. /\ guard[w] \in Guard /\ TypeOK /\ WorkerOK(w) /\ handler[w] = "runs"
      /\ flow' = flow /\ journal' = journal /\ disciplined' = disciplined
      /\ ctx' = ctx /\ call' = call
  BY DEF Inv, TypeOK, HandlerEnds, server
<1>2. PICK g \in Guard : /\ guard' = [guard EXCEPT ![w] = g]
                         /\ g.state = "stopped" /\ g.token = guard[w].token
                         /\ g.inFlight = guard[w].inFlight /\ g.error = guard[w].error
  <2>1. [guard[w] EXCEPT !.state = "stopped"] \in Guard
    BY <1>1 DEF Guard
  <2>2. guard' = [guard EXCEPT ![w] = [guard[w] EXCEPT !.state = "stopped"]]
    BY <1>1 DEF HandlerEnds, TypeOK
  <2> QED BY <1>1, <2>1, <2>2 DEF Guard
<1>3. handler' = [handler EXCEPT ![w] = "stopping"] /\ handler'[w] = "stopping" /\ guard'[w] = g
  BY <1>1, <1>2 DEF HandlerEnds, TypeOK
<1>4. ASSUME disciplined PROVE Disciplined(w)'
  <2>1. Disciplined(w) /\ \A c \in CallsOf(w) : ~Active(call[w][c])
    BY <1>1, <1>4 DEF WorkerOK, HandlerEnds, InProgress, Active
  <2>2. Between(w, ctx[w], guard[w])
    BY <1>1, <2>1 DEF Disciplined, Between, Single, Active, Writing
  <2>3. Between(w, ctx[w], guard[w])'
    BY <1>1, <1>2, <1>3, <2>2 DEF Between
  <2> QED BY <1>1, <1>2, <1>3, <2>1, <2>3 DEF Disciplined, Active
<1>5. /\ ctx[w] \in Context /\ ctx' = [ctx EXCEPT ![w] = ctx[w]]
      /\ late' \in SUBSET Request /\ late' \ late = {}
  <2>1. late' = late
    BY DEF HandlerEnds
  <2> QED BY <1>1, <2>1 DEF TypeOK
<1>6. Holds(w, "stopping", ctx[w])
  BY <1>1 DEF WorkerOK, Holds
<1>7. ~(disciplined /\ ctx[w].phase = "uncertain") \/ ctx[w].phase = "uncertain"
  OBVIOUS
<1> QED BY <1>1, <1>2, <1>3, <1>4, <1>5, <1>6, <1>7, WorkerInv DEF HandlerEnds

\* A worker gives its context up, whatever it leaves behind.
LEMMA IdleInv ==
    ASSUME Inv, NEW w \in Workers, Idle(w), UNCHANGED <<disciplined, server, returned>>,
           late' \in SUBSET Request, \A q \in late' \ late : MayCome(q)'
    PROVE  Inv'
<1>1. TypeOK /\ flow' = flow /\ flow.fence \in Nat
  BY DEF Inv, TypeOK, ServerOK, server
<1>2. /\ handler' = [handler EXCEPT ![w] = "idle"] /\ ctx' = [ctx EXCEPT ![w] = NoContext]
      /\ guard' = [guard EXCEPT ![w] = NoGuard] /\ call' = [call EXCEPT ![w] = Reset(w)]
  BY DEF Idle, Reset
<1>3. NoContext \in Context /\ NoGuard \in Guard
  BY DEF NoContext, NoGuard, Context, Guard
<1>4. Holds(w, "idle", NoContext)
  BY <1>1 DEF Holds, NoContext
<1>5. Disciplined(w)'
  <2>1. handler'[w] = "idle" /\ ctx'[w] = NoContext /\ guard'[w] = NoGuard
    BY <1>1, <1>2 DEF TypeOK
  <2>2. \A c \in CallsOf(w) : call'[w][c] = NoCall
    BY <1>1, <1>2, CallsReset
  <2> QED BY <2>1, <2>2 DEF Disciplined
<1> QED BY <1>2, <1>3, <1>4, <1>5, WorkerInv

\* The outcome is written with the lease of the context.
LEMMA WriteOutcomeInv ==
    ASSUME Inv, NEW w \in Workers, WriteOutcome(w)
    PROVE  Inv'
<1>1. PICK to \in Outcomes : late' = late \cup {Outcome(w, to)}
  BY DEF WriteOutcome
<1>2. late \in SUBSET Request /\ ctx[w] \in Context
  BY DEF Inv, TypeOK
<1>3. PICK o \in Request : o = Outcome(w, to) /\ o.kind = "outcome" /\ o.to \in Outcomes
  <2>1. Outcome(w, to) \in Request /\ Outcome(w, to).kind = "outcome" /\ Outcome(w, to).to = to
    BY <1>1, <1>2 DEF Outcome, Outcomes, Request, Context
  <2> QED BY <2>1
<1>4. MayCome(o)'
  BY <1>3 DEF MayCome, Outcomes
<1>5. late' \in SUBSET Request /\ \A q \in late' \ late : MayCome(q)'
  BY <1>1, <1>2, <1>3, <1>4
<1> QED BY <1>5, IdleInv DEF WriteOutcome

LEMMA NoOutcomeInv ==
    ASSUME Inv, NEW w \in Workers, NoOutcome(w)
    PROVE  Inv'
<1>1. late' = late /\ late \in SUBSET Request
  BY DEF NoOutcome, Inv, TypeOK
<1> QED BY <1>1, IdleInv DEF NoOutcome

\* What a worker that crashes has sent may still come.
LEMMA CrashInv ==
    ASSUME Inv, NEW w \in Workers, Crash(w)
    PROVE  Inv'
<1>1. /\ late' = late \cup Abandoned(w, CallsOf(w)) /\ late \in SUBSET Request
      /\ UNCHANGED <<disciplined, server, returned>> /\ Idle(w) /\ TypeOK
  BY DEF Crash, Inv, TypeOK
<1>2. handler'[w] = "idle"
  BY <1>1 DEF Idle, TypeOK
<1>3. /\ Abandoned(w, CallsOf(w)) \in SUBSET Request
      /\ \A q \in Abandoned(w, CallsOf(w)) : MayCome(q)'
  BY <1>1, <1>2, AbandonedMayCome
<1> QED BY <1>1, <1>3, IdleInv

\* A claim takes the lease from whoever held it.
LEMMA ClaimInv ==
    ASSUME Inv, NEW w \in Workers, Claim(w)
    PROVE  Inv'
<1>1. /\ TypeOK /\ ServerOK /\ flow.fence \in Nat /\ flow.fence + 1 \in Nat
      /\ \A u \in Workers : WorkerOK(u)
  BY DEF Inv, TypeOK, ServerOK
<1>2. /\ handler[w] = "idle" /\ late' = {} /\ journal' = journal
      /\ disciplined' = disciplined /\ call' = call /\ returned' = returned
      /\ flow' = [flow EXCEPT !.state = "running", !.fence = flow.fence + 1, !.owner = w]
  BY DEF Claim
<1>3. PICK x \in Context : /\ ctx' = [ctx EXCEPT ![w] = x]
                           /\ x.phase = "idle" /\ x.token = flow.fence + 1
  <2>1. [NoContext EXCEPT !.token = flow.fence + 1] \in Context
    BY <1>1 DEF NoContext, Context
  <2> QED BY <2>1 DEF Claim, NoContext
<1>4. PICK g \in Guard : /\ guard' = [guard EXCEPT ![w] = g]
                         /\ g.state = "active" /\ g.token = flow.fence + 1 /\ g.inFlight = 0
  <2>1. [NoGuard EXCEPT !.state = "active", !.token = flow.fence + 1] \in Guard
    BY <1>1 DEF NoGuard, Guard
  <2> QED BY <2>1 DEF Claim, NoGuard
<1>5. /\ flow' \in [state : {"ready", "running", "ended"}, runState : States, fence : Nat,
                    owner : Workers \cup {None}]
      /\ flow'.state = "running" /\ flow'.fence = flow.fence + 1 /\ flow'.owner = w
  BY <1>1, <1>2 DEF ServerOK
<1>6. /\ ServerOK' /\ flow.fence <= flow'.fence
      /\ \A t \in Nat : t <= flow.fence => ~LeaseIsCurrent(t)'
      /\ \A n \in Names : journal[n] # None => journal'[n] = journal[n]
  BY <1>1, <1>2, <1>5, CallNumbers DEF ServerOK, LeaseIsCurrent
<1>7. /\ handler' = [handler EXCEPT ![w] = "runs"]
      /\ handler'[w] = "runs" /\ ctx'[w] = x /\ guard'[w] = g
      /\ \A u \in Workers : u # w => /\ handler'[u] = handler[u]
                                     /\ ctx'[u] = ctx[u] /\ guard'[u] = guard[u]
  BY <1>1, <1>3, <1>4 DEF TypeOK, Claim
<1>8. TypeOK'
  BY <1>1, <1>2, <1>3, <1>4, <1>6, <1>7 DEF TypeOK
<1>9. ASSUME NEW u \in Workers PROVE \A c \in CallsOf(u) : Knows(u, call[u][c])'
  BY <1>2, <1>6, Elapsed
<1>10. ASSUME NEW u \in Workers, u # w PROVE WorkerOK(u)'
  <2>1. Holds(u, handler[u], ctx[u])'
    BY <1>6, <1>7, <1>10, Elapsed
  <2>2. disciplined => Disciplined(u)'
    BY <1>1, <1>2, <1>5, <1>7, <1>10 DEF WorkerOK, Disciplined, Between, Single, Only
  <2> QED BY <1>2, <1>9, <2>1, <2>2 DEF WorkerOK
<1>11. WorkerOK(w)'
  <2>1. Holds(w, handler[w], ctx[w])'
    BY <1>1, <1>3, <1>5, <1>7 DEF Holds, Leased
  <2>2. ASSUME disciplined PROVE Disciplined(w)'
    <3>1. \A c \in CallsOf(w) : call'[w][c] = NoCall
      BY <1>1, <1>2, <2>2 DEF WorkerOK, Disciplined
    <3>2. \A c \in CallsOf(w) : call'[w][c].pc = "unused"
      BY <3>1 DEF NoCall
    <3>3. Between(w, ctx[w], guard[w])'
      BY <1>3, <1>4, <1>5, <1>7 DEF Between
    <3> QED BY <1>3, <1>4, <1>7, <3>2, <3>3 DEF Disciplined
  <2> QED BY <1>2, <1>9, <2>1, <2>2 DEF WorkerOK
<1> QED BY <1>2, <1>8, <1>10, <1>11 DEF Inv

---------------------------------------------------------------------------
(* The invariant, and what follows from it.                                *)

LEMMA InitInv == Init => Inv
<1> SUFFICES ASSUME Init PROVE Inv
  OBVIOUS
<1>1. ServerOK /\ flow.fence = 0 /\ late = {}
  BY CallNumbers DEF Init, ServerOK
<1>2. NoCall \in CallRecord /\ NoContext \in Context /\ NoGuard \in Guard
  BY DEF NoCall, CallRecord, NoContext, Context, NoGuard, Guard
<1>3. \A w \in Workers : call[w] \in [CallsOf(w) -> CallRecord]
  BY <1>2 DEF Init
<1>4. call \in [Workers -> UNION {[CallsOf(w) -> CallRecord] : w \in Workers}]
  <2> DEFINE all == UNION {[CallsOf(w) -> CallRecord] : w \in Workers}
  <2>1. \A w \in Workers : [c \in CallsOf(w) |-> NoCall] \in all
    BY <1>2
  <2> HIDE DEF all
  <2>2. call \in [Workers -> all]
    BY <2>1 DEF Init
  <2> QED BY <2>2 DEF all
<1>5. TypeOK
  BY <1>1, <1>2, <1>3, <1>4 DEF TypeOK, Init
<1>6. ASSUME NEW w \in Workers PROVE WorkerOK(w)
  <2>1. /\ handler[w] = "idle" /\ ctx[w] = NoContext /\ guard[w] = NoGuard
        /\ \A c \in CallsOf(w) : call[w][c] = NoCall
    BY DEF Init
  <2>2. Holds(w, handler[w], ctx[w]) /\ \A c \in CallsOf(w) : Knows(w, call[w][c])
    BY <1>1, <2>1 DEF Holds, Knows, NoContext, NoCall, Active
  <2> QED BY <2>1, <2>2 DEF WorkerOK, Disciplined
<1> QED BY <1>1, <1>5, <1>6 DEF Inv

LEMMA CallStepInv ==
    ASSUME Inv, NEW w \in Workers, NEW c \in CallsOf(w), CallStep(w, c)
    PROVE  Inv'
<1>1. ASSUME NEW n \in Names, StartStep(w, c, n) PROVE Inv'
  BY <1>1, StartStepInv
<1>2. ASSUME NEW to \in States, StartAdvance(w, c, to) PROVE Inv'
  BY <1>2, StartAdvanceInv
<1>3. CASE Validate(w, c)
  BY <1>3, ValidateInv
<1>4. CASE Replay(w, c)
  BY <1>4, ReplayInv
<1>5. CASE RunClosure(w, c) \/ ClosureThrows(w, c)
  BY <1>5, RunClosureInv
<1>6. CASE WriteCommit(w, c)
  BY <1>6, WriteCommitInv
<1>7. CASE PauseFails(w, c)
  BY <1>7, PauseFailsInv
<1>8. CASE AnswerCommit(w, c)
  BY <1>8, AnswerCommitInv
<1>9. CASE Committed(w, c)
  BY <1>9, CommittedInv
<1>10. CASE CommitRejected(w, c) \/ CommitUncertain(w, c)
  BY <1>10, CommitRejectedInv, CommitUncertainInv
<1> QED BY <1>1, <1>2, <1>3, <1>4, <1>5, <1>6, <1>7, <1>8, <1>9, <1>10 DEF CallStep

LEMMA NextInv == Inv /\ [Next]_vars => Inv'
<1> SUFFICES ASSUME Inv, [Next]_vars PROVE Inv'
  OBVIOUS
<1>1. CASE ApplyLateCommit
  BY <1>1, ApplyLateCommitInv
<1>2. CASE ApplyOutcome
  BY <1>2, ApplyOutcomeInv
<1>3. ASSUME NEW w \in Workers, WorkerStep(w) PROVE Inv'
  BY <1>3, ClaimInv, RenewInv, RenewedInv, HandlerEndsInv, WriteOutcomeInv, NoOutcomeInv, CrashInv
     DEF WorkerStep
<1>4. ASSUME NEW w \in Workers, NEW c \in CallsOf(w), CallStep(w, c) PROVE Inv'
  BY <1>4, CallStepInv
<1>5. CASE UNCHANGED vars
  BY <1>5 DEF vars, server, Inv, TypeOK, ServerOK, WorkerOK, Holds, Leased, LeaseIsCurrent, Knows,
              Disciplined, Between, Single, Only, MayCome
<1> QED BY <1>1, <1>2, <1>3, <1>4, <1>5 DEF Next

LEMMA InvHolds == Spec => []Inv
BY InitInv, NextInv, PTL DEF Spec

\* Every variable of the durable steps keeps its type: the tokens are numbers, and a flow
\* has an owner as long as it runs (client-durable-step.ts, worker-lease-guard.ts).
THEOREM TypeCorrect == Spec => []TypeOK
<1>1. Inv => TypeOK
  BY DEF Inv
<1> QED BY <1>1, InvHolds, PTL

\* README.md:479: a handler that awaits its durable calls, and makes none after one has
\* failed, never renews a lease that one of its own commits has replaced, and its lease is
\* being renewed while it computes (DurableLeaseGuard.pause and resumeWith).
THEOREM OnlyTheCurrentLeaseIsRenewed == Spec => []RenewsCurrentLease
<1>1. Inv => RenewsCurrentLease
  <2> SUFFICES ASSUME Inv, disciplined, NEW w \in Workers
               PROVE  /\ guard[w].inFlight # 0 /\ flow.owner = w => guard[w].inFlight = flow.fence
                      /\ handler[w] = "runs" /\ ctx[w].phase = "idle"
                            /\ (\A c \in CallsOf(w) : call[w][c].pc # "pausing")
                         => guard[w].error \/ (guard[w].state = "active"
                                               /\ guard[w].token = ctx[w].token)
    BY DEF RenewsCurrentLease
  <2>1. Disciplined(w) /\ guard[w] \in Guard
    BY DEF Inv, WorkerOK, TypeOK
  <2>2. CASE handler[w] = "idle" /\ guard[w] = NoGuard
    BY <2>2 DEF NoGuard
  <2>3. CASE Between(w, ctx[w], guard[w]) /\ (handler[w] = "runs" => guard[w].state = "active")
    BY <2>3 DEF Between
  <2>4. CASE \E c \in CallsOf(w) : Single(w, ctx[w], guard[w], call[w][c])
    <3>1. PICK c \in CallsOf(w) : Single(w, ctx[w], guard[w], call[w][c])
      BY <2>4
    <3>2. guard[w].state \in {"active", "paused"}
      BY <2>1, <3>1 DEF Single, Guard
    <3> QED BY <3>1, <3>2 DEF Single, Writing
  <2> QED BY <2>1, <2>2, <2>3, <2>4 DEF Disciplined
<1> QED BY <1>1, InvHolds, PTL

\* The outcome of such a handler carries the lease its worker holds, if it holds any: no
\* commit of this worker has replaced it (workflow-job-execution.ts).
THEOREM OutcomesAreCurrent == Spec => NoStaleOutcome
<1> DEFINE A == disciplined => \A q \in late' \ late :
                   q.kind = "outcome" /\ flow.owner = q.worker => q.token = flow.fence
<1>1. Inv /\ [Next]_vars => [A]_vars
  <2> SUFFICES ASSUME Inv, Next, disciplined, NEW q \in late' \ late,
                      q.kind = "outcome", flow.owner = q.worker
               PROVE  q.token = flow.fence
    OBVIOUS
  <2>1. ASSUME NEW w \in Workers, NEW calls, q \in Abandoned(w, calls) PROVE FALSE
    BY <2>1 DEF Abandoned, Commit
  <2>2. ASSUME NEW w \in Workers, NEW c \in CallsOf(w), CallStep(w, c) PROVE FALSE
    <3>1. late' = late \/ late' = {} \/ late' = late \cup Abandoned(w, {c})
      BY <2>2 DEF CallStep, StartStep, StartAdvance, Validate, Replay, RunClosure, ClosureThrows,
                  BeforeCommit, RefuseCommit, WriteCommit, PauseFails, AnswerCommit, ApplyCommit,
                  Committed, CommitRejected, CommitUncertain
    <3> QED BY <2>1, <3>1
  <2>3. PICK w \in Workers : WriteOutcome(w) \/ Crash(w)
    BY <2>2 DEF Next, WorkerStep, ApplyLateCommit, ApplyCommit, ApplyOutcome, Claim, Renew, Renewed,
                HandlerEnds, NoOutcome
  <2>4. CASE Crash(w)
    BY <2>1, <2>4 DEF Crash
  <2>5. CASE WriteOutcome(w)
    <3>1. PICK to \in Outcomes : q = Outcome(w, to)
      BY <2>5 DEF WriteOutcome
    <3>2. q.worker = w /\ q.token = ctx[w].token
      BY <3>1 DEF Outcome
    <3>3. handler[w] = "stopping" /\ ctx[w].phase # "uncertain" /\ Disciplined(w)
      BY <2>5 DEF WriteOutcome, Stopped, Inv, WorkerOK
    <3>4. Between(w, ctx[w], guard[w])
      BY <3>3 DEF Disciplined
    <3> QED BY <3>2, <3>3, <3>4 DEF Between
  <2> QED BY <2>3, <2>4, <2>5
<1>2. Spec => [][A]_vars
  BY <1>1, InvHolds, PTL DEF Spec
<1> QED BY <1>2 DEF NoStaleOutcome

---------------------------------------------------------------------------
(* The journal.                                                            *)

LEMMA CommitRefines ==
    ASSUME Inv, NEW q, ApplyCommit(q), q.name \in Names \cup {None},
           q.name # None => q.value \in Values /\ journal[q.name] = None
    PROVE  Journal!Next \/ UNCHANGED <<journal, returned>>
<1>1. CASE q.name = None
  BY <1>1 DEF ApplyCommit
<1>2. CASE q.name # None
  <2>1. Journal!Commit(q.name, q.value)
    BY <1>2 DEF ApplyCommit, Journal!Commit
  <2> QED BY <1>2, <2>1 DEF Journal!Next
<1> QED BY <1>1, <1>2

LEMMA StepRefines == Inv /\ [Next]_vars => [Journal!Next]_<<journal, returned>>
<1> SUFFICES ASSUME Inv, [Next]_vars PROVE Journal!Next \/ UNCHANGED <<journal, returned>>
  OBVIOUS
<1>1. CASE ApplyLateCommit
  <2>1. PICK q \in late : ApplyCommit(q)
    BY <1>1 DEF ApplyLateCommit
  <2>2. q \in Request /\ MayCome(q) /\ q.kind = "commit"
    BY <2>1 DEF Inv, TypeOK, ApplyCommit
  <2>3. /\ q.name \in Names \cup {None}
        /\ q.name # None => q.value \in Values /\ journal[q.name] = None
    BY <2>2 DEF Request, MayCome
  <2> QED BY <2>1, <2>3, CommitRefines
<1>2. ASSUME NEW w \in Workers, NEW c \in CallsOf(w), CallStep(w, c)
      PROVE  Journal!Next \/ UNCHANGED <<journal, returned>>
  <2>1. call[w][c] \in CallRecord /\ Knows(w, call[w][c])
    BY CallFacts
  <2>2. call[w][c].name \in Names \cup {None}
    BY <2>1 DEF CallRecord
  <2>3. CASE AnswerCommit(w, c)
    <3>1. CASE ApplyCommit(Commit(w, c))
      <4>1. /\ Commit(w, c).name = call[w][c].name /\ Commit(w, c).value = call[w][c].value
            /\ Commit(w, c).token = call[w][c].token
        BY DEF Commit
      <4>2. call[w][c].pc = "committing" /\ LeaseIsCurrent(call[w][c].token)
        BY <2>3, <3>1, <4>1 DEF AnswerCommit, ApplyCommit
      <4>3. call[w][c].name # None => call[w][c].value \in Values /\ journal[call[w][c].name] = None
        BY <2>1, <4>2 DEF Knows
      <4> QED BY <2>2, <3>1, <4>1, <4>3, CommitRefines
    <3>2. CASE ~ApplyCommit(Commit(w, c))
      BY <2>3, <3>2 DEF AnswerCommit, server
    <3> QED BY <3>1, <3>2
  <2>4. CASE Replay(w, c)
    <3>1. /\ call[w][c].name \in Names /\ journal[call[w][c].name] # None
          /\ call[w][c].value = journal[call[w][c].name]
      BY <2>1, <2>2, <2>4 DEF Replay, Knows
    <3>2. Journal!Return(call[w][c].name)
      BY <2>4, <3>1 DEF Replay, server, Journal!Return
    <3> QED BY <3>1, <3>2 DEF Journal!Next
  <2>5. CASE Committed(w, c)
    <3>1. CASE call[w][c].name = None
      BY <2>5, <3>1 DEF Committed, server
    <3>2. CASE call[w][c].name # None
      <4>1. /\ call[w][c].name \in Names /\ journal[call[w][c].name] # None
            /\ call[w][c].value = journal[call[w][c].name]
        BY <2>1, <2>2, <2>5, <3>2, CallNumbers DEF Committed, Knows
      <4>2. Journal!Return(call[w][c].name)
        BY <2>5, <3>2, <4>1 DEF Committed, server, Journal!Return
      <4> QED BY <4>1, <4>2 DEF Journal!Next
    <3> QED BY <3>1, <3>2
  <2> QED BY <1>2, <2>3, <2>4, <2>5
          DEF CallStep, StartStep, StartAdvance, Validate, RunClosure, ClosureThrows, BeforeCommit,
              RefuseCommit, WriteCommit, PauseFails, CommitRejected, CommitUncertain, server
<1>3. CASE ApplyOutcome
  BY <1>3 DEF ApplyOutcome
<1>4. ASSUME NEW w \in Workers, WorkerStep(w) PROVE UNCHANGED <<journal, returned>>
  BY <1>4 DEF WorkerStep, Claim, Renew, Renewed, HandlerEnds, WriteOutcome, NoOutcome, Crash, server
<1>5. CASE UNCHANGED vars
  BY <1>5 DEF vars, server
<1> QED BY <1>1, <1>2, <1>3, <1>4, <1>5 DEF Next

\* README.md:397: with any workers, crashes, lost answers and late commits, the result of a
\* step is recorded once and every handler that is given one is given that one.
THEOREM StepsImplementTheJournal == Spec => ImplementsStepJournal
<1>1. Init => Journal!Init
  BY DEF Init, Journal!Init
<1>2. Spec => Journal!Spec
  BY <1>1, StepRefines, InvHolds, PTL DEF Spec, Journal!Spec
<1> QED BY <1>2 DEF ImplementsStepJournal
=============================================================================
