---------------------------- MODULE HttpTransport ----------------------------
(***************************************************************************)
(* Command batches over HTTP/2: the adapter (http-adapter.ts), the         *)
(* transport with its sessions (http-transport.ts) and the slots of a      *)
(* session (http2-slot-pool.ts).  One origin; redirects stay on it.        *)
(*                                                                         *)
(* A step is what happens between two awaits.  An event of a socket waits  *)
(* until no continuation is due, except that SETTINGS and GOAWAY may come  *)
(* in one read.                                                            *)
(***************************************************************************)
EXTENDS Naturals, Sequences, FiniteSets

CONSTANTS Batches,
          MaxConnections,   \* maxConnections, the most streams of one session
          RemoteLimits,     \* what a server may announce as MAX_CONCURRENT_STREAMS
          MaxRedirects,
          MaxDetours,       \* bound on the redirects followed and requests replayed after a 401
          MaxSessionFaults  \* bound on the sessions that break or are told to go away

Sessions == 1..MaxSessionFaults + 1
Nobody == 0
Unknown == MaxConnections + 1  \* no SETTINGS yet

VARIABLES batch,    \* a post(): where it stands, the session of its stream, how often it tried
          pool,     \* the sessions, each with its slots
          session,  \* the one new streams use
          allSessions,
          transportClosed,
          detours, sessionFaults

httpVars == <<batch, pool, session, allSessions, transportClosed, detours, sessionFaults>>

NoBatch == [pc |-> "idle", on |-> Nobody, attempt |-> 0, replay |-> 0, redirects |-> 0,
            abort |-> "no", executed |-> 0, result |-> "none"]
NoSession == [state |-> "absent", limit |-> Unknown, active |-> 0, waiters |-> <<>>,
              retired |-> FALSE, whenIdle |-> FALSE]

Init == /\ batch = [b \in Batches |-> NoBatch]
        /\ pool = [s \in Sessions |-> NoSession]
        /\ session = Nobody
        /\ allSessions = {}
        /\ transportClosed = FALSE
        /\ detours = 0 /\ sessionFaults = 0

\* What a step works on.
World == [batch |-> batch, pool |-> pool, session |-> session, all |-> allSessions]

Becomes(world) == \E w \in {world} : /\ batch' = w.batch
                                     /\ pool' = w.pool
                                     /\ session' = w.session
                                     /\ allSessions' = w.all

---------------------------------------------------------------------------
(* The slots of a session. *)

HasSlot(p) == ~p.retired /\ p.limit # Unknown /\ p.active < p.limit

\* acquire: at once, or in the order of arrival.
Acquire(w, b, s) ==
    IF HasSlot(w.pool[s])
    THEN [w EXCEPT !.pool[s].active = @ + 1,
                   !.batch[b] = [w.batch[b] EXCEPT !.pc = "granted", !.on = s]]
    ELSE [w EXCEPT !.pool[s].waiters = Append(@, b),
                   !.batch[b] = [w.batch[b] EXCEPT !.pc = "waiting", !.on = s]]

\* drain: the first waiters get the free slots.
Drain(w, s) ==
    LET p == w.pool[s]
        free == IF HasSlot(p) THEN p.limit - p.active ELSE 0
        n == IF free < Len(p.waiters) THEN free ELSE Len(p.waiters)
        first == {p.waiters[i] : i \in 1..n}
        rest == SubSeq(p.waiters, n + 1, Len(p.waiters))
    IN  [w EXCEPT !.pool[s] = [p EXCEPT !.active = p.active + n, !.waiters = rest],
                  !.batch = [b \in Batches |-> IF b \in first THEN [w.batch[b] EXCEPT !.pc = "granted"]
                                               ELSE w.batch[b]]]

\* removeWaiter.
Without(s, b) == LET i == CHOOSE i \in DOMAIN s : s[i] = b
                 IN  SubSeq(s, 1, i - 1) \o SubSeq(s, i + 1, Len(s))

Destroy(w, s) == [w EXCEPT !.pool[s].state = "destroyed"]

\* Slip: the slot that comes back is not given to the next waiter.
ReleaseOnly(w, s) == [w EXCEPT !.pool[s].active = @ - 1]

\* Slip: the last slot of a retired session comes back and nobody ends the session.
ReleaseAndDrain(w, s) == Drain([w EXCEPT !.pool[s].active = @ - 1], s)

\* release: the slot goes to the next waiter; the last one ends a retired session.
Release(w, s) ==
    LET drained == Drain([w EXCEPT !.pool[s].active = @ - 1], s)
        p == drained.pool[s]
    IN  IF p.active = 0 /\ p.whenIdle
        THEN Destroy([drained EXCEPT !.pool[s].whenIdle = FALSE], s) ELSE drained

\* retireSession: no new streams, the waiters are rejected, how is the fate of the session.
\* The limit of a retired session does not matter any more.
RetireSession(w, s, how) ==
    LET p == w.pool[s]
        idle == how = "when idle" /\ p.active = 0
        later == p.whenIdle \/ (how = "when idle" /\ ~idle)
        rejected == {b \in Batches : \E i \in DOMAIN p.waiters : p.waiters[i] = b}
        retired == [w EXCEPT !.session = IF @ = s THEN Nobody ELSE @,
                             !.pool[s] = [p EXCEPT !.retired = TRUE, !.limit = Unknown, !.waiters = <<>>,
                                                   !.whenIdle = later],
                             !.batch = [b \in Batches |-> IF b \in rejected
                                                          THEN [w.batch[b] EXCEPT !.pc = "rejected"]
                                                          ELSE w.batch[b]]]
    IN  IF how = "destroy" \/ idle THEN Destroy(retired, s) ELSE retired

---------------------------------------------------------------------------
(* A request of a batch. *)

\* session(): the current one if it still takes streams, or a new one.
TakesStreams(w) == w.session # Nobody /\ w.pool[w.session].state = "open"

Connects(w) == IF TakesStreams(w) THEN w
               ELSE LET s == CHOOSE s \in Sessions : /\ w.pool[s].state = "absent"
                                                     /\ \A n \in 1..s - 1 : w.pool[n].state # "absent"
                    IN  [w EXCEPT !.pool[s].state = "open", !.session = s, !.all = @ \cup {s}]

\* One pass of http2Request.
TryStream(w, b) == LET c == Connects(w) IN Acquire(c, b, c.session)

\* A request to the same or to another URL starts its attempts afresh.
Request(w, b, change) == TryStream([w EXCEPT !.batch[b] = [change EXCEPT !.attempt = 0]], b)

Finish(w, b, result) == [w EXCEPT !.batch[b] = [NoBatch EXCEPT !.pc = "done",
                            !.executed = w.batch[b].executed, !.result = result]]

\* The second and last attempt, or the error of the first.
TryAgain(w, b) == IF w.batch[b].attempt = 0 /\ w.batch[b].abort = "no"
                  THEN TryStream([w EXCEPT !.batch[b].attempt = 1], b)
                  ELSE Finish(w, b, "possibly_sent")

\* executeBatch and post: a batch that cannot be encoded is not sent.
Post(b) == /\ batch[b].pc = "idle"
           /\ \/ Becomes(Finish(World, b, "unsent"))
              \/ ~transportClosed /\ Becomes(Request(World, b, batch[b]))
           /\ UNCHANGED <<transportClosed, detours, sessionFaults>>

\* The slot is granted: the stream is opened, which a session that goes away refuses.  A
\* request that was aborted meanwhile opens its stream only to cancel it.
Open(b) ==
    LET s == batch[b].on
        released == Release(World, s)
    IN
    /\ batch[b].pc = "granted"
    /\ CASE pool[s].state = "open" /\ batch[b].abort = "no" ->
              Becomes([World EXCEPT !.batch[b].pc = "streaming"])
         [] pool[s].state = "open" /\ batch[b].abort # "no" ->
              Becomes([World EXCEPT !.batch[b].pc = "broken"])
         [] pool[s].state # "open" /\ batch[b].attempt = 0 /\ batch[b].abort = "no" ->
              Becomes(TryAgain(Release(RetireSession(World, s, "destroy"), s), b))
         [] OTHER -> Becomes(Finish(released, b, "possibly_sent"))
    /\ UNCHANGED <<transportClosed, detours, sessionFaults>>

\* The session was retired while the request waited for a slot.
Rejected(b) == /\ batch[b].pc = "rejected"
               /\ Becomes(TryAgain(World, b))
               /\ UNCHANGED <<transportClosed, detours, sessionFaults>>

\* Slip: every broken stream counts as refused.
AnyFailure(how) == TRUE

RefusedStream(how) == how = "refused"

\* The error of a stream reaches the request.
StreamFails(b, how) == Becomes(LET released == Release(World, batch[b].on)
                               IN  IF RefusedStream(how) THEN TryAgain(released, b)
                                   ELSE Finish(released, b, "possibly_sent"))

Broken(b) == /\ batch[b].pc \in {"streaming", "executed", "broken"}
             /\ \/ batch[b].pc = "broken" \/ batch[b].abort # "no"
                \/ pool[batch[b].on].state = "destroyed"
             /\ StreamFails(b, "broken")
             /\ UNCHANGED <<transportClosed, detours, sessionFaults>>

\* No continuation is due.
Quiet == \A b \in Batches :
            /\ batch[b].pc \notin {"granted", "rejected", "broken"}
            /\ batch[b].pc \in {"streaming", "executed"} =>
                  batch[b].abort = "no" /\ pool[batch[b].on].state # "destroyed"

---------------------------------------------------------------------------
(* The server. *)

Refuse(b) == /\ batch[b].pc = "streaming" /\ Quiet
             /\ StreamFails(b, "refused")
             /\ UNCHANGED <<transportClosed, detours, sessionFaults>>

Execute(b) == /\ batch[b].pc = "streaming" /\ Quiet
              /\ batch' = [batch EXCEPT ![b].pc = "executed", ![b].executed = @ + 1]
              /\ UNCHANGED <<pool, session, allSessions, transportClosed, detours, sessionFaults>>

\* What the server answers, with and without having executed the batch.
Statuses(executed) == IF executed THEN {"ok", "timeout", "unavailable"}
                      ELSE {"unauthorized", "redirect", "rejected", "timeout", "unavailable"}

\* topLevelError: what a status says of the batch.
Disposition(status) == CASE status = "ok" -> "ok"
                         [] status \in {"rejected", "unauthorized"} -> "safe_to_retry"
                         [] OTHER -> "possibly_sent"

\* A redirect is followed, and a 401 answered once with the same request.
Again(b, status) == [batch[b] EXCEPT !.redirects = IF status = "redirect" THEN @ + 1 ELSE 0,
                                     !.replay = IF status = "unauthorized" THEN 1 ELSE @]

Answer(b) ==
    LET released == Release(World, batch[b].on) IN
    /\ batch[b].pc \in {"streaming", "executed"} /\ Quiet
    /\ \E status \in Statuses(batch[b].pc = "executed") :
         IF \/ status = "redirect" /\ batch[b].redirects < MaxRedirects
            \/ status = "unauthorized" /\ batch[b].replay = 0
         THEN /\ detours < MaxDetours /\ detours' = detours + 1
              /\ Becomes(Request(released, b, Again(b, status)))
         ELSE /\ Becomes(Finish(released, b, Disposition(status)))
              /\ UNCHANGED detours
    /\ UNCHANGED <<transportClosed, sessionFaults>>

---------------------------------------------------------------------------
(* Events of a session. *)

UpdateLimit(w, s, limit) ==
    IF w.pool[s].retired THEN w
    ELSE Drain([w EXCEPT !.pool[s].limit = IF limit < MaxConnections THEN limit ELSE MaxConnections], s)

Settings(s) == /\ Quiet /\ pool[s].state = "open"
               /\ \E limit \in RemoteLimits : limit # pool[s].limit /\ Becomes(UpdateLimit(World, s, limit))
               /\ UNCHANGED <<transportClosed, detours, sessionFaults>>

SessionFault == sessionFaults < MaxSessionFaults /\ sessionFaults' = sessionFaults + 1

\* GOAWAY, perhaps with SETTINGS before it.  Streams that are open may finish.
Goaway(s) ==
    LET leaving == [World EXCEPT !.pool[s].state = "leaving"] IN
    /\ Quiet /\ pool[s].state = "open"
    /\ \/ Becomes(RetireSession(leaving, s, "when idle"))
       \/ \E limit \in RemoteLimits :
            Becomes(RetireSession(UpdateLimit(leaving, s, limit), s, "when idle"))
    /\ SessionFault
    /\ UNCHANGED <<transportClosed, detours>>

SessionError(s) == /\ Quiet /\ pool[s].state \in {"open", "leaving"}
                   /\ Becomes(RetireSession(World, s, "destroy"))
                   /\ SessionFault
                   /\ UNCHANGED <<transportClosed, detours>>

\* The close event of a session; one that is not destroyed yet is left to close().
SessionClosed(s) == /\ s \in allSessions /\ pool[s].state = "destroyed"
                    /\ Becomes(RetireSession([World EXCEPT !.all = @ \ {s}], s, "leave"))
                    /\ UNCHANGED <<transportClosed, detours, sessionFaults>>

---------------------------------------------------------------------------
(* Aborts. *)

\* A waiter leaves the queue; a stream is cancelled, see Broken; a slot that was just
\* granted is given back by Open.
Abort(w, b, reason) ==
    CASE w.batch[b].pc = "waiting" ->
           Finish([w EXCEPT !.pool[w.batch[b].on].waiters = Without(@, b)], b, "possibly_sent")
      [] w.batch[b].pc \in {"granted", "streaming", "executed", "rejected", "broken"} ->
           [w EXCEPT !.batch[b].abort = reason]
      [] OTHER -> w

Timeout(b) == /\ batch[b].pc \in {"waiting", "streaming", "executed"} /\ Quiet
              /\ Becomes(Abort(World, b, "timeout"))
              /\ UNCHANGED <<transportClosed, detours, sessionFaults>>

\* close(): every request is aborted and every session destroyed.
Close ==
    /\ ~transportClosed
    /\ transportClosed' = TRUE
    /\ batch' = [b \in Batches |-> Abort(World, b, "closed").batch[b]]
    /\ pool' = [s \in Sessions |->
                  IF s \in allSessions THEN [pool[s] EXCEPT !.state = "destroyed", !.limit = Unknown,
                                                             !.waiters = <<>>]
                  ELSE pool[s]]
    /\ session' = Nobody
    /\ allSessions' = {}
    /\ UNCHANGED <<detours, sessionFaults>>

---------------------------------------------------------------------------
Due == \/ \E b \in Batches : Open(b) \/ Rejected(b) \/ Broken(b)
       \/ \E s \in Sessions : SessionClosed(s)

\* Continuations run, and the server answers in time or the timer fires.
Continue == Due \/ \E b \in Batches : Answer(b) \/ Timeout(b)

Next == \/ Continue
        \/ \E b \in Batches : Post(b) \/ Refuse(b) \/ Execute(b)
        \/ \E s \in Sessions : Settings(s) \/ Goaway(s) \/ SessionError(s)
        \/ Close

Spec == Init /\ [][Next]_httpVars

FairSpec == Spec /\ WF_httpVars(Continue)


---------------------------------------------------------------------------
HoldsSlot(b) == batch[b].pc \in {"granted", "streaming", "executed", "broken"}

\* Every slot in use is held by one request, which gives it back however it ends; the queue
\* holds the requests that wait; and nobody waits while a slot of a session in use is free
\* (http2-slot-pool.ts:87).
SlotsConserved ==
    \A s \in Sessions :
        LET p == pool[s] IN
        /\ p.active = Cardinality({b \in Batches : HoldsSlot(b) /\ batch[b].on = s})
        /\ p.active <= MaxConnections
        /\ {p.waiters[i] : i \in DOMAIN p.waiters}
                = {b \in Batches : batch[b].pc = "waiting" /\ batch[b].on = s}
        /\ \A i, j \in DOMAIN p.waiters : p.waiters[i] = p.waiters[j] => i = j
        /\ p.waiters # <<>> => ~HasSlot(p) /\ ~p.retired

\* A batch is executed at most once, although it may be sent again after a refused stream, a
\* retired session, a redirect or a 401; and one whose error says that it can safely be
\* repeated, or was not sent, has not been executed (http-transport.ts:199, http-adapter.ts:151).
ExecutedAsReported ==
    \A b \in Batches :
        /\ batch[b].executed <= 1
        /\ batch[b].result \in {"unsent", "safe_to_retry"} => batch[b].executed = 0
        /\ batch[b].result = "ok" => batch[b].executed = 1

\* In the end every batch has its result, no session that was retired is left, and after
\* close() none at all (http-transport.ts:281).
Settled == /\ \A b \in Batches : batch[b].pc \in {"idle", "done"}
           /\ \A s \in Sessions : pool[s].retired \/ transportClosed
                                       => pool[s].state \in {"absent", "destroyed"}
=============================================================================
