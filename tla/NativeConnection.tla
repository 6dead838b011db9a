-------------------------- MODULE NativeConnection --------------------------
(***************************************************************************)
(* One native connection (native-adapter.ts with its write queue, pending- *)
(* request timeouts, chunk assembler, response handler and heartbeat).     *)
(*                                                                         *)
(* A request of the caller goes through: no credit -> waiting -> granted   *)
(* -> pending (registered; its frame queued or handed to the socket) ->    *)
(* done.  Credits are one window without lanes: NativeFlowControl shows    *)
(* that the class behaves like one (CreditWindow).  The write queue is its *)
(* sequence of live frames (NativeWriteQueue).                             *)
(*                                                                         *)
(* Promise continuations (a granted waiter that resumes, a failed          *)
(* heartbeat) run before the next timer or socket event, but after the     *)
(* rest of the handler that caused them, which may go on decoding frames;  *)
(* the caller's own continuations may run first and call request, retire   *)
(* or close.  Frames therefore arrive at any time, timers only when no     *)
(* continuation is due.                                                    *)
(***************************************************************************)
EXTENDS Integers, Sequences, FiniteSetsExt

CONSTANTS Data,          \* data requests: they need a credit
          Blocking,      \* the data requests without response timeout
          Control,       \* control requests: no credit, bounded in number
          Ping,          \* the heartbeat's request
          MaxQueuedRequests, MaxPendingControlRequests,
          MaxQueuedWrites,  \* maxQueuedWriteBytes, every frame of equal length
          MaxChunkFrames,
          InitLimit, Limits \* credits: at first, and as a WINDOW_UPDATE may set them

ASSUME ConnectionAssumption ==
    /\ Blocking \subseteq Data
    /\ Data \cap Control = {}
    /\ Ping \notin Data \cup Control
    /\ {MaxQueuedRequests, MaxPendingControlRequests, MaxQueuedWrites,
        MaxChunkFrames, InitLimit} \cup Limits \subseteq Nat

Requests == Data \cup Control \cup {Ping}

VARIABLES st,          \* where each request is
          outcome,     \* how its promise was settled; "none" before
          server,      \* "none" (frame not in the socket), "owns", "answered" or "lost"
          timedOut,    \* pending requests whose caller was told of the timeout
          chunks,      \* response frames assembled so far, per request
          discarded,   \* response frames of timed-out requests thrown away
          totalFrames, \* the assembler's count of buffered frames
          credits,     \* the requests whose credit is counted as active
          waiters,     \* requests waiting for a credit, oldest first
          limit,
          writes,      \* frames waiting for "drain", oldest first
          writeBlocked,
          pendingControlRequests,
          closed, draining,
          retirement   \* of a retire() call: "none", "waiting", "resolved"

fate == <<st, outcome, server>>
response == <<timedOut, chunks, discarded, totalFrames>>
window == <<credits, waiters>>
writeQueue == <<writes, writeBlocked>>
life == <<closed, draining, retirement>>
vars == <<fate, response, window, limit, writeQueue, pendingControlRequests, life>>

Init == /\ st = [r \in Requests |-> "idle"]
        /\ outcome = [r \in Requests |-> "none"]
        /\ server = [r \in Requests |-> "none"]
        /\ timedOut = {}
        /\ chunks = [r \in Requests |-> 0]
        /\ discarded = [r \in Requests |-> 0]
        /\ totalFrames = 0
        /\ credits = {}
        /\ waiters = <<>>
        /\ limit = InitLimit
        /\ writes = <<>>
        /\ writeBlocked = FALSE
        /\ pendingControlRequests = 0
        /\ closed = FALSE
        /\ draining = FALSE
        /\ retirement = "none"

Pending == {r \in Requests : st[r] = "pending"}
Items(s) == {s[i] : i \in 1..Len(s)}
\* s without the requests R.
Drop(s, R) == LET kept[n \in 0..Len(s)] ==
                    IF n = 0 THEN <<>>
                    ELSE IF s[n] \in R THEN kept[n - 1] ELSE Append(kept[n - 1], s[n])
              IN kept[Len(s)]
\* The response frames buffered for the requests R.
Buffered(R) == UNION {{r} \X (1..chunks[r]) : r \in R}

\* While a granted waiter or a failed heartbeat has not been continued, no timer
\* fires and no socket event arrives.
NoContinuationDue == /\ \A r \in Requests : st[r] # "granted"
                     /\ st[Ping] = "done" => outcome[Ping] = "value"

---------------------------------------------------------------------------
(* Shared effects.  Each fixes st, outcome, window and pendingControlRequests. *)

\* A promise is settled once: the rejection of a timed-out request is final.
SettleWith(told) == outcome' = [r \in Requests |->
                       IF r \in DOMAIN told /\ outcome[r] = "none" THEN told[r] ELSE outcome[r]]

\* finishDrainIfIdle once the requests R are taken out of the pending ones.
DrainFinished(R, drain) == drain /\ Pending \subseteq R /\ ~closed

\* takePending for the requests R (release of each credit, with its pump), after
\* turning the queued waiters away when "turnAway"; then finishDrainIfIdle.  gone
\* are frames that leave the write queue for the socket in the same step, and ret
\* is what a retire() call has come to.
TakePending(R, told, gone, turnAway, drain, ret) ==
    LET away == IF turnAway THEN Items(waiters) ELSE {}
        left == IF turnAway THEN <<>> ELSE waiters
        held == credits \ R
        idle == DrainFinished(R, drain)
        room == IF closed \/ idle \/ Cardinality(held) >= limit THEN 0
                ELSE Min({Len(left), limit - Cardinality(held)})
        served == {left[i] : i \in 1..room}
    IN /\ st' = [r \in Requests |-> IF r \in R \cup away THEN "done"
                                    ELSE IF r \in served THEN "granted" ELSE st[r]]
       /\ SettleWith([r \in R \cup away |-> IF r \in away THEN "unsent" ELSE told[r]])
       /\ credits' = held \cup served
       /\ waiters' = SubSeq(left, room + 1, Len(left))
       /\ writes' = Drop(writes, R \cup gone)
       /\ chunks' = [r \in Requests |-> IF r \in R THEN 0 ELSE chunks[r]]
       /\ totalFrames' = totalFrames - Cardinality(Buffered(R))
       /\ timedOut' = timedOut \ R
       /\ pendingControlRequests' =
            Max({0, pendingControlRequests - Cardinality(R \ Data)})
       /\ draining' = drain
       /\ closed' = (closed \/ idle)
       /\ retirement' = IF idle /\ ret = "waiting" THEN "resolved" ELSE ret

Take(R, told) == TakePending(R, told, {}, FALSE, draining, retirement)

Unwritten(r) == r \in Items(writes)

\* Slip: every pending request is told that its frame never left.
FailAllUnsent(forgotten) ==
    /\ closed' = TRUE
    /\ retirement' = IF retirement = "waiting" THEN "resolved" ELSE retirement
    /\ st' = [r \in Requests |-> IF r \in forgotten THEN "idle"
                ELSE IF r \in Pending \cup Items(waiters) THEN "done" ELSE st[r]]
    /\ SettleWith([r \in Pending \cup Items(waiters) |-> "unsent"])
    /\ credits' = credits \ Pending
    /\ waiters' = <<>>
    /\ writes' = <<>>
    /\ writeBlocked' = FALSE
    /\ chunks' = [r \in Requests |-> 0]
    /\ totalFrames' = 0
    /\ timedOut' = {}
    /\ pendingControlRequests' = 0
    /\ UNCHANGED <<server, discarded, limit, draining>>

\* failAll: every pending request learns whether its frame can have left.  The
\* requests "forgotten" have nobody left to tell.
FailAll(forgotten) ==
    /\ closed' = TRUE
    /\ retirement' = IF retirement = "waiting" THEN "resolved" ELSE retirement
    /\ st' = [r \in Requests |-> IF r \in forgotten THEN "idle"
                ELSE IF r \in Pending \cup Items(waiters) THEN "done" ELSE st[r]]
    /\ SettleWith([r \in Pending \cup Items(waiters) |->
                     IF r \in Pending /\ ~Unwritten(r) THEN "possibly_sent" ELSE "unsent"])
    /\ credits' = credits \ Pending
    /\ waiters' = <<>>
    /\ writes' = <<>>
    /\ writeBlocked' = FALSE
    /\ chunks' = [r \in Requests |-> 0]
    /\ totalFrames' = 0
    /\ timedOut' = {}
    /\ pendingControlRequests' = 0
    /\ UNCHANGED <<server, discarded, limit, draining>>

---------------------------------------------------------------------------
(* Sending.  writeQueue.write hands the frame to the socket, which may ask  *)
(* to pause or throw, or queues it behind a paused one.                     *)

Rejected(r, how) == /\ st' = [st EXCEPT ![r] = "done"]
                    /\ outcome' = [outcome EXCEPT ![r] = how]

\* sendAcquiredRequest once the request may be sent: how its frame fares.
Registered(r) == /\ st' = [st EXCEPT ![r] = "pending"]
                 /\ pendingControlRequests' =
                      pendingControlRequests + IF r \in Data THEN 0 ELSE 1
                 /\ outcome' = [outcome EXCEPT ![r] = "none"]
                 /\ discarded' = [discarded EXCEPT ![r] = 0]
                 /\ UNCHANGED <<timedOut, chunks, totalFrames, waiters, limit, life>>

SendNow(r) == /\ ~writeBlocked
              /\ Registered(r)
              /\ server' = [server EXCEPT ![r] = "owns"]
              /\ writeBlocked' \in BOOLEAN
              /\ UNCHANGED writes

SendLater(r) == /\ writeBlocked
                /\ Len(writes) < MaxQueuedWrites
                /\ Registered(r)
                /\ server' = [server EXCEPT ![r] = "none"]
                /\ writes' = Append(writes, r)
                /\ UNCHANGED writeBlocked

\* Encoding fails, the socket throws, or the write queue is full: nothing of the
\* request stays behind.
SendFailure == {"error"} \cup IF ~writeBlocked THEN {"unsent"}
                              ELSE IF Len(writes) >= MaxQueuedWrites THEN {"overloaded"}
                              ELSE {}

ControlLimitReached == pendingControlRequests >= MaxPendingControlRequests

\* request() of a control command, and the heartbeat's, allowed while draining.
ControlSend(r) ==
    \/ /\ ~ControlLimitReached
       /\ SendNow(r) \/ SendLater(r)
       /\ UNCHANGED credits
    \/ /\ \/ ControlLimitReached /\ Rejected(r, "overloaded")
          \/ ~ControlLimitReached /\ \E how \in SendFailure : Rejected(r, how)
       /\ UNCHANGED <<server, response, window, limit, writeQueue,
                      pendingControlRequests, life>>

RequestRefused(r) == /\ r # Ping /\ st[r] = "idle"
                     /\ closed \/ draining
                     /\ Rejected(r, "unsent")
                     /\ UNCHANGED <<server, response, window, limit, writeQueue,
                                    pendingControlRequests, life>>

RequestControl(r) == /\ r \in Control /\ st[r] = "idle"
                     /\ ~closed /\ ~draining
                     /\ ControlSend(r)

\* tryAcquire succeeds: the request is sent at once, or gives its credit back.
RequestData(r) ==
    /\ r \in Data /\ st[r] = "idle"
    /\ ~closed /\ ~draining
    /\ Cardinality(credits) < limit
    /\ \/ (SendNow(r) \/ SendLater(r)) /\ credits' = credits \cup {r}
       \/ /\ \E how \in SendFailure : Rejected(r, how)
          /\ UNCHANGED <<server, response, window, limit, writeQueue,
                         pendingControlRequests, life>>

\* No credit: wait for one unless too many already do.
RequestWaits(r) ==
    /\ r \in Data /\ st[r] = "idle"
    /\ ~closed /\ ~draining
    /\ Cardinality(credits) >= limit
    /\ IF Len(waiters) >= MaxQueuedRequests
       THEN Rejected(r, "overloaded") /\ UNCHANGED waiters
       ELSE /\ st' = [st EXCEPT ![r] = "waiting"]
            /\ waiters' = Append(waiters, r)
            /\ UNCHANGED outcome
    /\ UNCHANGED <<server, response, credits, limit, writeQueue,
                   pendingControlRequests, life>>

\* Slip: the waiter is told but stays in the queue.
CreditTimeoutInPlace(r) == /\ NoContinuationDue
                           /\ st[r] = "waiting"
                           /\ Rejected(r, "unsent")
                           /\ UNCHANGED <<server, response, window, limit, writeQueue,
                                          pendingControlRequests, life>>

\* The timer of a waiter.
CreditTimeout(r) == /\ NoContinuationDue
                    /\ st[r] = "waiting"
                    /\ Rejected(r, "unsent")
                    /\ waiters' = Drop(waiters, {r})
                    /\ UNCHANGED <<server, response, credits, limit, writeQueue,
                                   pendingControlRequests, life>>

\* waitForCreditAndSend after its await: the credit is given back when the
\* connection closed or began to drain meanwhile, or the time is up.
ResumeRefused(r) == /\ st[r] = "granted"
                    /\ closed \/ draining \/ r \notin Blocking
                    /\ Take({r}, [x \in {r} |-> "unsent"])
                    /\ UNCHANGED <<server, discarded, limit, writeBlocked>>

\* Slip: draining is not asked again after the await.
ResumeSendsWhileDraining(r) ==
    /\ st[r] = "granted"
    /\ ~closed
    /\ \/ (SendNow(r) \/ SendLater(r)) /\ UNCHANGED credits
       \/ /\ \E how \in SendFailure : Take({r}, [x \in {r} |-> how])
          /\ UNCHANGED <<server, discarded, limit, writeBlocked>>

ResumeSends(r) == /\ st[r] = "granted"
                  /\ ~closed /\ ~draining
                  /\ \/ (SendNow(r) \/ SendLater(r)) /\ UNCHANGED credits
                     \/ /\ \E how \in SendFailure : Take({r}, [x \in {r} |-> how])
                        /\ UNCHANGED <<server, discarded, limit, writeBlocked>>

---------------------------------------------------------------------------
(* Responses.  A frame is final or announces more chunks.                   *)

ServerOwns(r) == server[r] = "owns" /\ ~closed

\* A final frame for a pending request: its value or the server's error.
FinalFrame(r) == /\ ServerOwns(r) /\ r \in Pending
                 /\ r \in timedOut => discarded[r] < MaxChunkFrames
                 /\ r \notin timedOut /\ chunks[r] > 0 => totalFrames < MaxChunkFrames
                 /\ \E how \in {"value", "error"} : Take({r}, [x \in {r} |-> how])
                 /\ server' = [server EXCEPT ![r] = "answered"]
                 /\ discarded' = [discarded EXCEPT ![r] = IF r \in timedOut THEN @ + 1 ELSE @]
                 /\ UNCHANGED <<limit, writeBlocked>>

\* A frame with MORE_CHUNKS is buffered, or counted and dropped after a timeout.
ChunkFrame(r) == /\ ServerOwns(r) /\ r \in Pending
                 /\ IF r \in timedOut
                    THEN /\ discarded[r] < MaxChunkFrames
                         /\ discarded' = [discarded EXCEPT ![r] = @ + 1]
                         /\ UNCHANGED <<chunks, totalFrames>>
                    ELSE /\ totalFrames < MaxChunkFrames
                         /\ chunks' = [chunks EXCEPT ![r] = @ + 1]
                         /\ totalFrames' = totalFrames + 1
                         /\ UNCHANGED discarded
                 /\ UNCHANGED <<fate, timedOut, window, limit, writeQueue,
                                pendingControlRequests, life>>

\* A frame for a request nobody waits for any more is ignored.
StrayFrame(r) == /\ ServerOwns(r) /\ r \notin Pending
                 /\ server' = [server EXCEPT ![r] = "answered"]
                 /\ UNCHANGED <<st, outcome, response, window, limit, writeQueue,
                                pendingControlRequests, life>>

\* One frame too many, assembled or discarded, fails the connection.
FrameOverflow(r) == /\ ServerOwns(r) /\ r \in Pending
                    /\ IF r \in timedOut THEN discarded[r] >= MaxChunkFrames
                                         ELSE totalFrames >= MaxChunkFrames
                    /\ FailAll({})

\* WINDOW_UPDATE: new limit, and a pump.
WindowUpdate(n) ==
    LET room == IF n <= Cardinality(credits) THEN 0
                ELSE Min({Len(waiters), n - Cardinality(credits)})
        served == {waiters[i] : i \in 1..room}
    IN /\ ~closed
       /\ limit' = n
       /\ st' = [r \in Requests |-> IF r \in served THEN "granted" ELSE st[r]]
       /\ credits' = credits \cup served
       /\ waiters' = SubSeq(waiters, room + 1, Len(waiters))
       /\ UNCHANGED <<outcome, server, response, writeQueue, pendingControlRequests, life>>

\* beginDraining: waiters and queued frames are rejected as unsent, requests that
\* would block for ever as possibly sent; the rest may finish.
BeginDraining(ret) ==
    LET R == {r \in Pending : Unwritten(r) \/ r \in Blocking}
    IN /\ TakePending(R, [r \in R |-> IF Unwritten(r) THEN "unsent" ELSE "possibly_sent"],
                      {}, TRUE, TRUE, ret)
       /\ UNCHANGED <<server, discarded, limit, writeBlocked>>

GoAway == ~closed /\ BeginDraining(retirement)

---------------------------------------------------------------------------
(* Timers, socket events and the owner's calls.                             *)

\* The caller is told; the request stays, and what was buffered for it is thrown away.
ToldOfTimeout(r) == /\ timedOut' = timedOut \cup {r}
                    /\ outcome' = [outcome EXCEPT ![r] = "possibly_sent"]
                    /\ discarded' = [discarded EXCEPT ![r] = @ + chunks[r]]
                    /\ chunks' = [chunks EXCEPT ![r] = 0]
                    /\ totalFrames' = totalFrames - chunks[r]
                    /\ UNCHANGED <<st, server, window, limit, writeQueue,
                                   pendingControlRequests, life>>

\* Slips: the credit of a timed-out request is given back at once;
TimeoutReleasing(r) ==
    /\ NoContinuationDue
    /\ r \in Pending \ (timedOut \cup Blocking)
    /\ Take({r}, [x \in {r} |-> IF Unwritten(r) THEN "unsent" ELSE "possibly_sent"])
    /\ UNCHANGED <<server, discarded, limit, writeBlocked>>

\* the timer starts when the frame is written, not when it is queued.
TimeoutOnceWritten(r) ==
    /\ ~Unwritten(r)
    /\ NoContinuationDue
    /\ r \in Pending \ (timedOut \cup Blocking)
    /\ IF r \notin Data
       THEN /\ Take({r}, [x \in {r} |-> "possibly_sent"])
            /\ UNCHANGED <<server, discarded, limit, writeBlocked>>
       ELSE ToldOfTimeout(r)

\* The response timer.  A frame the socket has taken leaves its credit with the
\* server: the request stays correlated until its last frame or the grace period.
Timeout(r) ==
    /\ NoContinuationDue
    /\ r \in Pending \ (timedOut \cup Blocking)
    /\ IF r \notin Data \/ Unwritten(r)
       THEN /\ Take({r}, [x \in {r} |-> IF Unwritten(r) THEN "unsent" ELSE "possibly_sent"])
            /\ UNCHANGED <<server, discarded, limit, writeBlocked>>
       ELSE ToldOfTimeout(r)

\* The grace period of a timed-out request ends: the connection is retired.
GraceExpires(r) == /\ NoContinuationDue
                   /\ r \in timedOut
                   /\ FailAll({})

\* "drain": the first n queued frames go to the socket, except those, F, whose
\* write throws; only a written frame can block the socket again.
Flush(n, F) ==
    LET gone == {writes[i] : i \in 1..n}
    IN /\ NoContinuationDue /\ ~closed /\ writeBlocked
       /\ F \subseteq gone
       /\ writeBlocked' \in BOOLEAN
       /\ IF writeBlocked' THEN n > 0 /\ writes[n] \notin F ELSE n = Len(writes)
       /\ server' = [r \in Requests |-> IF r \in gone \ F THEN "owns" ELSE server[r]]
       /\ TakePending(F, [r \in F |-> "unsent"], gone, FALSE, draining, retirement)
       /\ UNCHANGED <<discarded, limit>>

\* The socket reports that a frame it had taken could not be written.
WriteFails(r) == /\ NoContinuationDue /\ ~closed
                 /\ server[r] = "owns" /\ r \in Pending
                 /\ server' = [server EXCEPT ![r] = "lost"]
                 /\ Take({r}, [x \in {r} |-> "possibly_sent"])
                 /\ UNCHANGED <<discarded, limit, writeBlocked>>

\* A socket error or end, an undecodable or mismatched frame, or close().
ConnectionFails == ~closed /\ FailAll({})

\* retire(): drain, and wait until the connection has closed.
Retire == /\ retirement = "none"
          /\ ~closed
          /\ BeginDraining("waiting")

\* The heartbeat sends PING when nothing arrived for an interval and none is in
\* flight; a PING that fails in any way fails the connection.
HeartbeatTick == /\ NoContinuationDue
                 /\ ~closed
                 /\ st[Ping] = "idle"
                 /\ ControlSend(Ping)

HeartbeatContinues == /\ st[Ping] = "done"
                      /\ IF outcome[Ping] = "value" \/ closed
                         THEN /\ st' = [st EXCEPT ![Ping] = "idle"]
                              /\ UNCHANGED <<outcome, server, response, window, limit,
                                             writeQueue, pendingControlRequests, life>>
                         ELSE FailAll({Ping})

---------------------------------------------------------------------------
Resume(r) == ResumeRefused(r) \/ ResumeSends(r)

Request(r) == RequestRefused(r) \/ RequestControl(r) \/ RequestData(r) \/ RequestWaits(r)

Frame(r) == FinalFrame(r) \/ ChunkFrame(r) \/ StrayFrame(r) \/ FrameOverflow(r)

Next == \/ \E r \in Requests : \/ Request(r) \/ Resume(r) \/ CreditTimeout(r)
                               \/ Frame(r) \/ Timeout(r) \/ GraceExpires(r)
                               \/ WriteFails(r)
        \/ \E n \in Limits : WindowUpdate(n)
        \/ \E n \in 0..Len(writes) : \E F \in SUBSET {writes[i] : i \in 1..n} : Flush(n, F)
        \/ GoAway \/ Retire \/ ConnectionFails
        \/ HeartbeatTick \/ HeartbeatContinues

Spec == Init /\ [][Next]_vars

\* Timers fire and continuations run; nothing is assumed of the server, the
\* socket or the caller.
FairSpec == /\ Spec
            /\ \A r \in Requests : WF_vars(Resume(r)) /\ WF_vars(CreditTimeout(r))
            /\ \A r \in Requests : WF_vars(Timeout(r)) /\ WF_vars(GraceExpires(r))
            /\ WF_vars(HeartbeatContinues)

---------------------------------------------------------------------------
\* "unsent" and "overloaded" are promises to the caller that the command may be
\* repeated: no frame of such a request was ever handed to the socket, whether it
\* was refused, drained, timed out or failed with the connection.
UnsentIsUnsent ==
    \A r \in Requests \ {Ping} : outcome[r] \in {"unsent", "overloaded"} => server[r] = "none"

\* The server enforces the window on what it owns: while the connection takes new
\* requests, every data request the server still works on keeps its credit, also
\* after its caller was told of a timeout.
ServerCreditsKept ==
    ~closed /\ ~draining =>
        \A r \in Data : server[r] = "owns" => r \in credits

\* Credits, control slots, queued frames and buffered chunks belong to requests
\* that are still under way, whichever of response, timeout, drain and failure comes
\* first; a credit or a control slot is not lost, nor given back twice, and the budget of
\* the assembler counts each frame that it buffers once.
\* A caller waits only while no credit is free and the connection takes requests.
NothingLeaks ==
    /\ {r \in Requests : st[r] = "waiting"} = Items(waiters)
    /\ waiters # <<>> => ~closed /\ ~draining /\ Cardinality(credits) >= limit
    /\ credits = {r \in Data : st[r] = "granted" \/ st[r] = "pending"}
    /\ pendingControlRequests = Cardinality(Pending \ Data)
    /\ Items(writes) \subseteq {r \in Pending \ timedOut : server[r] = "none"}
    /\ \A r \in Requests : chunks[r] > 0 => r \in Pending \ timedOut
    /\ totalFrames = Cardinality(Buffered(Requests)) /\ totalFrames <= MaxChunkFrames
    /\ draining /\ ~closed => Pending # {}
    /\ closed => /\ Pending = {} /\ waiters = <<>> /\ writes = <<>>
                 /\ retirement # "waiting"
    /\ \A r \in Requests \ {Ping} : st[r] = "done" <=> (outcome[r] # "none" /\ r \notin timedOut)

\* After GOAWAY, or once retired, only the heartbeat still sends.
OnlyPingsAfterGoAway ==
    [][\A r \in Requests \ {Ping} : draining /\ server'[r] = "owns" => server[r] = "owns"]_vars

\* Every request with a timeout is settled, whatever the server does; one without
\* is settled when it never gets its credit. And retire() returns: a server that never
\* answers, an indefinite block or a heartbeat cannot keep a draining connection open.
EverythingSettles ==
    /\ \A r \in (Data \cup Control) \ Blocking : st[r] # "idle" ~> outcome[r] # "none"
    /\ retirement = "waiting" ~> retirement = "resolved"
=============================================================================
