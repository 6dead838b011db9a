---------------------------- MODULE DurableSteps ----------------------------
(***************************************************************************)
(* Durable steps of one flow: client-durable-step.ts, workflow-context.ts, *)
(* workflow-job-execution.ts and the lease hand-over of                    *)
(* worker-lease-guard.ts.                                                  *)
(*                                                                         *)
(* Workers claim the flow, one after the other or because a lease was      *)
(* taken to be expired, and run the handler.  The handler calls ctx.step() *)
(* and ctx.advance(), any of them in any order; each commits with the      *)
(* current lease and gets the next one.  A commit may be answered, lost,   *)
(* or carried out after the worker has given up on it; a worker may crash. *)
(***************************************************************************)
EXTENDS Naturals, FiniteSets

CONSTANTS Workers, States,
          Names,      \* the names of steps
          Target,     \* Target[n]: the toState of step n
          Values,     \* what a closure may return
          MaxCalls,   \* MaxCalls[w]: bound on the calls of one handler of w
          MaxFence,   \* bound on the number of leases
          None

ASSUME StepsAssumption == /\ Target \in [Names -> States]
                          /\ MaxCalls \in [Workers -> Nat]
                          /\ MaxFence \in Nat
                          /\ None \notin Names \cup Values \cup Workers

VARIABLES disciplined,  \* handlers await each call and make none after a failed one
          flow,         \* at the server: its lease is known by the fencing token
          journal,      \* at the server: the results of steps
          late,         \* requests the server may still get, although nobody waits
          handler, ctx, guard,   \* of each worker
          call,         \* of each worker, the calls of its handler
          returned      \* the results handlers were given for each step

server == <<flow, journal>>
vars == <<disciplined, server, late, handler, ctx, guard, call, returned>>

CallsOf(w) == 1..MaxCalls[w]

NoCall == [pc |-> "unused", name |-> None, to |-> None, token |-> 0, value |-> None]
NoContext == [token |-> 0, phase |-> "idle"]
NoGuard == [state |-> "stopped", token |-> 0, inFlight |-> 0, error |-> FALSE]

Init == /\ disciplined \in BOOLEAN
        /\ flow \in [state : {"ready"}, runState : States, fence : {0}, owner : {None}]
        /\ journal = [n \in Names |-> None]
        /\ late = {}
        /\ handler = [w \in Workers |-> "idle"]
        /\ ctx = [w \in Workers |-> NoContext]
        /\ guard = [w \in Workers |-> NoGuard]
        /\ call = [w \in Workers |-> [c \in CallsOf(w) |-> NoCall]]
        /\ returned = [n \in Names |-> {}]

---------------------------------------------------------------------------
(* Helpers.                                                                *)

LeaseIsCurrent(token) == flow.state = "running" /\ flow.fence = token

\* Slip: the step commits with the lease of the moment, not the one it has validated.
CommitWithLatest(w, c) == [kind |-> "commit", worker |-> w, token |-> ctx[w].token,
                           name |-> call[w][c].name, to |-> call[w][c].to,
                           value |-> call[w][c].value]

\* A request: the commit of a call, or the outcome of a handler.
Commit(w, c) == [kind |-> "commit", worker |-> w, token |-> call[w][c].token,
                 name |-> call[w][c].name, to |-> call[w][c].to, value |-> call[w][c].value]
Outcome(w, to) == [kind |-> "outcome", worker |-> w, token |-> ctx[w].token,
                   name |-> None, to |-> to, value |-> None]

\* The commits of w no call waits for any more; without the lease they are void.
Abandoned(w, calls) == {Commit(w, c) : c \in {c \in calls : /\ call[w][c].pc = "committing"
                                                            /\ LeaseIsCurrent(call[w][c].token)}}

SetCall(w, c, changes) == call' = [call EXCEPT ![w][c] = changes]
EndCall(w, c, pc) == call' = [call EXCEPT ![w][c] = [NoCall EXCEPT !.pc = pc]]

\* resumeWith; on a guard that is not paused it throws.
Resumed(g, token) == IF g.state = "paused"
                     THEN [g EXCEPT !.state = "active", !.token = token]
                     ELSE g

Idle(w) == /\ handler' = [handler EXCEPT ![w] = "idle"]
           /\ ctx' = [ctx EXCEPT ![w] = NoContext]
           /\ guard' = [guard EXCEPT ![w] = NoGuard]
           /\ call' = [call EXCEPT ![w] = [c \in CallsOf(w) |-> NoCall]]

---------------------------------------------------------------------------
(* The server.                                                             *)

\* A due flow, or one whose lease is taken to be expired, is claimed.
Claim(w) == /\ handler[w] = "idle"
            /\ flow.state # "ended"
            /\ flow.fence < MaxFence
            /\ flow' = [flow EXCEPT !.state = "running", !.fence = @ + 1, !.owner = w]
            /\ late' = {}
            /\ handler' = [handler EXCEPT ![w] = "runs"]
            /\ ctx' = [ctx EXCEPT ![w] = [NoContext EXCEPT !.token = flow.fence + 1]]
            /\ guard' = [guard EXCEPT ![w] = [NoGuard EXCEPT !.state = "active",
                                                             !.token = flow.fence + 1]]
            /\ UNCHANGED <<disciplined, journal, call, returned>>

\* FLOW.STEP_CONTINUE with the current lease: state, result and lease change at once,
\* and what came with the lease before is void.
ApplyCommit(q) == /\ q.kind = "commit"
                  /\ LeaseIsCurrent(q.token)
                  /\ flow.fence < MaxFence
                  /\ flow' = [flow EXCEPT !.fence = @ + 1, !.runState = q.to]
                  /\ journal' = IF q.name = None THEN journal
                                ELSE [journal EXCEPT ![q.name] = q.value]
                  /\ late' = {}
                  /\ UNCHANGED <<disciplined, handler, ctx, guard, returned>>

ApplyLateCommit == /\ \E q \in late : ApplyCommit(q)
                   /\ UNCHANGED call

AnswerCommit(w, c) ==
    /\ call[w][c].pc = "committing"
    /\ \/ /\ ApplyCommit(Commit(w, c))
          /\ call' = [call EXCEPT ![w][c].pc = "committed", ![w][c].token = flow.fence + 1]
       \/ /\ ~LeaseIsCurrent(call[w][c].token)
          /\ call' = [call EXCEPT ![w][c].pc = "rejected"]
          /\ UNCHANGED <<disciplined, server, late, handler, ctx, guard, returned>>

\* FLOW.TRANSITION and the like release the flow, FLOW.COMPLETE and FLOW.FAIL end it.
ApplyOutcome == \E q \in late :
    /\ q.kind = "outcome"
    /\ LeaseIsCurrent(q.token)
    /\ flow' = IF q.to = "end" THEN [flow EXCEPT !.state = "ended", !.owner = None]
               ELSE [flow EXCEPT !.state = "ready", !.owner = None, !.runState = q.to]
    /\ late' = {}
    /\ UNCHANGED <<disciplined, journal, handler, ctx, guard, call, returned>>

---------------------------------------------------------------------------
(* Renewal by the guard.                                                   *)

Renew(w) == /\ guard[w].state = "active"
            /\ ~guard[w].error
            /\ guard[w].inFlight = 0
            /\ guard' = [guard EXCEPT ![w].inFlight = guard[w].token]
            /\ UNCHANGED <<disciplined, server, late, handler, ctx, call, returned>>

\* The answer; the request may also have failed on the way.
Renewed(w) == /\ guard[w].inFlight # 0
              /\ \E error \in BOOLEAN :
                    /\ error \/ LeaseIsCurrent(guard[w].inFlight)
                    /\ guard' = [guard EXCEPT ![w].inFlight = 0, ![w].error = @ \/ error]
              /\ UNCHANGED <<disciplined, server, late, handler, ctx, call, returned>>

---------------------------------------------------------------------------
(* The calls of a handler.                                                 *)

InProgress(w, c) == call[w][c].pc \notin {"unused", "done", "failed"}

Starts(w, c) == /\ handler[w] = "runs"
                /\ call[w][c].pc = "unused"
                /\ \A d \in 1..(c - 1) : IF disciplined THEN call[w][d].pc = "done"
                                                        ELSE call[w][d].pc # "unused"

\* step(): FLOW.EXTEND_LEASE validates the lease before anything is run.
StartStep(w, c, n) ==
    /\ Starts(w, c)
    /\ SetCall(w, c, [NoCall EXCEPT !.pc = "validating", !.name = n, !.to = Target[n],
                                    !.token = ctx[w].token])
    /\ UNCHANGED <<disciplined, server, late, handler, ctx, guard, returned>>

\* The server answers with the flow, and the journal decides; or the validation fails.
\* A recorded result is read with its state: it must be the one the step asks for.
Validate(w, c) ==
    LET n == call[w][c].name
        recorded == journal[n] # None
    IN /\ call[w][c].pc = "validating"
       /\ \/ /\ LeaseIsCurrent(call[w][c].token)
             /\ recorded => flow.runState = Target[n]
             /\ call' = [call EXCEPT ![w][c].pc = IF recorded THEN "recorded" ELSE "running",
                                     ![w][c].value = journal[n]]
          \/ EndCall(w, c, "failed")
       /\ UNCHANGED <<disciplined, server, late, handler, ctx, guard, returned>>

\* The recorded value is fetched and returned; replayed() accepts the validated claim.
Replay(w, c) == /\ call[w][c].pc = "recorded"
                /\ ctx' = [ctx EXCEPT ![w] = [token |-> call[w][c].token, phase |-> "idle"]]
                /\ returned' = [returned EXCEPT ![call[w][c].name] = @ \cup {call[w][c].value}]
                /\ EndCall(w, c, "done")
                /\ UNCHANGED <<disciplined, server, late, handler, guard>>

\* beforeCommit up to its await: a first caller stops the renewal and waits for the one
\* in flight, another finds the guard paused and does not wait.
BeforeCommit(w, c, request) ==
    /\ ctx[w].phase = "idle"
    /\ guard[w].state # "stopped"
    /\ guard' = [guard EXCEPT ![w].state = "paused"]
    /\ SetCall(w, c, [request EXCEPT !.pc = IF guard[w].state = "active" THEN "pausing"
                                                                         ELSE "paused"])
    /\ UNCHANGED <<disciplined, server, late, handler, ctx, returned>>

RefuseCommit(w, c) == /\ ctx[w].phase # "idle" \/ guard[w].state = "stopped"
                      /\ EndCall(w, c, "failed")
                      /\ UNCHANGED <<disciplined, server, late, handler, ctx, guard, returned>>

\* advance() commits with the claim it finds when it is called.
StartAdvance(w, c, to) ==
    /\ Starts(w, c)
    /\ \/ BeforeCommit(w, c, [NoCall EXCEPT !.to = to, !.token = ctx[w].token])
       \/ RefuseCommit(w, c)

\* The closure of a step has returned a value, or thrown.
RunClosure(w, c) ==
    /\ call[w][c].pc = "running"
    /\ \/ \E v \in Values : BeforeCommit(w, c, [call[w][c] EXCEPT !.value = v])
       \/ RefuseCommit(w, c)

ClosureThrows(w, c) == /\ call[w][c].pc = "running"
                       /\ EndCall(w, c, "failed")
                       /\ UNCHANGED <<disciplined, server, late, handler, ctx, guard, returned>>

\* Slip: the renewal in flight is not waited for.
PauseEndsAtOnce(w, c) == call[w][c].pc \in {"paused", "pausing"}

\* The pause is over: nothing was to wait for, or the renewal in flight has ended well.
PauseEnds(w, c) == \/ call[w][c].pc = "paused"
                   \/ call[w][c].pc = "pausing" /\ guard[w].inFlight = 0 /\ ~guard[w].error

\* The rest of beforeCommit, and the write with the lease the call began with.
WriteCommit(w, c) ==
    /\ PauseEnds(w, c)
    /\ ctx' = [ctx EXCEPT ![w].phase = "committing"]
    /\ call' = [call EXCEPT ![w][c].pc = "committing"]
    /\ UNCHANGED <<disciplined, server, late, handler, guard, returned>>

\* The renewal in flight has failed, the pause throws.
PauseFails(w, c) == /\ call[w][c].pc = "pausing"
                    /\ guard[w].inFlight = 0
                    /\ guard[w].error
                    /\ EndCall(w, c, "failed")
                    /\ UNCHANGED <<disciplined, server, late, handler, ctx, guard, returned>>

Committed(w, c) ==
    /\ call[w][c].pc = "committed"
    /\ ctx' = [ctx EXCEPT ![w] = [token |-> call[w][c].token, phase |-> "idle"]]
    /\ guard' = [guard EXCEPT ![w] = Resumed(@, call[w][c].token)]
    /\ returned' = IF call[w][c].name = None THEN returned
                   ELSE [returned EXCEPT ![call[w][c].name] = @ \cup {call[w][c].value}]
    /\ EndCall(w, c, "done")
    /\ UNCHANGED <<disciplined, server, late, handler>>

\* commitFailed: the write certainly did not happen.  It was rejected, or not sent.
CommitRejected(w, c) ==
    /\ call[w][c].pc \in {"committing", "rejected"}
    /\ ctx' = [ctx EXCEPT ![w].phase = "idle"]
    /\ guard' = [guard EXCEPT ![w] = Resumed(@, ctx[w].token)]
    /\ EndCall(w, c, "failed")
    /\ UNCHANGED <<disciplined, server, late, handler, returned>>

\* Slip: every failure is taken for a write that did not happen.
CommitForgotten(w, c) ==
    /\ call[w][c].pc \in {"committing", "committed", "rejected"}
    /\ ctx' = [ctx EXCEPT ![w].phase = "idle"]
    /\ guard' = [guard EXCEPT ![w] = Resumed(@, ctx[w].token)]
    /\ late' = late \cup Abandoned(w, {c})
    /\ EndCall(w, c, "failed")
    /\ UNCHANGED <<disciplined, server, handler, returned>>

\* commitFailed: a timeout or a lost connection, the write may have happened or may yet.
CommitUncertain(w, c) ==
    /\ call[w][c].pc \in {"committing", "committed", "rejected"}
    /\ ctx' = [ctx EXCEPT ![w].phase = "uncertain"]
    /\ late' = late \cup Abandoned(w, {c})
    /\ EndCall(w, c, "failed")
    /\ UNCHANGED <<disciplined, server, handler, guard, returned>>

---------------------------------------------------------------------------
(* The end of a handler.                                                   *)

\* The handler returns or throws; guard.stop().
HandlerEnds(w) == /\ handler[w] = "runs"
                  /\ disciplined => \A c \in CallsOf(w) : ~InProgress(w, c)
                  /\ handler' = [handler EXCEPT ![w] = "stopping"]
                  /\ guard' = [guard EXCEPT ![w].state = "stopped"]
                  /\ UNCHANGED <<disciplined, server, late, ctx, call, returned>>

\* What the handler returned: a state to go to or the end of the flow.  A plain value
\* ends the flow, or releases it in the state it has been advanced to; an error is a
\* retry or a failure.
Outcomes == States \cup {"end"}

Stopped(w) == handler[w] = "stopping" /\ guard[w].inFlight = 0

WriteOutcome(w) ==
    /\ Stopped(w) /\ ~guard[w].error
    /\ ctx[w].phase # "uncertain"
    /\ \E to \in Outcomes : late' = late \cup {Outcome(w, to)}
    /\ Idle(w)
    /\ UNCHANGED <<disciplined, server, returned>>

\* The lease could not be renewed, a commit is uncertain, or the policy is to raise.
NoOutcome(w) == /\ Stopped(w)
                /\ Idle(w)
                /\ UNCHANGED <<disciplined, server, late, returned>>

\* What a worker has sent survives it.
Crash(w) == /\ handler[w] # "idle"
            /\ late' = late \cup Abandoned(w, CallsOf(w))
            /\ Idle(w)
            /\ UNCHANGED <<disciplined, server, returned>>

CallStep(w, c) == \/ \E n \in Names : StartStep(w, c, n)
                  \/ \E to \in States : StartAdvance(w, c, to)
                  \/ Validate(w, c) \/ Replay(w, c)
                  \/ RunClosure(w, c) \/ ClosureThrows(w, c)
                  \/ WriteCommit(w, c) \/ PauseFails(w, c) \/ AnswerCommit(w, c)
                  \/ Committed(w, c) \/ CommitRejected(w, c) \/ CommitUncertain(w, c)

WorkerStep(w) == \/ Claim(w) \/ Renew(w) \/ Renewed(w)
                 \/ HandlerEnds(w) \/ WriteOutcome(w) \/ NoOutcome(w) \/ Crash(w)

Next == \/ ApplyLateCommit \/ ApplyOutcome
        \/ \E w \in Workers : WorkerStep(w) \/ \E c \in CallsOf(w) : CallStep(w, c)

Spec == Init /\ [][Next]_vars

---------------------------------------------------------------------------
\* README.md:397, "A committed result is returned": two workers, or two calls of one
\* handler, may validate, run the closure and commit the same step, and a commit may be
\* carried out after its worker has given it up; the result is recorded once all the
\* same, and no handler is ever given another.
Journal == INSTANCE StepJournal
ImplementsStepJournal == Journal!Spec

\* README.md:479: a handler that awaits its durable calls, and makes none after one has
\* failed, never renews a lease that one of its own commits has replaced: the renewal
\* would fail and with it a job that went well.  While such a handler computes, its
\* lease is being renewed, unless a renewal has failed or a commit is uncertain: the
\* hand-over of a lease ends the pause.
RenewsCurrentLease ==
    disciplined => \A w \in Workers :
        /\ guard[w].inFlight # 0 /\ flow.owner = w => guard[w].inFlight = flow.fence
        /\ handler[w] = "runs" /\ ctx[w].phase = "idle"
              /\ (\A c \in CallsOf(w) : call[w][c].pc # "pausing")
           => guard[w].error \/ (guard[w].state = "active" /\ guard[w].token = ctx[w].token)

\* The outcome such a handler writes carries the lease the worker holds if it holds any:
\* it is never a write with a lease that a commit of this worker has replaced
\* (workflow-durable-step.test.ts:296, "does not issue a fallback stale write").
NoStaleOutcome ==
    [][disciplined => \A q \in late' \ late :
          q.kind = "outcome" /\ flow.owner = q.worker => q.token = flow.fence]_vars

\* The guard of workflow-context.ts:295 says "a durable workflow mutation is already in
\* progress or has an uncertain result" and refuses a second one.  No context ever has
\* two commits under way.
OneMutationAtATime ==
    \A w \in Workers : Cardinality({c \in CallsOf(w) : call[w][c].pc = "committing"}) <= 1
=============================================================================
