-------------------------- MODULE TopologyExecutor --------------------------
(***************************************************************************)
(* Requests over the endpoints of a cluster: topology.ts with its registry *)
(* of adapters (topology-adapter-registry.ts) and the rule of the one safe *)
(* reroute (topology-reroute-retry.ts).                                    *)
(*                                                                         *)
(* The cluster has one slot, whose owner changes along Views.  A call      *)
(* plans a route in the topology of the moment, awaits the adapter of the  *)
(* owner, looks whether the route is still current and sends.  Loads of    *)
(* the topology, for events and for rerouted calls, run beside them, and   *)
(* so do the making, retiring and closing of adapters.                     *)
(*                                                                         *)
(* A step is what happens between two awaits, or the handling of a frame.   *)
(* Continuations that are due run, in any order, before the next event of  *)
(* a socket; but the frames of one chunk are handled together before them. *)
(***************************************************************************)
EXTENDS Naturals, Sequences, FiniteSets

CONSTANTS Calls,
          Modes,        \* [kind, warm, view, faults]: the kind of each call ("command", "cas",
                        \* "pipeline", "control", or "none" if it is not made), the option
                        \* warmConnections, the first view, and a bound on sockets that break
                        \* or go away and creations that fail
          Seed, Learned,
          Trusted,      \* endpoints the policy admits
          Views,        \* the owners of the slot, one after the other
          Sockets,  \* names of connections, used again when nobody knows them
          MaxMoves,     \* bound on the changes of the view
          MaxPlanning,  \* MAX_TOPOLOGY_PLANNING_ATTEMPTS
          MaxEvents     \* bound on the events delivered

Endpoints == {Seed} \cup Learned
None == 0

\* A topology is admitted only if its owners are trusted, the first one too.
ASSUME TopologyAssumption ==
    /\ Sockets \subseteq Nat \ {None} /\ Sockets # {}
    /\ Trusted \subseteq Endpoints /\ Seed \in Trusted
    /\ Views \in Seq(Endpoints)
    /\ \A m \in Modes : m.view \in 1..Len(Views) /\ Views[m.view] \in Trusted

VARIABLES truth,     \* the current view, known to the servers only
          topologyValue,
          lastSuccess,
          mode,      \* what the behaviour is about, one of Modes
          reg,       \* the registry: adapters, creations, retiring, and the connections
          watched,   \* creations that were no longer wanted: their adapter is looked at
          call,
          load,      \* refreshPromise
          requested, \* refreshRequested
          drain,     \* eventRefreshPromise and where its loop stands
          events, faults,
          closed, closing,
          owed,      \* history: an event since the last load began
          turn       \* the connection whose chunk is being handled, and, as history, the
                     \* topology in use when an event was handled last

vars == <<truth, topologyValue, lastSuccess, mode, reg, watched, call, load, requested, drain,
          events, faults, closed, closing, owed, turn>>

Owner(view) == Views[view]
ActiveKeys(view) == {Seed, Owner(view)}

---------------------------------------------------------------------------
(* The registry.  States of a connection: connecting, aborted (its creation *)
(* was), refused (its creation failed), open, draining, closed.  Nothing   *)
(* else is known of one that is refused or closed.                         *)

State(r, k) == r.conn[k].state
Pending(r, k) == State(r, k) \in {"connecting", "aborted"}
Available(r, k) == State(r, k) = "open"

Known(r) == {r.adapters[e] : e \in Endpoints} \cup {r.creations[e] : e \in Endpoints}
            \cup r.retiring \cup watched \cup closing
            \cup {call[c].conn : c \in Calls} \cup {load.conn}
Over(state) == [endpoint |-> Seed, state |-> state]
Fresh(r) == {k \in Sockets \ Known(r) : State(r, k) \in {"refused", "closed"}}

\* An adapter that is idle closes when it has drained, see Drained.
Retire(r, k) == IF State(r, k) = "closed" THEN r
                ELSE [r EXCEPT !.retiring = @ \cup {k}, !.conn[k].state = "draining"]

Forget(r, k) == [r EXCEPT !.adapters = [e \in Endpoints |-> IF @[e] = k THEN None ELSE @[e]],
                          !.creations = [e \in Endpoints |-> IF @[e] = k THEN None ELSE @[e]]]

\* get() up to its first await: the registry it leaves, the connection it waits for, and
\* whether that is an adapter in use, which it returns without looking at it again.
Get(r, e) ==
    LET found == r.adapters[e]
        ready == found # None /\ Available(r, found)
        kept == IF found # None /\ ~ready
                THEN Retire([r EXCEPT !.adapters[e] = None], found) ELSE r
        new == CHOOSE k \in Fresh(kept) : TRUE
    IN  CASE ready -> [reg |-> r, conn |-> found, pc |-> "got"]
          [] ~ready /\ kept.creations[e] # None ->
                [reg |-> kept, conn |-> kept.creations[e], pc |-> "getting"]
          [] OTHER -> [reg |-> [kept EXCEPT !.creations[e] = new,
                                            !.conn[new] = [endpoint |-> e, state |-> "connecting"]],
                       conn |-> new, pc |-> "getting"]

\* The adapter that was awaited has been retired meanwhile.
DropUnavailable(r, k) == Retire(Forget(r, k), k)

\* Adapters and creations of endpoints that left the topology.
Removed(r, view) ==
    LET keys == Endpoints \ ActiveKeys(view)
        gone == {r.adapters[e] : e \in keys} \ {None}
        late == {r.creations[e] : e \in keys} \ {None}
    IN  [reg |-> [r EXCEPT
            !.adapters = [e \in Endpoints |-> IF e \in keys THEN None ELSE @[e]],
            !.retiring = @ \cup {k \in gone : State(r, k) # "closed"},
            !.conn = [k \in Sockets |->
                        CASE k \in gone /\ @[k].state # "closed" -> [@[k] EXCEPT !.state = "draining"]
                          [] k \in late -> [@[k] EXCEPT !.state = "aborted"]
                          [] OTHER -> @[k]]],
         late |-> late]

---------------------------------------------------------------------------
Idle == [pc |-> "idle", on |-> Seed, cands |-> <<>>, conn |-> None, again |-> FALSE, view |-> 1]

Init == /\ mode \in Modes
        /\ truth = mode.view /\ topologyValue = mode.view /\ lastSuccess = Seed
        /\ LET k == CHOOSE k \in Sockets : TRUE
           IN  reg = [adapters |-> [e \in Endpoints |-> IF e = Seed THEN k ELSE None],
                      creations |-> [e \in Endpoints |-> None],
                      retiring |-> {},
                      conn |-> [n \in Sockets |-> Over(IF n = k THEN "open" ELSE "closed")]]
        /\ watched = {}
        /\ call = [c \in Calls |->
              [pc |-> "idle", route |-> Seed, conn |-> None, again |-> FALSE, planning |-> 0,
               rerouted |-> FALSE, error |-> "none", cands |-> <<>>, refreshed |-> "none",
               executed |-> 0, sends |-> 0]]
        /\ load = Idle
        /\ requested = FALSE /\ drain = "off" /\ events = 0 /\ faults = 0
        /\ closed = FALSE /\ closing = {}
        /\ owed = FALSE
        /\ turn = [of |-> None, view |-> mode.view]

\* The adapter has a request under way.
InFlight(k) == \/ \E c \in Calls : call[c].conn = k /\ call[c].pc \in {"sent", "executed"}
               \/ load.conn = k /\ load.pc \in {"asked", "answered"}

\* No continuation is due.
Quiet ==
    /\ \A c \in Calls :
         /\ call[c].pc \notin {"plan", "got", "checked", "error"}
         /\ call[c].pc = "getting" => Pending(reg, call[c].conn)
         /\ call[c].pc \in {"sent", "executed"} => State(reg, call[c].conn) # "closed"
         /\ call[c].pc = "refreshing" => call[c].refreshed = "none"
    /\ load.pc \notin {"got", "arrived"}
    /\ load.pc \in {"getting", "warming"} => Pending(reg, load.conn)
    /\ load.pc \in {"asked", "answered"} => State(reg, load.conn) # "closed"
    /\ drain \in {"off", "awaits"}
    /\ \A k \in watched \cup closing : Pending(reg, k)
    /\ \A k \in Sockets : State(reg, k) = "draining" => InFlight(k)

\* The frames of a chunk are handled in one loop, which ends when the connection closes: a
\* further one of a connection finds what the last one has made due not yet run.
Frame(k) == /\ Quiet \/ turn.of = k
            /\ State(reg, k) = "open" \/ (State(reg, k) = "draining" /\ InFlight(k))
            /\ turn' = [of |-> k, view |-> topologyValue]

\* Any other event that comes from outside.
Outside == Quiet /\ turn' = [of |-> None, view |-> topologyValue]

\* A continuation: the chunk has been handled.
Continues == turn' = [turn EXCEPT !.of = None]

\* The servers hand the slot to another endpoint.
Move == /\ Quiet /\ truth < mode.view + MaxMoves
        /\ truth' = truth + 1
        /\ UNCHANGED <<mode, topologyValue, lastSuccess, reg, watched, call, load, requested, drain,
                       events, faults, closed, closing, owed, turn>>

---------------------------------------------------------------------------
(* Connections. *)

Fault == faults < mode.faults /\ faults' = faults + 1

CreationDone(k) ==
    LET e == reg.conn[k].endpoint IN
    /\ Pending(reg, k) /\ Outside
    /\ reg' = IF closed
              THEN [reg EXCEPT !.conn[k] = Over("refused"), !.creations[e] = None]
              ELSE [reg EXCEPT !.conn[k].state = "open", !.creations[e] = None,
                               !.adapters[e] = k]
    /\ closing' = closing \ (IF closed THEN {k} ELSE {})
    /\ UNCHANGED <<truth, mode, topologyValue, lastSuccess, watched, call, load, requested, drain,
                   events, faults, closed, owed>>

CreationFails(k) ==
    /\ Pending(reg, k) /\ Outside
    /\ reg' = [reg EXCEPT !.conn[k] = Over("refused"), !.creations[reg.conn[k].endpoint] = None]
    /\ closing' = closing \ {k}
    /\ Fault
    /\ UNCHANGED <<truth, mode, topologyValue, lastSuccess, watched, call, load, requested, drain,
                   events, closed, owed>>

\* The socket breaks.
Break(k) == /\ Frame(k)
            /\ reg' = [reg EXCEPT !.conn[k] = Over("closed"), !.retiring = @ \ {k}]
            /\ Fault
            /\ UNCHANGED <<truth, mode, topologyValue, lastSuccess, watched, call, load, requested,
                           drain, events, closed, closing, owed>>

\* The last request of a draining adapter has settled (finishDrainIfIdle).
Drained(k) == /\ State(reg, k) = "draining" /\ ~InFlight(k) /\ Continues
              /\ reg' = [reg EXCEPT !.conn[k] = Over("closed"), !.retiring = @ \ {k}]
              /\ UNCHANGED <<truth, mode, topologyValue, lastSuccess, watched, call, load, requested,
                             drain, events, faults, closed, closing, owed>>

\* GOAWAY: the adapter drains, the registry does not know it yet.
GoAway(k) == /\ Frame(k) /\ State(reg, k) = "open"
             /\ reg' = [reg EXCEPT !.conn[k].state = "draining"]
             /\ Fault
             /\ UNCHANGED <<truth, mode, topologyValue, lastSuccess, watched, call, load, requested,
                            drain, events, closed, closing, owed>>

\* retireRemoved waits for creations it could not abort in time.
LookAtLate(k) ==
    /\ k \in watched /\ ~Pending(reg, k) /\ Continues
    /\ watched' = watched \ {k}
    /\ reg' = IF State(reg, k) \in {"refused", "closed"} \/ reg.conn[k].endpoint \in ActiveKeys(topologyValue)
              THEN reg ELSE Retire(Forget(reg, k), k)
    /\ UNCHANGED <<truth, mode, topologyValue, lastSuccess, call, load, requested, drain, events, faults,
                   closed, closing, owed>>

---------------------------------------------------------------------------
(* The load of the topology. *)

\* The endpoint that answered last is asked first, then the seed and what is known.
RefreshCandidates ==
    LET all == IF Owner(topologyValue) = Seed THEN <<Seed>> ELSE <<Seed, Owner(topologyValue)>>
    IN  IF lastSuccess = Owner(topologyValue) /\ lastSuccess # Seed
        THEN <<lastSuccess, Seed>> ELSE all

LoadActive == load.pc # "idle"

Resolved(ok) == [c \in Calls |-> IF call[c].pc = "refreshing" /\ call[c].refreshed = "none"
                                THEN [call[c] EXCEPT !.refreshed = IF ok THEN "ok" ELSE "failed"]
                                ELSE call[c]]

\* The load ends, and with it every wait for it.
EndLoad(ok) == /\ load' = Idle
               /\ call' = Resolved(ok)
               /\ drain' = IF drain = "awaits" THEN IF ok THEN "loop" ELSE "ending" ELSE drain

\* A load asks the next candidate, or fails.
TryNext(r, cands) ==
    IF closed \/ cands = <<>> THEN EndLoad(FALSE) /\ reg' = r
    ELSE LET g == Get(r, Head(cands))
         IN  /\ Fresh(r) # {}
             /\ reg' = g.reg
             /\ load' = [Idle EXCEPT !.pc = g.pc, !.on = Head(cands), !.conn = g.conn,
                                     !.again = TRUE, !.cands = Tail(cands)]
             /\ UNCHANGED <<call, drain>>

\* refreshTopology() of an open executor joins the load that is under way or starts one.
Refresh == IF LoadActive THEN UNCHANGED <<reg, load, owed>>
           ELSE LET g == Get(reg, Head(RefreshCandidates))
                IN  /\ Fresh(reg) # {}
                    /\ reg' = g.reg
                    /\ load' = [Idle EXCEPT !.pc = g.pc, !.on = Head(RefreshCandidates),
                                            !.conn = g.conn, !.again = TRUE,
                                            !.cands = Tail(RefreshCandidates)]
                    /\ owed' = FALSE

\* get() after its await, for the load.
LoadResumes ==
    LET k == load.conn
        dropped == DropUnavailable(reg, k)
    IN
    /\ load.pc = "getting" /\ ~Pending(reg, k) /\ Continues
    /\ CASE State(reg, k) = "open" ->
              load' = [load EXCEPT !.pc = "got"] /\ UNCHANGED <<reg, call, drain>>
         [] State(reg, k) = "refused" -> TryNext(reg, load.cands)
         [] State(reg, k) \in {"draining", "closed"} /\ load.again /\ ~closed ->
              LET g == Get(dropped, load.on)
              IN  /\ Fresh(dropped) # {}
                  /\ reg' = g.reg
                  /\ load' = [load EXCEPT !.pc = g.pc, !.conn = g.conn, !.again = FALSE]
                  /\ UNCHANGED <<call, drain>>
         [] OTHER -> TryNext(dropped, load.cands)
    /\ UNCHANGED <<truth, mode, topologyValue, lastSuccess, watched, requested, events, faults,
                   closed, closing, owed>>

Ask == /\ load.pc = "got" /\ Continues
       /\ IF Available(reg, load.conn)
          THEN load' = [load EXCEPT !.pc = "asked"] /\ UNCHANGED <<reg, call, drain>>
          ELSE TryNext(reg, load.cands)
       /\ UNCHANGED <<truth, mode, topologyValue, lastSuccess, watched, requested, events, faults,
                      closed, closing, owed>>

\* The server executes SHARDS.
ExecuteShards == /\ load.pc = "asked" /\ Quiet
                 /\ load' = [load EXCEPT !.pc = "answered", !.view = truth]
                 /\ UNCHANGED <<truth, mode, topologyValue, lastSuccess, reg, watched, call, requested,
                                drain, events, faults, closed, closing, owed, turn>>

\* The answer settles the promise the load waits for.
ShardsArrive == /\ load.pc = "answered" /\ Frame(load.conn)
                /\ load' = [load EXCEPT !.pc = "arrived"]
                /\ UNCHANGED <<truth, mode, topologyValue, lastSuccess, reg, watched, call, requested,
                               drain, events, faults, closed, closing, owed>>

ShardsLost == /\ load.pc \in {"asked", "answered"} /\ State(reg, load.conn) = "closed"
              /\ Continues
              /\ TryNext(reg, load.cands)
              /\ UNCHANGED <<truth, mode, topologyValue, lastSuccess, watched, requested, events, faults,
                             closed, closing, owed>>

\* The load goes on.  Calls may stand between their second look and their request.
\* Warming up makes the adapters of the new topology before the old ones are retired.
Install ==
    LET g == Get(reg, Owner(load.view))
        r == Removed(reg, load.view)
        admitted == Owner(load.view) \in Trusted
    IN
    /\ load.pc = "arrived" /\ Continues
    /\ CASE ~admitted ->
              TryNext(reg, load.cands) /\ UNCHANGED <<topologyValue, lastSuccess, watched>>
         [] admitted /\ closed ->
              EndLoad(FALSE) /\ UNCHANGED <<topologyValue, lastSuccess, reg, watched>>
         [] admitted /\ ~closed /\ load.view = topologyValue ->
              /\ EndLoad(TRUE)
              /\ lastSuccess' = load.on
              /\ UNCHANGED <<topologyValue, reg, watched>>
         [] OTHER ->
              /\ topologyValue' = load.view
              /\ lastSuccess' = load.on
              /\ IF mode.warm
                 THEN /\ Fresh(reg) # {}
                      /\ reg' = g.reg
                      /\ load' = [load EXCEPT !.pc = "warming", !.conn = g.conn]
                      /\ UNCHANGED <<watched, call, drain>>
                 ELSE reg' = r.reg /\ watched' = watched \cup r.late /\ EndLoad(TRUE)
    /\ UNCHANGED <<truth, mode, requested, events, faults, closed, closing, owed>>

\* The adapters are there, or could not be made.
Warmed ==
    LET unavailable == State(reg, load.conn) \in {"draining", "closed"}
        kept == IF unavailable THEN DropUnavailable(reg, load.conn) ELSE reg
        r == Removed(kept, load.view)
    IN
    /\ load.pc = "warming" /\ ~Pending(reg, load.conn) /\ Continues
    /\ EndLoad(~closed)
    /\ IF closed THEN reg' = kept /\ UNCHANGED watched
       ELSE reg' = r.reg /\ watched' = watched \cup r.late
    /\ UNCHANGED <<truth, mode, topologyValue, lastSuccess, requested, events, faults, closed, closing, owed>>

---------------------------------------------------------------------------
(* Events: TOPOLOGY_CHANGED asks for a load that begins after it. *)

\* requestTopologyRefresh queues a microtask, which finds a loop at work or starts one.
Event == /\ ~closed /\ events < MaxEvents /\ events < truth - mode.view
         /\ \E k \in Sockets : Frame(k)
         /\ events' = events + 1
         /\ requested' = TRUE
         /\ drain' = IF drain = "off" THEN "due" ELSE drain
         /\ owed' = TRUE
         /\ UNCHANGED <<truth, mode, topologyValue, lastSuccess, reg, watched, call, load, faults, closed,
                        closing>>

\* One round of drainTopologyRefreshRequests.
DrainLoop ==
    /\ Continues
    /\ \/ drain = "loop"
       \/ drain = "due" /\ ~closed
    /\ CASE closed \/ ~requested -> drain' = "ending" /\ UNCHANGED <<requested, reg, load, owed>>
         [] ~closed /\ requested /\ LoadActive ->
              drain' = "awaits" /\ UNCHANGED <<requested, reg, load, owed>>
         [] OTHER -> drain' = "awaits" /\ requested' = FALSE /\ Refresh
    /\ UNCHANGED <<truth, mode, topologyValue, lastSuccess, watched, call, events, faults, closed, closing>>

DrainEnds == /\ \/ drain = "ending"
                \/ drain = "due" /\ closed
             /\ Continues
             /\ drain' = IF ~closed /\ requested THEN "due" ELSE "off"
             /\ UNCHANGED <<truth, mode, topologyValue, lastSuccess, reg, watched, call, load,
                            requested, events, faults, closed, closing, owed>>

---------------------------------------------------------------------------
(* Calls: executeCommandArgs and executeFusedPipeline ("command", or "cas" *)
(* if it contains a compare-and-set), executePipeline on one route         *)
(* ("pipeline"), commands without a route ("control").                     *)

Set(c, pc) == call' = [call EXCEPT ![c].pc = pc]
Finish(c, pc) == call' = [call EXCEPT ![c] = [@ EXCEPT !.pc = pc, !.route = Seed, !.conn = None,
                                !.again = FALSE, !.planning = 0, !.error = "none",
                                !.cands = <<>>, !.refreshed = "none"]]
Calling == <<truth, mode, topologyValue, lastSuccess, watched, load, requested, drain, events, faults, closed,
             closing, owed>>

\* The call starts to wait for the adapter of an endpoint.
Reach(c, r, e, change) ==
    LET g == Get(r, e) IN
    /\ Fresh(r) # {}
    /\ reg' = g.reg
    /\ call' = [call EXCEPT ![c] = [change EXCEPT !.pc = g.pc, !.conn = g.conn, !.again = TRUE]]

\* A call plans its route; controlAdapter goes through the candidates instead, and ends
\* with a last try of the seed.  A call may begin at any time, in a callback of a chunk too.
Plan(c) ==
    /\ \/ call[c].pc = "idle" /\ mode.kind[c] # "none" /\ UNCHANGED turn
       \/ call[c].pc = "plan" /\ Continues
    /\ CASE closed \/ (mode.kind[c] # "control" /\ call[c].planning = MaxPlanning) ->
              Finish(c, "failed") /\ UNCHANGED reg
         [] ~closed /\ mode.kind[c] = "control" ->
              Reach(c, reg, Head(RefreshCandidates),
                    [call[c] EXCEPT !.route = Head(RefreshCandidates),
                                    !.cands = Append(Tail(RefreshCandidates), Seed)])
         [] OTHER -> Reach(c, reg, Owner(topologyValue),
                           [call[c] EXCEPT !.route = Owner(topologyValue)])
    /\ UNCHANGED Calling

\* No adapter: the error goes to the caller, or the next candidate is tried.
NoAdapter(c, r) ==
    IF mode.kind[c] = "control" /\ call[c].cands # <<>> /\ ~closed
    THEN Reach(c, r, Head(call[c].cands), [call[c] EXCEPT !.route = Head(call[c].cands),
                                                          !.cands = Tail(@)])
    ELSE Finish(c, "failed") /\ reg' = r

\* get() after its await.
Resume(c) ==
    LET k == call[c].conn
        dropped == DropUnavailable(reg, k)
    IN
    /\ call[c].pc = "getting" /\ ~Pending(reg, k) /\ Continues
    /\ CASE State(reg, k) = "open" -> Set(c, "got") /\ UNCHANGED reg
         [] State(reg, k) = "refused" -> NoAdapter(c, reg)
         [] State(reg, k) \in {"draining", "closed"} /\ call[c].again /\ ~closed ->
              LET g == Get(dropped, call[c].route)
              IN  /\ Fresh(dropped) # {}
                  /\ reg' = g.reg
                  /\ call' = [call EXCEPT ![c].pc = g.pc, ![c].conn = g.conn, ![c].again = FALSE]
         [] OTHER -> NoAdapter(c, dropped)
    /\ UNCHANGED Calling

\* Slip: the route is not looked at again when the adapter is there.
NoRecheck(c) == /\ call[c].pc = "got" /\ Continues
                /\ Set(c, "checked")
                /\ UNCHANGED <<Calling, reg>>

\* adapterForCurrentRoute: the topology may have changed meanwhile.
Recheck(c) == /\ call[c].pc = "got" /\ Continues
              /\ IF mode.kind[c] = "control" \/ call[c].route = Owner(topologyValue)
                 THEN Set(c, "checked")
                 ELSE call' = [call EXCEPT ![c].pc = "plan", ![c].planning = @ + 1,
                                           ![c].conn = None]
              /\ UNCHANGED <<Calling, reg>>

Send(c) == /\ call[c].pc = "checked" /\ Continues
           /\ call' = IF Available(reg, call[c].conn)
                      THEN [call EXCEPT ![c].pc = "sent", ![c].sends = @ + 1]
                      ELSE [call EXCEPT ![c].pc = "error", ![c].conn = None,
                                          ![c].error = "unsent"]
           /\ UNCHANGED <<Calling, reg>>

\* What the endpoint of the call's connection may be asked for.
Serves(c) == mode.kind[c] = "control" \/ reg.conn[call[c].conn].endpoint = Owner(truth)

Execute(c) == /\ call[c].pc = "sent" /\ Serves(c) /\ Quiet
              /\ call' = [call EXCEPT ![c].pc = "executed", ![c].executed = @ + 1]
              /\ UNCHANGED <<Calling, reg, turn>>

\* Another endpoint than the owner refuses the request: with a typed error that says it is
\* safe to repeat, or with one that does not.
Refuse(c) == /\ call[c].pc = "sent" /\ ~Serves(c) /\ Frame(call[c].conn)
             /\ \E e \in {"reroute", "not leader"} :
                  call' = [call EXCEPT ![c].pc = "error", ![c].conn = None, ![c].error = e]
             /\ UNCHANGED <<Calling, reg>>

Answer(c) == /\ call[c].pc = "executed" /\ Frame(call[c].conn)
             /\ Finish(c, "done")
             /\ UNCHANGED <<Calling, reg>>

\* The connection is gone: a request that was still queued is reported as unsent.
Lost(c) == /\ call[c].pc \in {"sent", "executed"} /\ State(reg, call[c].conn) = "closed"
           /\ Continues
           /\ \E e \in {"unsent", "unknown"} :
                /\ e = "unsent" => call[c].pc = "sent"
                /\ call' = [call EXCEPT ![c].pc = "error", ![c].conn = None, ![c].error = e]
           /\ UNCHANGED <<Calling, reg>>

\* Slip: any failed connection counts as safe.
SafeIfRetryable(error) == error \in {"reroute", "unsent", "unknown"}

ExplicitlySafe(error) == error \in {"reroute", "unsent"}

\* Every error above suggests that the topology has changed.  The first one leads to a
\* refresh, except for control commands.
Handle(c) ==
    /\ call[c].pc = "error" /\ Continues
    /\ IF mode.kind[c] = "control" \/ call[c].rerouted \/ closed
       THEN Finish(c, "failed") /\ UNCHANGED <<reg, load, owed>>
       ELSE /\ Refresh
            /\ call' = [call EXCEPT ![c].pc = "refreshing", ![c].refreshed = "none",
                                    ![c].conn = None]
    /\ UNCHANGED <<truth, mode, topologyValue, lastSuccess, watched, requested, drain, events, faults, closed,
                   closing>>

\* The one reroute of a command; a pipeline and a compare-and-set only refreshed.
Refreshed(c) ==
    /\ call[c].pc = "refreshing" /\ call[c].refreshed # "none" /\ Continues
    /\ IF /\ call[c].refreshed = "ok" /\ ~closed
          /\ mode.kind[c] = "command" /\ ExplicitlySafe(call[c].error)
       THEN call' = [call EXCEPT ![c].pc = "plan", ![c].rerouted = TRUE, ![c].planning = @ + 1]
       ELSE Finish(c, "failed")
    /\ UNCHANGED <<Calling, reg>>

---------------------------------------------------------------------------
(* close() closes the adapters, in use or retiring, and waits for the      *)
(* creations to close theirs.                                              *)

\* Slip: the adapters that are retiring are forgotten.
CloseAdapters ==
    /\ ~closed
    /\ closed' = TRUE
    /\ LET made == {reg.adapters[e] : e \in Endpoints} \ {None}
           late == {reg.creations[e] : e \in Endpoints} \ {None}
       IN  /\ closing' = made \cup late
           /\ reg' = [reg EXCEPT !.adapters = [e \in Endpoints |-> None], !.retiring = {},
                                 !.conn = [k \in Sockets |->
                                    IF k \in late THEN [@[k] EXCEPT !.state = "aborted"] ELSE @[k]]]
    /\ UNCHANGED <<truth, mode, topologyValue, lastSuccess, watched, call, load, requested, drain,
                   events, faults, owed, turn>>

Close ==
    /\ ~closed
    /\ closed' = TRUE
    /\ LET made == {reg.adapters[e] : e \in Endpoints} \ {None}
           late == {reg.creations[e] : e \in Endpoints} \ {None}
       IN  /\ closing' = made \cup reg.retiring \cup late
           /\ reg' = [reg EXCEPT !.adapters = [e \in Endpoints |-> None], !.retiring = {},
                                 !.conn = [k \in Sockets |->
                                    IF k \in late THEN [@[k] EXCEPT !.state = "aborted"] ELSE @[k]]]
    /\ UNCHANGED <<truth, mode, topologyValue, lastSuccess, watched, call, load, requested, drain,
                   events, faults, owed, turn>>

CloseAdapter(k) == /\ k \in closing /\ ~Pending(reg, k) /\ Continues
                   /\ closing' = closing \ {k}
                   /\ reg' = IF State(reg, k) = "refused" THEN reg
                             ELSE [reg EXCEPT !.conn[k] = Over("closed")]
                   /\ UNCHANGED <<truth, mode, topologyValue, lastSuccess, watched, call, load,
                                  requested, drain, events, faults, closed, owed>>

---------------------------------------------------------------------------
\* What runs by itself, as long as servers and sockets answer or fail.
Continue == \/ \E k \in Sockets : \/ CreationDone(k) \/ CreationFails(k) \/ LookAtLate(k)
                                      \/ Drained(k) \/ CloseAdapter(k)
            \/ LoadResumes \/ Ask \/ ExecuteShards \/ ShardsArrive \/ ShardsLost \/ Install
            \/ Warmed
            \/ DrainLoop \/ DrainEnds
            \/ \E c \in Calls : \/ Plan(c) \/ Resume(c) \/ Recheck(c) \/ Send(c) \/ Execute(c)
                                \/ Refuse(c) \/ Answer(c) \/ Lost(c) \/ Handle(c) \/ Refreshed(c)

Next == \/ Continue
        \/ Move \/ Event \/ Close
        \/ \E k \in Sockets : Break(k) \/ GoAway(k)

Spec == Init /\ [][Next]_vars

FairSpec == Spec /\ WF_vars(Continue)

---------------------------------------------------------------------------
\* A request is executed at most once, however it is rerouted, and one with a
\* compare-and-set is sent at most once (topology-reroute-retry.ts:13).
ExecutedOnce == \A c \in Calls : /\ call[c].executed <= 1
                                 /\ mode.kind[c] = "cas" => call[c].sends <= 1

InUse(k) == State(reg, k) \in {"connecting", "aborted", "open", "draining"}

\* Every connection is accounted for, so that close() finds it: it is being made for its
\* endpoint, is its adapter or is retiring, or once closed belongs to what close() waits
\* for; and two do not share an endpoint.  None is made to an endpoint the policy refuses.
AdaptersAreKept ==
    \A k \in Sockets : InUse(k) =>
        LET e == reg.conn[k].endpoint IN
        /\ e \in Trusted
        /\ IF closed THEN k \in closing
           ELSE k \in {reg.creations[e], reg.adapters[e]} \cup reg.retiring

\* However long the adapter was awaited, a request with a route is sent to the owner of the
\* slot in the topology in use, or in the one that a load of the same turn has just
\* replaced: the route is looked at again when the adapter is there (topology.ts:431), but
\* between that and the request a load may go on whose answer is there already.
SentToOwner ==
    [][\A c \in Calls : call'[c].sends > call[c].sends /\ mode.kind[c] # "control"
                            => call[c].route \in {Owner(topologyValue), Owner(turn.view)}]_vars

\* In the end every event has been followed by a load that began after it (topology.ts:164),
\* every call has settled, and close() has returned.
Settled == /\ owed => closed
           /\ \A c \in Calls : mode.kind[c] # "none" => call[c].pc \in {"done", "failed"}
           /\ closed => closing = {}
=============================================================================
