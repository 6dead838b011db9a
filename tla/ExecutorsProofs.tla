--------------------------- MODULE ExecutorsProofs ---------------------------
(***************************************************************************)
(* The topology executor, for any calls, endpoints, views and sockets: no  *)
(* request is executed twice, requests go to the owner of their slot, and  *)
(* no connection is lost sight of.  At the end, what these theorems and    *)
(* those of the other executors say of the composed run.                   *)
(***************************************************************************)
EXTENDS MCExecutors, TLAPS

Names == Sockets \cup {None}
States == {"connecting", "aborted", "refused", "open", "draining", "closed"}

\* What the registry holds.  A connection it does not know any more is Over, which is why
\* every connection has an endpoint the policy admits.
Registry == [adapters : [Endpoints -> Names], creations : [Endpoints -> Names],
             retiring : SUBSET Sockets,
             conn : [Sockets -> [endpoint : Trusted, state : States]]]

CallRecord ==
    [pc : {"idle", "plan", "getting", "got", "checked", "sent", "executed", "error",
           "refreshing", "done", "failed"},
     route : Trusted, conn : Names, again : BOOLEAN, planning : Nat, rerouted : BOOLEAN,
     error : {"none", "reroute", "not leader", "unsent", "unknown"}, cands : Seq(Trusted),
     refreshed : {"none", "ok", "failed"}, executed : Nat, sends : Nat]

LoadRecord ==
    [pc : {"idle", "getting", "got", "asked", "answered", "arrived", "warming"}, on : Trusted,
     cands : Seq(Trusted), conn : Names, again : BOOLEAN, view : Nat]

TurnRecord == [of : Names, view : Nat]

TypeOK ==
    /\ mode \in Modes /\ truth \in Nat
    /\ topologyValue \in Nat /\ Owner(topologyValue) \in Trusted /\ lastSuccess \in Trusted
    /\ turn \in TurnRecord
    /\ reg \in Registry
    /\ call \in [Calls -> CallRecord]
    /\ load \in LoadRecord
    /\ watched \in SUBSET Sockets /\ closing \in SUBSET Sockets
    /\ closed \in BOOLEAN
    /\ load.pc # "idle" => load.conn \in Sockets
    /\ \A c \in Calls : call[c].pc \in {"getting", "got", "checked", "sent", "executed"}
                            => call[c].conn \in Sockets

\* A creation is known while its connection is pending, and by the endpoint it is for.
CreationsArePending(r) ==
    /\ \A e \in Endpoints : r.creations[e] # None =>
          /\ Pending(r, r.creations[e])
          /\ r.conn[r.creations[e]].endpoint = e
          /\ r.adapters[e] = None
    /\ \A k \in Sockets : Pending(r, k) => r.creations[r.conn[k].endpoint] = k

AdaptersAreMade(r) == \A e \in Endpoints : r.adapters[e] # None => ~Pending(r, r.adapters[e])

\* AdaptersAreKept, of a registry r: `over' that close() was called, and `late' what it
\* waits for.
Keeps(r, over, late) ==
    \A k \in Sockets : State(r, k) \in {"connecting", "aborted", "open", "draining"} =>
        IF over THEN k \in late
        ELSE k \in {r.creations[r.conn[k].endpoint], r.adapters[r.conn[k].endpoint]} \cup r.retiring

Sound(r, over, late) == /\ r \in Registry
                        /\ CreationsArePending(r)
                        /\ AdaptersAreMade(r)
                        /\ Keeps(r, over, late)

\* Where a call stands that has not been sent, since it was planned for the first time or
\* for the second.
Unsent == {"idle", "plan", "getting", "got", "checked"}

\* A call that may be sent has not been executed, and neither has one with an error that
\* counts as safe; a compare-and-set never comes back to where it may be sent.
ExecutesOnce(c) ==
    /\ call[c].executed <= 1
    /\ call[c].pc \in Unsent \cup {"sent"} => call[c].executed = 0
    /\ call[c].pc \in {"error", "refreshing"} /\ ExplicitlySafe(call[c].error)
            => call[c].executed = 0
    /\ mode.kind[c] = "cas" => /\ call[c].sends <= 1
                               /\ call[c].pc \in Unsent => call[c].sends = 0

\* Between the second look at the route and the request no event is handled, so that the
\* topology of that look is in use or has been replaced in this turn.
RouteIsCurrent(c) ==
    call[c].pc = "checked" /\ mode.kind[c] # "control"
        => call[c].route \in {Owner(topologyValue), Owner(turn.view)}

\* A turn installs one topology at the most: while a chunk is handled, or an answer waits
\* to be installed, there has been no other since the last event.
OneInstallATurn == turn.of # None \/ load.pc = "arrived" => topologyValue = turn.view

Inv == /\ TypeOK
       /\ Sound(reg, closed, closing)
       /\ OneInstallATurn
       /\ \A c \in Calls : ExecutesOnce(c) /\ RouteIsCurrent(c)

---------------------------------------------------------------------------
(* The operations of the registry keep it sound.                           *)

LEMMA Constants == /\ None \notin Sockets /\ Trusted \subseteq Endpoints /\ Seed \in Trusted
                   /\ Sockets # {} /\ (CHOOSE k \in Sockets : TRUE) \in Sockets
BY TopologyAssumption

\* A connection that is not being made is retired: it drains, unless it is closed already,
\* and whatever adapter it was it is not any more.
LEMMA RetiredSound ==
    ASSUME NEW over \in BOOLEAN, NEW late, NEW r, Sound(r, over, late),
           NEW k \in Sockets, ~Pending(r, k),
           over => k \in late \/ State(r, k) = "closed",
           NEW s \in Registry,
           s.creations = r.creations,
           \A e \in Endpoints : s.adapters[e] \in {r.adapters[e], None}
                                /\ (s.adapters[e] # r.adapters[e] => r.adapters[e] = k),
           s.retiring = IF State(r, k) = "closed" THEN r.retiring ELSE r.retiring \cup {k},
           s.conn = IF State(r, k) = "closed" THEN r.conn
                    ELSE [r.conn EXCEPT ![k].state = "draining"]
    PROVE  Sound(s, over, late)
<1>1. /\ r \in Registry /\ CreationsArePending(r) /\ AdaptersAreMade(r) /\ Keeps(r, over, late)
  BY DEF Sound
<1>2. /\ \A n \in Sockets : s.conn[n].endpoint = r.conn[n].endpoint
      /\ \A n \in Sockets : n # k => State(s, n) = State(r, n)
      /\ State(s, k) = IF State(r, k) = "closed" THEN "closed" ELSE "draining"
  BY <1>1 DEF Registry, State
<1>3. \A n \in Sockets : Pending(s, n) <=> Pending(r, n)
  BY <1>2 DEF Pending
<1>4. \A n \in Sockets : r.conn[n].endpoint \in Endpoints
  BY <1>1, Constants DEF Registry
<1>5. \A e \in Endpoints : r.creations[e] \in Names /\ r.adapters[e] \in Names /\ s.adapters[e] \in Names
  BY <1>1 DEF Registry
<1>6. CreationsArePending(s)
  BY <1>1, <1>2, <1>3, <1>5, Constants DEF CreationsArePending, Names
<1>7. AdaptersAreMade(s)
  BY <1>1, <1>3, <1>5 DEF AdaptersAreMade, Names
<1>8. Keeps(s, over, late)
  BY <1>1, <1>2, <1>4, <1>5 DEF Keeps, Names
<1> QED BY <1>6, <1>7, <1>8 DEF Sound

\* What Retire leaves of the fields of a registry.
LEMMA RetireFields ==
    ASSUME NEW r \in Registry, NEW k \in Sockets
    PROVE  /\ Retire(r, k) \in Registry
           /\ Retire(r, k).adapters = r.adapters /\ Retire(r, k).creations = r.creations
           /\ Retire(r, k).retiring = IF State(r, k) = "closed" THEN r.retiring
                                      ELSE r.retiring \cup {k}
           /\ Retire(r, k).conn = IF State(r, k) = "closed" THEN r.conn
                                  ELSE [r.conn EXCEPT ![k].state = "draining"]
<1>1. CASE State(r, k) = "closed"
  BY <1>1 DEF Retire
<1>2. CASE State(r, k) # "closed"
  <2> DEFINE s == [r EXCEPT !.retiring = @ \cup {k}, !.conn[k].state = "draining"]
  <2>1. Retire(r, k) = s
    BY <1>2 DEF Retire
  <2>2. r.retiring \cup {k} \in SUBSET Sockets
    BY DEF Registry
  <2>3. [r.conn EXCEPT ![k].state = "draining"] \in [Sockets -> [endpoint : Trusted, state : States]]
    BY DEF Registry, States
  <2>4. /\ s.adapters = r.adapters /\ s.creations = r.creations
        /\ s.retiring = r.retiring \cup {k}
        /\ s.conn = [r.conn EXCEPT ![k].state = "draining"]
    BY DEF Registry
  <2>5. s \in Registry
    BY <2>2, <2>3 DEF Registry
  <2> QED BY <1>2, <2>1, <2>4, <2>5
<1> QED BY <1>1, <1>2

\* DropUnavailable, of a connection that is not being made.
LEMMA DropSound ==
    ASSUME NEW over \in BOOLEAN, NEW late, NEW r, Sound(r, over, late),
           NEW k \in Sockets, ~Pending(r, k), State(r, k) # "refused"
    PROVE  Sound(DropUnavailable(r, k), over, late)
<1> DEFINE f == Forget(r, k)
           adapters == [e \in Endpoints |-> IF r.adapters[e] = k THEN None ELSE r.adapters[e]]
<1>1. r \in Registry /\ CreationsArePending(r) /\ Keeps(r, over, late)
  BY DEF Sound
<1>2. \A e \in Endpoints : r.creations[e] # k
  BY <1>1, Constants DEF CreationsArePending, Registry, Names
<1>3. [e \in Endpoints |-> IF r.creations[e] = k THEN None ELSE r.creations[e]] = r.creations
  BY <1>1, <1>2 DEF Registry
<1>4. adapters \in [Endpoints -> Names]
  BY <1>1 DEF Registry, Names
<1>5. /\ f.adapters = adapters /\ f.creations = r.creations
      /\ f.retiring = r.retiring /\ f.conn = r.conn
  BY <1>1, <1>3 DEF Forget, Registry
<1>6. f \in Registry
  BY <1>1, <1>3, <1>4 DEF Forget, Registry
<1>7. State(f, k) = State(r, k)
  BY <1>5 DEF State
<1>8. DropUnavailable(r, k) = Retire(f, k)
  BY DEF DropUnavailable
<1> HIDE DEF f
<1>9. /\ Retire(f, k) \in Registry
      /\ Retire(f, k).creations = r.creations
      /\ Retire(f, k).adapters = adapters
      /\ Retire(f, k).retiring = IF State(r, k) = "closed" THEN r.retiring ELSE r.retiring \cup {k}
      /\ Retire(f, k).conn = IF State(r, k) = "closed" THEN r.conn
                             ELSE [r.conn EXCEPT ![k].state = "draining"]
  BY <1>5, <1>6, <1>7, RetireFields
<1>10. \A e \in Endpoints : adapters[e] \in {r.adapters[e], None}
                            /\ (adapters[e] # r.adapters[e] => r.adapters[e] = k)
  OBVIOUS
<1> HIDE DEF adapters
<1>11. State(r, k) \in {"open", "draining", "closed"}
  BY <1>1 DEF Registry, State, Pending, States
<1>12. over => k \in late \/ State(r, k) = "closed"
  BY <1>1, <1>11 DEF Keeps
<1> QED BY <1>8, <1>9, <1>10, <1>12, RetiredSound, SMTT(30)

\* A socket that nobody knows, taken for a new connection to an endpoint that has none.
NewConnection(r, e, k) == [r EXCEPT !.creations[e] = k,
                                    !.conn[k] = [endpoint |-> e, state |-> "connecting"]]

LEMMA NewSound ==
    ASSUME NEW over \in BOOLEAN, ~over, NEW late, NEW r, Sound(r, over, late),
           NEW e \in Trusted, r.creations[e] = None, r.adapters[e] = None,
           NEW k \in Fresh(r)
    PROVE  Sound(NewConnection(r, e, k), over, late)
<1> DEFINE s == NewConnection(r, e, k)
           record == [endpoint |-> e, state |-> "connecting"]
<1>1. /\ r \in Registry /\ CreationsArePending(r) /\ AdaptersAreMade(r) /\ Keeps(r, over, late)
      /\ e \in Endpoints /\ None \notin Sockets
  BY Constants DEF Sound
<1>2. /\ k \in Sockets /\ State(r, k) \in {"refused", "closed"} /\ k \notin r.retiring
      /\ \A d \in Endpoints : r.adapters[d] # k /\ r.creations[d] # k
  BY DEF Fresh, Known
<1>3. record \in [endpoint : Trusted, state : States]
  BY DEF States
<1>4. /\ s.creations = [r.creations EXCEPT ![e] = k] /\ s.adapters = r.adapters
      /\ s.conn = [r.conn EXCEPT ![k] = record] /\ s.retiring = r.retiring
  BY <1>1 DEF NewConnection, Registry
<1>5. s \in Registry
  BY <1>1, <1>2, <1>3 DEF NewConnection, Registry, Names
<1> HIDE DEF s
<1>6. /\ \A n \in Sockets : n # k => s.conn[n] = r.conn[n]
      /\ s.conn[k].endpoint = e /\ s.conn[k].state = "connecting"
      /\ \A d \in Endpoints : d # e => s.creations[d] = r.creations[d]
      /\ s.creations[e] = k
  BY <1>1, <1>2, <1>4 DEF Registry
<1>7. /\ \A n \in Sockets : n # k => (State(s, n) = State(r, n) /\ (Pending(s, n) <=> Pending(r, n)))
      /\ State(s, k) = "connecting" /\ Pending(s, k)
  BY <1>6 DEF State, Pending
<1>8. \A n \in Sockets : r.conn[n].endpoint \in Endpoints
  BY <1>1, Constants DEF Registry
<1>9. \A d \in Endpoints : r.creations[d] \in Names /\ r.adapters[d] \in Names
  BY <1>1 DEF Registry
<1>10. CreationsArePending(s)
  <2>1. ASSUME NEW d \in Endpoints, s.creations[d] # None
        PROVE  /\ Pending(s, s.creations[d])
               /\ s.conn[s.creations[d]].endpoint = d
               /\ s.adapters[d] = None
    BY <1>1, <1>2, <1>4, <1>6, <1>7, <1>9, <2>1 DEF CreationsArePending, Names
  <2>2. ASSUME NEW n \in Sockets, Pending(s, n) PROVE s.creations[s.conn[n].endpoint] = n
    BY <1>1, <1>6, <1>7, <1>8, <2>2 DEF CreationsArePending
  <2> QED BY <2>1, <2>2 DEF CreationsArePending
<1>11. AdaptersAreMade(s)
  BY <1>1, <1>2, <1>4, <1>7, <1>9 DEF AdaptersAreMade, Names
<1>12. Keeps(s, over, late)
  <2> SUFFICES ASSUME NEW n \in Sockets, State(s, n) \in {"connecting", "aborted", "open", "draining"}
               PROVE  n \in {s.creations[s.conn[n].endpoint], s.adapters[s.conn[n].endpoint]}
                               \cup s.retiring
    BY DEF Keeps
  <2>1. CASE n = k
    BY <1>6, <2>1
  <2>2. CASE n # k
    <3>1. n \in {r.creations[r.conn[n].endpoint], r.adapters[r.conn[n].endpoint]} \cup r.retiring
      BY <1>1, <1>7, <2>2 DEF Keeps
    <3>2. n # None
      BY <1>1
    <3> QED BY <1>1, <1>4, <1>6, <1>8, <2>2, <3>1, <3>2
  <2> QED BY <2>1, <2>2
<1> QED BY <1>5, <1>10, <1>11, <1>12 DEF Sound, s

\* The registry get() works on: an adapter that is no longer available is retired.
Kept(r, e) == LET found == r.adapters[e]
              IN  IF found # None /\ ~Available(r, found)
                  THEN Retire([r EXCEPT !.adapters[e] = None], found) ELSE r

LEMMA KeptSound ==
    ASSUME NEW over \in BOOLEAN, ~over, NEW late, NEW r, Sound(r, over, late), NEW e \in Trusted,
           ~(r.adapters[e] # None /\ Available(r, r.adapters[e]))
    PROVE  /\ Sound(Kept(r, e), over, late)
           /\ Kept(r, e).adapters[e] = None
           /\ Kept(r, e).creations = r.creations
           /\ Fresh(r) \subseteq Fresh(Kept(r, e))
<1>1. r \in Registry /\ AdaptersAreMade(r) /\ e \in Endpoints /\ None \notin Sockets
  BY Constants DEF Sound
<1>2. CASE r.adapters[e] = None
  BY <1>2 DEF Kept
<1>3. CASE r.adapters[e] # None
  <2>1. PICK k \in Sockets : k = r.adapters[e]
    BY <1>1, <1>3 DEF Registry, Names
  <2> DEFINE f == [r EXCEPT !.adapters[e] = None]
             adapters == [r.adapters EXCEPT ![e] = None]
             s == Retire(f, k)
  <2>2. Kept(r, e) = s /\ ~Pending(r, k)
    BY <1>1, <1>3, <2>1 DEF Kept, AdaptersAreMade
  <2>3. f.adapters = adapters /\ f.creations = r.creations /\ f.retiring = r.retiring
        /\ f.conn = r.conn
    BY <1>1 DEF Registry
  <2>4. adapters \in [Endpoints -> Names]
    BY <1>1 DEF Registry, Names
  <2>5. f \in Registry
    BY <1>1, <2>4 DEF Registry
  <2>6. State(f, k) = State(r, k)
    BY <2>3 DEF State
  <2> HIDE DEF f
  <2>7. /\ s \in Registry /\ s.adapters = adapters /\ s.creations = r.creations
        /\ s.retiring = IF State(r, k) = "closed" THEN r.retiring ELSE r.retiring \cup {k}
        /\ s.conn = IF State(r, k) = "closed" THEN r.conn
                    ELSE [r.conn EXCEPT ![k].state = "draining"]
    BY <2>3, <2>5, <2>6, RetireFields
  <2>8. adapters[e] = None /\ (\A d \in Endpoints : d # e => adapters[d] = r.adapters[d])
    BY <1>1 DEF Registry
  <2> HIDE DEF adapters, s
  <2>9. \A d \in Endpoints : s.adapters[d] \in {r.adapters[d], None}
                              /\ (s.adapters[d] # r.adapters[d] => r.adapters[d] = k)
    BY <2>1, <2>7, <2>8
  <2>10. Sound(s, over, late)
    BY <2>2, <2>7, <2>9, RetiredSound
  <2>11. Fresh(r) \subseteq Fresh(s)
    <3> SUFFICES ASSUME NEW n \in Fresh(r) PROVE n \in Fresh(s)
      OBVIOUS
    <3>1. /\ n \in Sockets /\ n \notin Known(r) /\ State(r, n) \in {"refused", "closed"}
          /\ n # k
      BY <1>1, <2>1 DEF Fresh, Known
    <3>2. State(s, n) = State(r, n)
      BY <1>1, <2>7, <3>1 DEF State, Registry
    <3>3. n \notin Known(s)
      BY <1>1, <2>7, <2>9, <3>1 DEF Known
    <3> QED BY <3>1, <3>2, <3>3 DEF Fresh
  <2> QED BY <2>2, <2>7, <2>8, <2>10, <2>11
<1> QED BY <1>2, <1>3

\* get() hands out a connection, and the registry stays sound.
LEMMA GetSound ==
    ASSUME NEW over \in BOOLEAN, ~over, NEW late, NEW r, Sound(r, over, late),
           NEW e \in Trusted, Fresh(r) # {}
    PROVE  /\ Sound(Get(r, e).reg, over, late)
           /\ Get(r, e).conn \in Sockets
           /\ Get(r, e).pc \in {"getting", "got"}
<1> DEFINE found == r.adapters[e]
           ready == found # None /\ Available(r, found)
           kept == Kept(r, e)
           new == CHOOSE k \in Fresh(kept) : TRUE
<1>1. r \in Registry /\ e \in Endpoints
  BY Constants DEF Sound
<1>2. Get(r, e) = CASE ready -> [reg |-> r, conn |-> found, pc |-> "got"]
                    [] ~ready /\ kept.creations[e] # None ->
                          [reg |-> kept, conn |-> kept.creations[e], pc |-> "getting"]
                    [] OTHER -> [reg |-> NewConnection(kept, e, new), conn |-> new, pc |-> "getting"]
  BY DEF Get, Kept, NewConnection
<1>3. CASE ready
  <2>1. Get(r, e) = [reg |-> r, conn |-> found, pc |-> "got"]
    BY <1>2, <1>3
  <2> QED BY <1>1, <1>3, <2>1 DEF Registry, Names
<1>4. CASE ~ready
  <2>1. /\ Sound(kept, over, late) /\ kept.adapters[e] = None
        /\ Fresh(r) \subseteq Fresh(kept)
    BY <1>4, KeptSound
  <2>2. kept \in Registry
    BY <2>1 DEF Sound
  <2>3. CASE kept.creations[e] # None
    <3>1. Get(r, e) = [reg |-> kept, conn |-> kept.creations[e], pc |-> "getting"]
      BY <1>2, <1>4, <2>3
    <3> QED BY <1>1, <2>1, <2>2, <2>3, <3>1 DEF Registry, Names
  <2>4. CASE kept.creations[e] = None
    <3>1. Get(r, e) = [reg |-> NewConnection(kept, e, new), conn |-> new, pc |-> "getting"]
      BY <1>2, <1>4, <2>4
    <3>2. new \in Fresh(kept)
      BY <2>1
    <3>3. new \in Sockets
      BY <3>2 DEF Fresh
    <3> HIDE DEF kept, new
    <3>4. Sound(NewConnection(kept, e, new), over, late)
      BY <2>1, <2>4, <3>2, NewSound
    <3> QED BY <3>1, <3>3, <3>4
  <2> QED BY <2>3, <2>4
<1> QED BY <1>3, <1>4

\* retireRemoved: the adapters of other endpoints drain, the creations for them are aborted.
LEMMA RemovedSound ==
    ASSUME NEW over \in BOOLEAN, ~over, NEW late, NEW r, Sound(r, over, late), NEW view
    PROVE  Sound(Removed(r, view).reg, over, late) /\ Removed(r, view).late \in SUBSET Sockets
<1> DEFINE keys == Endpoints \ ActiveKeys(view)
           gone == {r.adapters[e] : e \in keys} \ {None}
           aborted == {r.creations[e] : e \in keys} \ {None}
           adapters == [e \in Endpoints |-> IF e \in keys THEN None ELSE r.adapters[e]]
           retiring == r.retiring \cup {k \in gone : State(r, k) # "closed"}
           conns == [k \in Sockets |->
                        CASE k \in gone /\ r.conn[k].state # "closed" -> [r.conn[k] EXCEPT !.state = "draining"]
                          [] k \in aborted -> [r.conn[k] EXCEPT !.state = "aborted"]
                          [] OTHER -> r.conn[k]]
           s == [r EXCEPT !.adapters = adapters, !.retiring = retiring, !.conn = conns]
<1>1. /\ r \in Registry /\ CreationsArePending(r) /\ AdaptersAreMade(r) /\ Keeps(r, over, late)
      /\ None \notin Sockets
  BY Constants DEF Sound
<1>2. Removed(r, view) = [reg |-> s, late |-> aborted]
  BY <1>1 DEF Removed, Registry
<1>3. /\ gone \in SUBSET Sockets /\ aborted \in SUBSET Sockets
      /\ \A k \in aborted : Pending(r, k) /\ (\E e \in keys : r.creations[e] = k)
      /\ \A k \in gone : ~Pending(r, k) /\ (\E e \in keys : r.adapters[e] = k)
  BY <1>1 DEF Registry, Names, CreationsArePending, AdaptersAreMade
<1>4. adapters \in [Endpoints -> Names] /\ retiring \in SUBSET Sockets
  BY <1>1, <1>3 DEF Registry, Names
<1>5. ASSUME NEW k \in Sockets
      PROVE  /\ conns[k] \in [endpoint : Trusted, state : States]
             /\ conns[k].endpoint = r.conn[k].endpoint
             /\ conns[k].state = IF k \in gone /\ r.conn[k].state # "closed" THEN "draining"
                                ELSE IF k \in aborted THEN "aborted" ELSE r.conn[k].state
  <2>1. r.conn[k] \in [endpoint : Trusted, state : States]
    BY <1>1 DEF Registry
  <2>d. k \in gone => k \notin aborted
    BY <1>3
  <2> HIDE DEF gone, aborted
  <2>2. CASE k \in gone /\ r.conn[k].state # "closed"
    <3>1. conns[k] = [r.conn[k] EXCEPT !.state = "draining"]
      BY <2>2, <2>d
    <3> QED BY <2>1, <2>2, <3>1 DEF States
  <2>3. CASE ~(k \in gone /\ r.conn[k].state # "closed") /\ k \in aborted
    <3>1. conns[k] = [r.conn[k] EXCEPT !.state = "aborted"]
      BY <2>3
    <3> QED BY <2>1, <2>3, <3>1 DEF States
  <2>4. CASE ~(k \in gone /\ r.conn[k].state # "closed") /\ k \notin aborted
    <3>1. conns[k] = r.conn[k]
      BY <2>4
    <3> QED BY <2>1, <2>4, <3>1
  <2> QED BY <2>2, <2>3, <2>4
<1>6. conns \in [Sockets -> [endpoint : Trusted, state : States]]
  BY <1>5
<1> HIDE DEF conns
<1>7. /\ s.adapters = adapters /\ s.creations = r.creations /\ s.retiring = retiring /\ s.conn = conns
      /\ s \in Registry
  BY <1>1, <1>4, <1>6 DEF Registry
<1> HIDE DEF s
<1>8. \A k \in Sockets : /\ s.conn[k].endpoint = r.conn[k].endpoint
                         /\ s.conn[k].endpoint \in Endpoints
                         /\ Pending(s, k) <=> Pending(r, k)
  <2> SUFFICES ASSUME NEW k \in Sockets
               PROVE  /\ s.conn[k].endpoint = r.conn[k].endpoint
                      /\ s.conn[k].endpoint \in Endpoints
                      /\ Pending(s, k) <=> Pending(r, k)
    OBVIOUS
  <2> HIDE DEF gone, aborted
  <2>1. r.conn[k].endpoint \in Endpoints
    BY <1>1, Constants DEF Registry
  <2> QED BY <1>3, <1>5, <1>7, <2>1 DEF Pending, State
<1>9. \A e \in Endpoints : /\ s.adapters[e] \in {r.adapters[e], None}
                           /\ r.creations[e] \in Names /\ r.adapters[e] \in Names
  BY <1>1, <1>7 DEF Registry
<1>10. CreationsArePending(s)
  BY <1>1, <1>7, <1>8, <1>9 DEF CreationsArePending, Names
<1>11. AdaptersAreMade(s)
  BY <1>1, <1>8, <1>9 DEF AdaptersAreMade, Names
<1>12. Keeps(s, over, late)
  <2> SUFFICES ASSUME NEW k \in Sockets, State(s, k) \in {"connecting", "aborted", "open", "draining"}
               PROVE  k \in {s.creations[s.conn[k].endpoint], s.adapters[s.conn[k].endpoint]}
                               \cup s.retiring
    BY DEF Keeps
  <2>1. CASE k \in gone
    <3>1. State(r, k) # "closed"
      BY <1>3, <1>5, <1>7, <2>1 DEF State, Pending
    <3> QED BY <1>7, <2>1, <3>1
  <2>2. CASE k \in aborted
    BY <1>1, <1>3, <1>7, <1>8, <2>2 DEF CreationsArePending
  <2>3. CASE k \notin gone /\ k \notin aborted
    <3>1. State(s, k) = State(r, k)
      BY <1>5, <1>7, <2>3 DEF State
    <3>2. k \in {r.creations[r.conn[k].endpoint], r.adapters[r.conn[k].endpoint]} \cup r.retiring
      BY <1>1, <3>1 DEF Keeps
    <3>3. CASE k = r.adapters[r.conn[k].endpoint]
      <4>1. r.conn[k].endpoint \notin keys
        BY <1>1, <2>3, <3>3
      <4> QED BY <1>7, <1>8, <3>3, <4>1
    <3> QED BY <1>7, <1>8, <3>2, <3>3
  <2> QED BY <2>1, <2>2, <2>3
<1> QED BY <1>2, <1>3, <1>7, <1>10, <1>11, <1>12 DEF Sound

---------------------------------------------------------------------------
(* Loads of the topology.                                                  *)

\* No call moves, except that its wait for the load may be over.
CallsStay == /\ call' \in [Calls -> CallRecord]
             /\ \A c \in Calls : /\ call'[c].pc = call[c].pc /\ call'[c].route = call[c].route
                                 /\ call'[c].conn = call[c].conn /\ call'[c].error = call[c].error
                                 /\ call'[c].executed = call[c].executed
                                 /\ call'[c].sends = call[c].sends

\* What every step does: it keeps the invariant, and sends a call only from where its route
\* has been looked at again.
Preserved ==
    /\ Inv'
    /\ \A c \in Calls : call'[c].sends # call[c].sends => call[c].pc = "checked"

\* What a step that is no event of a socket does to the load.
LoadOK == /\ load' \in LoadRecord
          /\ load'.pc # "idle" => load'.conn \in Sockets
          /\ load'.pc = "arrived" => load.pc = "arrived"

\* The two kinds of steps: the turn goes on, or another event is handled, while no call is
\* about to be sent or as part of a chunk.
GoesOn == /\ turn' \in TurnRecord
          /\ turn'.view = turn.view /\ turn'.of \in {None, turn.of}
NextEvent == /\ turn' \in TurnRecord
             /\ turn'.view = topologyValue
             /\ turn.of # None \/ \A c \in Calls : call[c].pc # "checked"
TurnStep == GoesOn \/ NextEvent

LEMMA ContinuesGoesOn == ASSUME Inv, Continues PROVE GoesOn /\ turn'.of = None
BY DEF Inv, TypeOK, Continues, GoesOn, TurnRecord, Names

LEMMA TurnStays == ASSUME Inv, UNCHANGED turn PROVE TurnStep
BY DEF Inv, TypeOK, TurnStep, GoesOn, TurnRecord

LEMMA FrameIsEvent == ASSUME Inv, NEW k \in Sockets, Frame(k) PROVE NextEvent
<1>1. k \in Names /\ k # None /\ topologyValue \in Nat
  BY Constants DEF Inv, TypeOK, Names
<1> QED BY <1>1 DEF Frame, Quiet, NextEvent, TurnRecord

LEMMA OutsideIsEvent == ASSUME Inv, Outside PROVE NextEvent
BY DEF Inv, TypeOK, Outside, Quiet, NextEvent, TurnRecord, Names

LEMMA NextTurn == ASSUME Inv, Next PROVE TurnStep
<1>1. ASSUME Continues PROVE TurnStep
  BY <1>1, ContinuesGoesOn DEF TurnStep
<1>2. ASSUME NEW k \in Sockets, Frame(k) \/ Outside PROVE TurnStep
  BY <1>2, FrameIsEvent, OutsideIsEvent DEF TurnStep
<1>3. ASSUME NEW k \in Sockets,
             \/ CreationDone(k) \/ CreationFails(k) \/ Break(k) \/ GoAway(k)
             \/ LookAtLate(k) \/ Drained(k) \/ CloseAdapter(k)
      PROVE  TurnStep
  <2>1. CASE CreationDone(k) \/ CreationFails(k) \/ Break(k) \/ GoAway(k)
    BY <1>2, <2>1 DEF CreationDone, CreationFails, Break, GoAway
  <2>2. CASE LookAtLate(k) \/ Drained(k) \/ CloseAdapter(k)
    BY <1>1, <2>2 DEF LookAtLate, Drained, CloseAdapter
  <2> QED BY <1>3, <2>1, <2>2
<1>4. ASSUME \/ LoadResumes \/ Ask \/ ShardsLost \/ Install \/ Warmed
             \/ DrainLoop \/ DrainEnds
      PROVE  TurnStep
  BY <1>1, <1>4 DEF LoadResumes, Ask, ShardsLost, Install, Warmed, DrainLoop, DrainEnds
<1>5. ASSUME Move \/ ExecuteShards \/ Close PROVE TurnStep
  BY <1>5, TurnStays DEF Move, ExecuteShards, Close
<1>6. CASE ShardsArrive \/ Event
  <2>1. CASE ShardsArrive
    <3>1. Frame(load.conn) /\ load.conn \in Sockets
      BY <2>1 DEF ShardsArrive, Inv, TypeOK
    <3> QED BY <1>2, <3>1
  <2>2. CASE Event
    BY <1>2, <2>2 DEF Event
  <2> QED BY <1>6, <2>1, <2>2
<1>7. ASSUME NEW c \in Calls,
             \/ Plan(c) \/ Resume(c) \/ Recheck(c) \/ Send(c) \/ Execute(c)
             \/ Refuse(c) \/ Answer(c) \/ Lost(c) \/ Handle(c) \/ Refreshed(c)
      PROVE  TurnStep
  <2>1. CASE Plan(c) \/ Execute(c)
    BY <1>1, <2>1, TurnStays DEF Plan, Execute
  <2>2. CASE Refuse(c) \/ Answer(c)
    <3>1. Frame(call[c].conn) /\ call[c].conn \in Sockets
      BY <2>2 DEF Refuse, Answer, Inv, TypeOK
    <3> QED BY <1>2, <3>1
  <2>3. CASE Resume(c) \/ Recheck(c) \/ Send(c) \/ Lost(c) \/ Handle(c) \/ Refreshed(c)
    BY <1>1, <2>3 DEF Resume, Recheck, Send, Lost, Handle, Refreshed
  <2> QED BY <1>7, <2>1, <2>2, <2>3
<1> QED BY <1>3, <1>4, <1>5, <1>6, <1>7 DEF Next, Continue

\* A route that was looked at again stays as good as it was.
LEMMA RoutesStay ==
    ASSUME Inv, TurnStep, UNCHANGED <<mode, topologyValue>>, NEW c \in Calls,
           call[c].pc = "checked", mode.kind[c] # "control"
    PROVE  call[c].route \in {Owner(topologyValue'), Owner(turn'.view)}
<1>1. RouteIsCurrent(c) /\ OneInstallATurn
  BY DEF Inv
<1>2. CASE GoesOn
  BY <1>1, <1>2 DEF GoesOn, RouteIsCurrent
<1>3. CASE NextEvent
  <2>1. topologyValue = turn.view
    BY <1>1, <1>3 DEF NextEvent, OneInstallATurn
  <2> QED BY <1>1, <2>1 DEF RouteIsCurrent
<1> QED BY <1>2, <1>3 DEF TurnStep

LEMMA OneInstallStays ==
    ASSUME Inv, TurnStep, topologyValue' = topologyValue, LoadOK PROVE OneInstallATurn'
BY DEF Inv, TurnStep, GoesOn, NextEvent, LoadOK, OneInstallATurn

\* What is true of the calls stays true, also when the topology of a turn is installed.
LEMMA StayingCalls ==
    ASSUME Inv, TurnStep, CallsStay, mode' = mode,
           topologyValue' = topologyValue \/ (load.pc = "arrived" /\ GoesOn)
    PROVE  /\ \A c \in Calls : call'[c].pc \in {"getting", "got", "checked", "sent", "executed"}
                                  => call'[c].conn \in Sockets
           /\ \A c \in Calls : ExecutesOnce(c)' /\ RouteIsCurrent(c)'
<1>1. ASSUME NEW c \in Calls PROVE ExecutesOnce(c)' /\ RouteIsCurrent(c)'
  <2>1. ExecutesOnce(c) /\ RouteIsCurrent(c) /\ OneInstallATurn
    BY DEF Inv
  <2>2. ExecutesOnce(c)'
    BY <2>1 DEF CallsStay, ExecutesOnce
  <2>3. CASE topologyValue' = topologyValue
    BY <2>2, <2>3, RoutesStay DEF CallsStay, RouteIsCurrent, Owner
  <2>4. CASE load.pc = "arrived" /\ GoesOn
    BY <2>1, <2>2, <2>4 DEF CallsStay, RouteIsCurrent, OneInstallATurn, GoesOn, Owner
  <2> QED BY <2>3, <2>4
<1>2. \A c \in Calls : call'[c].pc \in {"getting", "got", "checked", "sent", "executed"}
                           => call'[c].conn \in Sockets
  BY DEF Inv, TypeOK, CallsStay
<1> QED BY <1>1, <1>2

LEMMA UnchangedCalls == ASSUME Inv, call' = call PROVE CallsStay
BY DEF Inv, TypeOK, CallsStay

\* A step of the registry, the load and the creations alone.
LEMMA OtherStep ==
    ASSUME Inv, TurnStep, Sound(reg', closed', closing'), LoadOK, CallsStay,
           closed' \in BOOLEAN, closing' \in SUBSET Sockets, watched' \in SUBSET Sockets,
           UNCHANGED <<truth, mode, topologyValue, lastSuccess>>
    PROVE  Preserved
<1>1. TypeOK'
  BY StayingCalls DEF Inv, TypeOK, LoadOK, CallsStay, Sound, Owner, TurnStep, GoesOn, NextEvent
<1> QED BY <1>1, StayingCalls, OneInstallStays DEF Inv, Preserved, CallsStay

LEMMA UnchangedLoad == ASSUME Inv, load' = load PROVE LoadOK
BY DEF Inv, TypeOK, LoadOK

LEMMA IdleIsALoad == Idle \in LoadRecord /\ Idle.pc = "idle"
<1>1. <<>> \in Seq(Trusted)
  OBVIOUS
<1> QED BY <1>1, Constants DEF Idle, LoadRecord, Names

LEMMA EndLoadWell ==
    ASSUME Inv, NEW ok \in BOOLEAN, EndLoad(ok)
    PROVE  LoadOK /\ CallsStay
<1>1. LoadOK
  BY IdleIsALoad DEF EndLoad, LoadOK
<1>2. call' = Resolved(ok)
  BY DEF EndLoad
<1>3. ASSUME NEW c \in Calls
      PROVE  /\ call'[c] \in CallRecord
             /\ call'[c].pc = call[c].pc /\ call'[c].route = call[c].route
             /\ call'[c].conn = call[c].conn /\ call'[c].error = call[c].error
             /\ call'[c].executed = call[c].executed /\ call'[c].sends = call[c].sends
  <2>1. call[c] \in CallRecord
    BY DEF Inv, TypeOK
  <2>2. \/ call'[c] = call[c]
        \/ call'[c] = [call[c] EXCEPT !.refreshed = IF ok THEN "ok" ELSE "failed"]
    BY <1>2 DEF Resolved
  <2> QED BY <2>1, <2>2 DEF CallRecord
<1>4. call' \in [Calls -> CallRecord]
  BY <1>2, <1>3 DEF Resolved
<1> QED BY <1>1, <1>3, <1>4 DEF CallsStay

\* The load asks an endpoint that may be asked.
LEMMA AsksWell ==
    ASSUME NEW e \in Trusted, NEW rest \in Seq(Trusted), NEW k \in Sockets,
           NEW p \in {"getting", "got"},
           load' = [Idle EXCEPT !.pc = p, !.on = e, !.conn = k, !.again = TRUE, !.cands = rest]
    PROVE  LoadOK
<1> DEFINE l == [Idle EXCEPT !.pc = p, !.on = e, !.conn = k, !.again = TRUE, !.cands = rest]
<1>1. Idle \in LoadRecord
  BY IdleIsALoad
<1>2. p \in {"idle", "getting", "got", "asked", "answered", "arrived", "warming"} /\ k \in Names
      /\ TRUE \in BOOLEAN
  BY DEF Names
<1>3. l \in LoadRecord
  BY <1>1, <1>2 DEF LoadRecord
<1>4. l.conn = k /\ l.pc = p
  BY <1>1 DEF LoadRecord
<1> QED BY <1>3, <1>4 DEF LoadOK

LEMMA TryNextWell ==
    ASSUME Inv, NEW r, Sound(r, closed, closing), NEW cands \in Seq(Trusted), TryNext(r, cands)
    PROVE  Sound(reg', closed, closing) /\ LoadOK /\ CallsStay
<1>1. CASE closed \/ cands = <<>>
  BY <1>1, EndLoadWell DEF TryNext
<1>2. CASE ~(closed \/ cands = <<>>)
  <2>1. Head(cands) \in Trusted /\ Tail(cands) \in Seq(Trusted)
    BY <1>2
  <2> DEFINE g == Get(r, Head(cands))
  <2>2. /\ Fresh(r) # {} /\ reg' = g.reg /\ call' = call
        /\ load' = [Idle EXCEPT !.pc = g.pc, !.on = Head(cands), !.conn = g.conn,
                                !.again = TRUE, !.cands = Tail(cands)]
    BY <1>2 DEF TryNext
  <2>3. closed \in BOOLEAN
    BY DEF Inv, TypeOK
  <2>4. /\ Sound(g.reg, closed, closing) /\ g.conn \in Sockets /\ g.pc \in {"getting", "got"}
    BY <1>2, <2>1, <2>2, <2>3, GetSound
  <2> QED BY <2>1, <2>2, <2>4, AsksWell, UnchangedCalls
<1> QED BY <1>1, <1>2

LEMMA CandidatesAreTrusted ==
    ASSUME Inv
    PROVE  /\ RefreshCandidates \in Seq(Trusted) /\ RefreshCandidates # <<>>
           /\ Head(RefreshCandidates) \in Trusted /\ Tail(RefreshCandidates) \in Seq(Trusted)
<1>1. Seed \in Trusted /\ Owner(topologyValue) \in Trusted /\ lastSuccess \in Trusted
  BY Constants DEF Inv, TypeOK
<1>2. RefreshCandidates \in {<<lastSuccess, Seed>>, <<Seed>>, <<Seed, Owner(topologyValue)>>}
  BY DEF RefreshCandidates
<1>3. \A a \in Trusted : <<a>> \in Seq(Trusted) /\ <<a>> # <<>>
  OBVIOUS
<1>4. \A a, b \in Trusted : <<a, b>> \in Seq(Trusted) /\ <<a, b>> # <<>>
  OBVIOUS
<1>5. RefreshCandidates \in Seq(Trusted) /\ RefreshCandidates # <<>>
  BY <1>1, <1>2, <1>3, <1>4, Zenon
<1> QED BY <1>5

LEMMA RefreshWell ==
    ASSUME Inv, ~closed, Refresh
    PROVE  Sound(reg', closed, closing) /\ LoadOK
<1>1. CASE LoadActive
  BY <1>1, UnchangedLoad DEF Refresh, Inv
<1>2. CASE ~LoadActive
  <2> DEFINE e == Head(RefreshCandidates)
             g == Get(reg, e)
  <2>1. /\ Fresh(reg) # {} /\ reg' = g.reg
        /\ load' = [Idle EXCEPT !.pc = g.pc, !.on = e, !.conn = g.conn, !.again = TRUE,
                                !.cands = Tail(RefreshCandidates)]
    BY <1>2 DEF Refresh
  <2>2. closed \in BOOLEAN /\ Sound(reg, closed, closing)
    BY DEF Inv, TypeOK
  <2>3. e \in Trusted /\ Tail(RefreshCandidates) \in Seq(Trusted)
    BY CandidatesAreTrusted
  <2> HIDE DEF e
  <2>4. Sound(g.reg, closed, closing) /\ g.conn \in Sockets /\ g.pc \in {"getting", "got"}
    BY <2>1, <2>2, <2>3, GetSound
  <2> QED BY <2>1, <2>3, <2>4, AsksWell
<1> QED BY <1>1, <1>2

LEMMA LoadResumesInv ==
    ASSUME Inv, TurnStep, LoadResumes
    PROVE  Preserved
<1> DEFINE k == load.conn
           dropped == DropUnavailable(reg, k)
           g == Get(dropped, load.on)
<1>1. /\ load \in LoadRecord /\ load.on \in Trusted /\ load.cands \in Seq(Trusted)
      /\ k \in Sockets /\ ~Pending(reg, k) /\ closed \in BOOLEAN
      /\ Sound(reg, closed, closing)
      /\ UNCHANGED <<truth, mode, topologyValue, lastSuccess, watched, closed, closing>>
  BY DEF Inv, TypeOK, LoadResumes, LoadRecord
<1>2. State(reg, k) \in {"refused", "open", "draining", "closed"}
  BY <1>1 DEF Sound, Registry, State, States, Pending
<1>3. State(reg, k) # "refused" => Sound(dropped, closed, closing)
  BY <1>1, DropSound
<1>4. CASE State(reg, k) = "open"
  <2>1. load' = [load EXCEPT !.pc = "got"] /\ reg' = reg /\ call' = call
    BY <1>4 DEF LoadResumes
  <2>2. LoadOK
    BY <1>1, <2>1 DEF LoadOK, LoadRecord
  <2> QED BY <1>1, <2>1, <2>2, UnchangedCalls, OtherStep DEF Inv, TypeOK
<1>5. CASE State(reg, k) = "refused"
  <2>1. TryNext(reg, load.cands)
    BY <1>5 DEF LoadResumes
  <2> QED BY <1>1, <2>1, TryNextWell, OtherStep DEF Inv, TypeOK
<1>6. CASE State(reg, k) \in {"draining", "closed"} /\ load.again /\ ~closed
  <2>1. /\ Fresh(dropped) # {} /\ reg' = g.reg /\ call' = call
        /\ load' = [load EXCEPT !.pc = g.pc, !.conn = g.conn, !.again = FALSE]
    BY <1>6 DEF LoadResumes
  <2>2. Sound(g.reg, closed, closing) /\ g.conn \in Sockets /\ g.pc \in {"getting", "got"}
    BY <1>1, <1>3, <1>6, <2>1, GetSound
  <2> HIDE DEF g
  <2>3. g.conn \in Names /\ FALSE \in BOOLEAN
        /\ g.pc \in {"idle", "getting", "got", "asked", "answered", "arrived", "warming"}
    BY <2>2 DEF Names
  <2>4. LoadOK
    BY <1>1, <2>1, <2>2, <2>3 DEF LoadOK, LoadRecord
  <2> QED BY <1>1, <2>1, <2>2, <2>4, UnchangedCalls, OtherStep DEF Inv, TypeOK
<1>7. CASE State(reg, k) \in {"draining", "closed"} /\ ~(load.again /\ ~closed)
  <2>1. TryNext(dropped, load.cands)
    BY <1>7 DEF LoadResumes
  <2> QED BY <1>1, <1>3, <1>7, <2>1, TryNextWell, OtherStep DEF Inv, TypeOK
<1> QED BY <1>2, <1>4, <1>5, <1>6, <1>7

LEMMA AskInv ==
    ASSUME Inv, TurnStep, Ask
    PROVE  Preserved
<1>1. /\ load \in LoadRecord /\ load.pc = "got" /\ load.cands \in Seq(Trusted)
      /\ load.conn \in Sockets /\ Sound(reg, closed, closing)
      /\ UNCHANGED <<truth, mode, topologyValue, lastSuccess, watched, closed, closing>>
  BY DEF Inv, TypeOK, Ask, LoadRecord
<1>2. CASE Available(reg, load.conn)
  <2>1. load' = [load EXCEPT !.pc = "asked"] /\ reg' = reg /\ call' = call
    BY <1>2 DEF Ask
  <2>2. LoadOK
    BY <1>1, <2>1 DEF LoadOK, LoadRecord
  <2> QED BY <1>1, <2>1, <2>2, UnchangedCalls, OtherStep DEF Inv, TypeOK
<1>3. CASE ~Available(reg, load.conn)
  <2>1. TryNext(reg, load.cands)
    BY <1>3 DEF Ask
  <2> QED BY <1>1, <2>1, TryNextWell, OtherStep DEF Inv, TypeOK
<1> QED BY <1>2, <1>3

LEMMA ExecuteShardsInv ==
    ASSUME Inv, TurnStep, ExecuteShards
    PROVE  Preserved
<1>1. /\ load \in LoadRecord /\ load.pc = "asked" /\ load.conn \in Sockets /\ truth \in Nat
      /\ load' = [load EXCEPT !.pc = "answered", !.view = truth]
      /\ UNCHANGED <<truth, mode, topologyValue, lastSuccess, watched, call, reg, closed, closing>>
  BY DEF Inv, TypeOK, ExecuteShards
<1>2. LoadOK
  BY <1>1 DEF LoadOK, LoadRecord
<1> QED BY <1>1, <1>2, UnchangedCalls, OtherStep DEF Inv, TypeOK

LEMMA ShardsLostInv ==
    ASSUME Inv, TurnStep, ShardsLost
    PROVE  Preserved
<1>1. /\ TryNext(reg, load.cands) /\ load.cands \in Seq(Trusted) /\ Sound(reg, closed, closing)
      /\ UNCHANGED <<truth, mode, topologyValue, lastSuccess, watched, closed, closing>>
  BY DEF Inv, TypeOK, ShardsLost, LoadRecord
<1> QED BY <1>1, TryNextWell, OtherStep DEF Inv, TypeOK

\* The answer has come: no topology has been installed in this turn.
LEMMA ShardsArriveInv ==
    ASSUME Inv, TurnStep, ShardsArrive
    PROVE  Preserved
<1>1. /\ load \in LoadRecord /\ load.conn \in Sockets /\ TypeOK /\ Sound(reg, closed, closing)
      /\ load' = [load EXCEPT !.pc = "arrived"]
      /\ UNCHANGED <<truth, mode, topologyValue, lastSuccess, watched, call, reg, closed, closing>>
  BY DEF Inv, TypeOK, ShardsArrive
<1>2. load' \in LoadRecord /\ load'.conn = load.conn
  BY <1>1 DEF LoadRecord
<1>3. CallsStay
  BY <1>1, UnchangedCalls
<1>4. NextEvent
  BY <1>1, FrameIsEvent DEF ShardsArrive
<1>5. TypeOK' /\ OneInstallATurn'
  BY <1>1, <1>2, <1>4 DEF TypeOK, Owner, NextEvent, OneInstallATurn
<1> QED BY <1>1, <1>3, <1>5, StayingCalls DEF Inv, Preserved, CallsStay

\* A topology is installed only if it is admitted.
LEMMA InstallInv ==
    ASSUME Inv, TurnStep, Install
    PROVE  Preserved
<1> DEFINE g == Get(reg, Owner(load.view))
           r == Removed(reg, load.view)
           admitted == Owner(load.view) \in Trusted
<1>1. /\ load \in LoadRecord /\ load.pc = "arrived" /\ load.cands \in Seq(Trusted)
      /\ load.conn \in Sockets /\ Sound(reg, closed, closing) /\ closed \in BOOLEAN /\ TypeOK
      /\ UNCHANGED <<truth, mode, closed, closing>>
  BY DEF Inv, TypeOK, Install, LoadRecord
<1>2. load.on \in Trusted /\ load.view \in Nat
  BY <1>1 DEF LoadRecord
<1>3. GoesOn /\ turn'.of = None
  BY ContinuesGoesOn DEF Install
<1>4. CASE ~admitted
  <2>1. TryNext(reg, load.cands) /\ UNCHANGED <<topologyValue, lastSuccess, watched>>
    BY <1>4 DEF Install
  <2> QED BY <1>1, <2>1, TryNextWell, OtherStep DEF TypeOK
<1>5. CASE admitted /\ closed
  <2>1. EndLoad(FALSE) /\ UNCHANGED <<topologyValue, lastSuccess, reg, watched>>
    BY <1>5 DEF Install
  <2>2. LoadOK /\ CallsStay
    BY <2>1, EndLoadWell
  <2> QED BY <1>1, <2>1, <2>2, OtherStep DEF TypeOK
<1>6. CASE admitted /\ ~closed /\ load.view = topologyValue
  <2>1. /\ EndLoad(TRUE)
        /\ lastSuccess' = load.on
        /\ UNCHANGED <<topologyValue, reg, watched>>
    BY <1>6 DEF Install
  <2>2. LoadOK /\ CallsStay
    BY <2>1, EndLoadWell
  <2>3. TypeOK'
    BY <1>1, <1>2, <1>3, <2>1, <2>2, StayingCalls DEF TypeOK, LoadOK, CallsStay, Owner, GoesOn
  <2> QED BY <1>1, <2>1, <2>2, <2>3, StayingCalls, OneInstallStays DEF Inv, Preserved, CallsStay
<1>7. CASE admitted /\ ~closed /\ load.view # topologyValue
  <2>1. topologyValue' = load.view /\ lastSuccess' = load.on
    BY <1>7 DEF Install
  <2>2. /\ Sound(reg', closed, closing) /\ LoadOK /\ CallsStay /\ watched' \in SUBSET Sockets
        /\ load'.pc # "arrived"
    <3>1. CASE mode.warm
      <4>1. /\ Fresh(reg) # {} /\ reg' = g.reg /\ watched' = watched /\ call' = call
            /\ load' = [load EXCEPT !.pc = "warming", !.conn = g.conn]
        BY <1>7, <3>1 DEF Install
      <4>2. Sound(g.reg, closed, closing) /\ g.conn \in Sockets
        BY <1>1, <1>7, <4>1, GetSound
      <4> HIDE DEF g
      <4>3. LoadOK
        BY <1>1, <4>1, <4>2 DEF LoadOK, LoadRecord, Names
      <4>4. load'.pc = "warming"
        BY <1>1, <4>1 DEF LoadRecord
      <4> QED BY <1>1, <4>1, <4>2, <4>3, <4>4, UnchangedCalls DEF TypeOK
    <3>2. CASE ~mode.warm
      <4>1. reg' = r.reg /\ watched' = watched \cup r.late /\ EndLoad(TRUE)
        BY <1>7, <3>2 DEF Install
      <4>2. Sound(r.reg, closed, closing) /\ r.late \in SUBSET Sockets
        BY <1>1, <1>7, RemovedSound
      <4>3. load' = Idle
        BY <4>1 DEF EndLoad
      <4> QED BY <1>1, <4>1, <4>2, <4>3, EndLoadWell, IdleIsALoad DEF TypeOK
    <3> QED BY <3>1, <3>2
  <2>3. TypeOK'
    BY <1>1, <1>2, <1>3, <1>7, <2>1, <2>2, StayingCalls
       DEF TypeOK, LoadOK, CallsStay, Owner, Sound, GoesOn
  <2>4. OneInstallATurn'
    BY <1>3, <2>2 DEF OneInstallATurn
  <2> QED BY <1>1, <1>3, <2>1, <2>2, <2>3, <2>4, StayingCalls DEF Inv, Preserved, CallsStay
<1> QED BY <1>4, <1>5, <1>6, <1>7

LEMMA WarmedInv ==
    ASSUME Inv, TurnStep, Warmed
    PROVE  Preserved
<1> DEFINE unavailable == State(reg, load.conn) \in {"draining", "closed"}
           kept == IF unavailable THEN DropUnavailable(reg, load.conn) ELSE reg
           r == Removed(kept, load.view)
<1>1. /\ load.pc = "warming" /\ load.conn \in Sockets /\ ~Pending(reg, load.conn)
      /\ Sound(reg, closed, closing) /\ closed \in BOOLEAN /\ watched \in SUBSET Sockets
      /\ EndLoad(~closed)
      /\ UNCHANGED <<truth, mode, topologyValue, lastSuccess, closed, closing>>
  BY DEF Inv, TypeOK, Warmed
<1>2. Sound(kept, closed, closing)
  BY <1>1, DropSound
<1>3. LoadOK /\ CallsStay
  BY <1>1, EndLoadWell
<1>4. CASE closed
  <2>1. reg' = kept /\ watched' = watched
    BY <1>4 DEF Warmed
  <2> QED BY <1>1, <1>2, <1>3, <2>1, OtherStep DEF Inv, TypeOK
<1>5. CASE ~closed
  <2>1. reg' = r.reg /\ watched' = watched \cup r.late
    BY <1>5 DEF Warmed
  <2> HIDE DEF kept
  <2>2. Sound(r.reg, closed, closing) /\ r.late \in SUBSET Sockets
    BY <1>1, <1>2, <1>5, RemovedSound
  <2> QED BY <1>1, <1>3, <2>1, <2>2, OtherStep DEF Inv, TypeOK
<1> QED BY <1>4, <1>5

---------------------------------------------------------------------------
(* Events, and what happens to connections.                                *)

LEMMA EventInv ==
    ASSUME Inv, TurnStep, Move \/ Event \/ DrainEnds
    PROVE  Preserved
<1>1. /\ UNCHANGED <<mode, topologyValue, lastSuccess, reg, watched, call, load, closed, closing>>
      /\ truth' \in Nat /\ TypeOK
  BY DEF Inv, TypeOK, Move, Event, DrainEnds
<1>2. LoadOK /\ CallsStay
  BY <1>1, UnchangedLoad, UnchangedCalls
<1>3. TypeOK'
  BY <1>1 DEF TypeOK, Owner, TurnStep, GoesOn, NextEvent
<1> QED BY <1>1, <1>2, <1>3, StayingCalls, OneInstallStays DEF Inv, Preserved, CallsStay

LEMMA DrainLoopInv ==
    ASSUME Inv, TurnStep, DrainLoop
    PROVE  Preserved
<1>1. /\ UNCHANGED <<truth, mode, topologyValue, lastSuccess, watched, call, closed, closing>>
      /\ TypeOK /\ Sound(reg, closed, closing)
  BY DEF Inv, DrainLoop
<1>2. Sound(reg', closed, closing) /\ LoadOK
  <2>1. CASE UNCHANGED <<reg, load>>
    BY <1>1, <2>1, UnchangedLoad
  <2>2. CASE ~closed /\ Refresh
    BY <2>2, RefreshWell
  <2>3. UNCHANGED <<reg, load>> \/ (~closed /\ Refresh)
    <3>1. CASE closed \/ ~requested
      BY <3>1 DEF DrainLoop
    <3>2. CASE ~closed /\ requested /\ LoadActive
      BY <3>2 DEF DrainLoop
    <3>3. CASE ~closed /\ requested /\ ~LoadActive
      BY <3>3 DEF DrainLoop
    <3> QED BY <3>1, <3>2, <3>3
  <2> QED BY <2>1, <2>2, <2>3
<1> QED BY <1>1, <1>2, UnchangedCalls, OtherStep DEF TypeOK

\* A step of the connections alone.
LEMMA ConnectionStep ==
    ASSUME Inv, TurnStep, Sound(reg', closed, closing'), closing' \in SUBSET Sockets,
           UNCHANGED <<truth, mode, topologyValue, lastSuccess, watched, call, load, closed>>
    PROVE  Preserved
BY UnchangedLoad, UnchangedCalls, OtherStep DEF Inv, TypeOK

\* A connection is over: it has come to nothing, has broken or has been closed.
LEMMA OverSound ==
    ASSUME NEW over \in BOOLEAN, NEW late, NEW r, Sound(r, over, late),
           NEW k \in Sockets, NEW end \in {"refused", "closed"},
           NEW s \in Registry, NEW rest,
           s.adapters = r.adapters,
           s.creations = IF Pending(r, k) THEN [r.creations EXCEPT ![r.conn[k].endpoint] = None]
                         ELSE r.creations,
           s.conn = [r.conn EXCEPT ![k] = Over(end)],
           s.retiring \in {r.retiring, r.retiring \ {k}},
           rest \in {late, late \ {k}}
    PROVE  Sound(s, over, rest)
<1>1. /\ r \in Registry /\ CreationsArePending(r) /\ AdaptersAreMade(r) /\ Keeps(r, over, late)
      /\ None \notin Sockets
  BY Constants DEF Sound
<1>2. /\ \A n \in Sockets : r.conn[n].endpoint \in Endpoints
      /\ \A e \in Endpoints : r.creations[e] \in Names /\ r.adapters[e] \in Names
  BY <1>1, Constants DEF Registry
<1>3. /\ \A n \in Sockets : n # k => s.conn[n] = r.conn[n]
      /\ s.conn[k].endpoint = Seed /\ s.conn[k].state = end
  BY <1>1 DEF Registry, Over
<1>4. /\ \A n \in Sockets : n # k => (State(s, n) = State(r, n) /\ (Pending(s, n) <=> Pending(r, n)))
      /\ State(s, k) = end /\ ~Pending(s, k)
  BY <1>3 DEF State, Pending
<1>5. \A e \in Endpoints : s.creations[e] = IF r.creations[e] = k THEN None ELSE r.creations[e]
  BY <1>1, <1>2 DEF CreationsArePending, Registry
<1>6. CreationsArePending(s)
  <2>1. ASSUME NEW e \in Endpoints, s.creations[e] # None
        PROVE  /\ Pending(s, s.creations[e]) /\ s.conn[s.creations[e]].endpoint = e
               /\ s.adapters[e] = None
    <3>1. r.creations[e] # k /\ s.creations[e] = r.creations[e] /\ r.creations[e] \in Sockets
      BY <1>2, <1>5, <2>1 DEF Names
    <3> QED BY <1>1, <1>3, <1>4, <2>1, <3>1 DEF CreationsArePending
  <2>2. ASSUME NEW n \in Sockets, Pending(s, n) PROVE s.creations[s.conn[n].endpoint] = n
    BY <1>1, <1>2, <1>3, <1>4, <1>5, <2>2 DEF CreationsArePending
  <2> QED BY <2>1, <2>2 DEF CreationsArePending
<1>7. AdaptersAreMade(s)
  BY <1>1, <1>2, <1>4 DEF AdaptersAreMade, Names
<1>8. Keeps(s, over, rest)
  <2> SUFFICES ASSUME NEW n \in Sockets, State(s, n) \in {"connecting", "aborted", "open", "draining"}
               PROVE  IF over THEN n \in rest
                      ELSE n \in {s.creations[s.conn[n].endpoint], s.adapters[s.conn[n].endpoint]}
                                    \cup s.retiring
    BY DEF Keeps
  <2>1. n # k
    BY <1>4
  <2>2. IF over THEN n \in late
        ELSE n \in {r.creations[r.conn[n].endpoint], r.adapters[r.conn[n].endpoint]} \cup r.retiring
    BY <1>1, <1>4, <2>1 DEF Keeps
  <2>3. CASE over
    BY <2>1, <2>2, <2>3
  <2>4. CASE ~over
    BY <1>2, <1>3, <1>5, <2>1, <2>2, <2>4
  <2> QED BY <2>3, <2>4
<1> QED BY <1>6, <1>7, <1>8 DEF Sound

\* A step after which one connection is over, and its creation with it.
LEMMA OverStep ==
    ASSUME Inv, TurnStep, NEW k \in Sockets, NEW end \in {"refused", "closed"},
           \/ ~Pending(reg, k) /\ reg' = [reg EXCEPT !.conn[k] = Over(end)]
           \/ ~Pending(reg, k) /\ reg' = [reg EXCEPT !.conn[k] = Over(end), !.retiring = @ \ {k}]
           \/ Pending(reg, k) /\ reg' = [reg EXCEPT !.conn[k] = Over(end),
                                                   !.creations[reg.conn[k].endpoint] = None],
           closing' \in {closing, closing \ {k}},
           UNCHANGED <<truth, mode, topologyValue, lastSuccess, watched, call, load, closed>>
    PROVE  Preserved
<1> DEFINE creations == IF Pending(reg, k) THEN [reg.creations EXCEPT ![reg.conn[k].endpoint] = None]
                        ELSE reg.creations
<1>1. /\ Sound(reg, closed, closing) /\ closed \in BOOLEAN /\ closing \in SUBSET Sockets
      /\ reg \in Registry
  BY DEF Inv, TypeOK
<1>2. Over(end) \in [endpoint : Trusted, state : States]
  BY Constants DEF Over, States
<1>3. /\ creations \in [Endpoints -> Names] /\ reg.retiring \ {k} \in SUBSET Sockets
      /\ [reg.conn EXCEPT ![k] = Over(end)] \in [Sockets -> [endpoint : Trusted, state : States]]
  BY <1>1, <1>2 DEF Registry, Names
<1>4. /\ reg'.adapters = reg.adapters /\ reg'.creations = creations
      /\ reg'.conn = [reg.conn EXCEPT ![k] = Over(end)]
      /\ reg'.retiring \in {reg.retiring, reg.retiring \ {k}}
  BY <1>1 DEF Registry
<1>5. reg' \in Registry
  BY <1>1, <1>3 DEF Registry
<1>6. Sound(reg', closed, closing')
  BY <1>1, <1>4, <1>5, OverSound
<1> QED BY <1>1, <1>6, ConnectionStep

\* A connection comes; after close() it is refused.
LEMMA CreationDoneInv ==
    ASSUME Inv, TurnStep, NEW k \in Sockets, CreationDone(k)
    PROVE  Preserved
<1> DEFINE e == reg.conn[k].endpoint
           creations == [reg.creations EXCEPT ![e] = None]
<1>1. /\ Pending(reg, k) /\ Sound(reg, closed, closing) /\ closed \in BOOLEAN
      /\ closing \in SUBSET Sockets /\ reg \in Registry
      /\ UNCHANGED <<truth, mode, topologyValue, lastSuccess, watched, call, load, closed>>
  BY DEF Inv, TypeOK, CreationDone
<1>2. e \in Endpoints /\ e \in Trusted
  BY <1>1, Constants DEF Registry
<1>3. creations \in [Endpoints -> Names]
  BY <1>1 DEF Registry, Names
<1>4. CASE closed
  <2>1. reg' = [reg EXCEPT !.conn[k] = Over("refused"), !.creations[e] = None]
        /\ closing' = closing \ {k}
    BY <1>4 DEF CreationDone
  <2> QED BY <1>1, <2>1, OverStep
<1>5. CASE ~closed
  <2>1. reg' = [reg EXCEPT !.conn[k].state = "open", !.creations[e] = None, !.adapters[e] = k]
        /\ closing' = closing
    BY <1>1, <1>5 DEF CreationDone
  <2>2. /\ reg'.adapters = [reg.adapters EXCEPT ![e] = k] /\ reg'.creations = creations
        /\ reg'.conn = [reg.conn EXCEPT ![k].state = "open"] /\ reg'.retiring = reg.retiring
    BY <1>1, <2>1 DEF Registry
  <2>3. /\ [reg.conn EXCEPT ![k].state = "open"] \in [Sockets -> [endpoint : Trusted, state : States]]
        /\ [reg.adapters EXCEPT ![e] = k] \in [Endpoints -> Names]
    BY <1>1 DEF Registry, States, Names
  <2>4. reg' \in Registry
    BY <1>1, <1>3, <2>1, <2>3 DEF Registry
  <2>5. /\ CreationsArePending(reg) /\ AdaptersAreMade(reg) /\ Keeps(reg, closed, closing)
        /\ None \notin Sockets
    BY <1>1, Constants DEF Sound
  <2>6. /\ \A n \in Sockets : reg.conn[n].endpoint \in Endpoints
        /\ \A d \in Endpoints : reg.creations[d] \in Names /\ reg.adapters[d] \in Names
    BY <1>1, Constants DEF Registry
  <2>7. reg.creations[e] = k /\ reg.adapters[e] = None
    BY <1>1, <1>2, <2>5 DEF CreationsArePending
  <2>8. /\ \A n \in Sockets : reg'.conn[n].endpoint = reg.conn[n].endpoint
        /\ \A n \in Sockets : n # k => /\ State(reg', n) = State(reg, n)
                                       /\ Pending(reg', n) <=> Pending(reg, n)
        /\ State(reg', k) = "open" /\ ~Pending(reg', k)
    BY <1>1, <2>2 DEF State, Pending, Registry
  <2>9. /\ \A d \in Endpoints : d # e => /\ reg'.creations[d] = reg.creations[d]
                                         /\ reg'.adapters[d] = reg.adapters[d]
        /\ reg'.creations[e] = None /\ reg'.adapters[e] = k
    BY <1>1, <1>2, <2>2 DEF Registry
  <2> HIDE DEF e
  <2>10. CreationsArePending(reg')
    <3>1. ASSUME NEW d \in Endpoints, reg'.creations[d] # None
          PROVE  /\ Pending(reg', reg'.creations[d]) /\ reg'.conn[reg'.creations[d]].endpoint = d
                 /\ reg'.adapters[d] = None
      <4>1. d # e /\ reg'.creations[d] = reg.creations[d] /\ reg.creations[d] \in Sockets
        BY <2>6, <2>9, <3>1 DEF Names
      <4>2. reg.creations[d] # k
        BY <2>5, <3>1, <4>1 DEF CreationsArePending, e
      <4> QED BY <2>5, <2>8, <2>9, <3>1, <4>1, <4>2 DEF CreationsArePending
    <3>2. ASSUME NEW n \in Sockets, Pending(reg', n) PROVE reg'.creations[reg'.conn[n].endpoint] = n
      <4>1. n # k /\ Pending(reg, n) /\ reg.creations[reg.conn[n].endpoint] = n
        BY <2>5, <2>8, <3>2 DEF CreationsArePending
      <4>2. reg.conn[n].endpoint # e
        BY <2>7, <4>1
      <4> QED BY <2>6, <2>8, <2>9, <4>1, <4>2
    <3> QED BY <3>1, <3>2 DEF CreationsArePending
  <2>11. AdaptersAreMade(reg')
    BY <2>5, <2>6, <2>8, <2>9 DEF AdaptersAreMade, Names
  <2>12. Keeps(reg', closed, closing)
    <3> SUFFICES ASSUME NEW n \in Sockets, State(reg', n) \in {"connecting", "aborted", "open", "draining"}
                 PROVE  n \in {reg'.creations[reg'.conn[n].endpoint], reg'.adapters[reg'.conn[n].endpoint]}
                                 \cup reg'.retiring
      BY <1>5 DEF Keeps
    <3>1. CASE n = k
      BY <2>8, <2>9, <3>1 DEF e
    <3>2. CASE n # k
      <4>1. n \in {reg.creations[reg.conn[n].endpoint], reg.adapters[reg.conn[n].endpoint]} \cup reg.retiring
        BY <1>5, <2>5, <2>8, <3>2 DEF Keeps
      <4>2. n # None
        BY <2>5
      <4> QED BY <2>2, <2>6, <2>7, <2>8, <2>9, <3>2, <4>1, <4>2
    <3> QED BY <3>1, <3>2
  <2> QED BY <1>1, <2>1, <2>4, <2>10, <2>11, <2>12, ConnectionStep DEF Sound
<1> QED BY <1>4, <1>5

\* A creation fails, a socket breaks, or an adapter closes once it has drained.
LEMMA EndsInv ==
    ASSUME Inv, TurnStep, NEW k \in Sockets, CreationFails(k) \/ Break(k) \/ Drained(k)
    PROVE  Preserved
<1>1. CASE CreationFails(k)
  BY <1>1, OverStep DEF CreationFails
<1>2. CASE Break(k) \/ Drained(k)
  <2>1. ~Pending(reg, k)
    BY <1>2 DEF Break, Frame, Drained, Pending
  <2> QED BY <1>2, <2>1, OverStep DEF Break, Drained
<1> QED BY <1>1, <1>2

\* An adapter drains that the registry still takes for an open one.
LEMMA GoAwayInv ==
    ASSUME Inv, TurnStep, NEW k \in Sockets, GoAway(k)
    PROVE  Preserved
<1>1. /\ Sound(reg, closed, closing) /\ closing \in SUBSET Sockets /\ State(reg, k) = "open"
      /\ UNCHANGED <<truth, mode, topologyValue, lastSuccess, watched, call, load, closed, closing>>
  BY DEF Inv, TypeOK, GoAway
<1>2. reg \in Registry /\ CreationsArePending(reg) /\ AdaptersAreMade(reg) /\ Keeps(reg, closed, closing)
  BY <1>1 DEF Sound
<1>3. [reg.conn EXCEPT ![k].state = "draining"] \in [Sockets -> [endpoint : Trusted, state : States]]
  BY <1>2 DEF Registry, States
<1>4. /\ reg'.adapters = reg.adapters /\ reg'.creations = reg.creations
      /\ reg'.retiring = reg.retiring /\ reg'.conn = [reg.conn EXCEPT ![k].state = "draining"]
  BY <1>2 DEF GoAway, Registry
<1>5. reg' \in Registry
  BY <1>2, <1>3 DEF GoAway, Registry
<1>6. \A n \in Sockets : /\ reg'.conn[n].endpoint = reg.conn[n].endpoint
                         /\ n # k => State(reg', n) = State(reg, n)
                         /\ Pending(reg', n) <=> Pending(reg, n)
  BY <1>1, <1>2, <1>4 DEF State, Pending, Registry
<1>7. \A e \in Endpoints : reg.creations[e] \in Names /\ reg.adapters[e] \in Names
  BY <1>2 DEF Registry
<1>8. CreationsArePending(reg') /\ AdaptersAreMade(reg')
  BY <1>2, <1>4, <1>6, <1>7 DEF CreationsArePending, AdaptersAreMade, Names
<1>9. Keeps(reg', closed, closing)
  <2> SUFFICES ASSUME NEW n \in Sockets, State(reg', n) \in {"connecting", "aborted", "open", "draining"}
               PROVE  IF closed THEN n \in closing
                      ELSE n \in {reg'.creations[reg'.conn[n].endpoint], reg'.adapters[reg'.conn[n].endpoint]}
                                    \cup reg'.retiring
    BY DEF Keeps
  <2>1. State(reg, n) \in {"connecting", "aborted", "open", "draining"}
    BY <1>1, <1>6
  <2> QED BY <1>2, <1>4, <1>6, <2>1 DEF Keeps
<1> QED BY <1>1, <1>5, <1>8, <1>9, ConnectionStep DEF Sound

LEMMA LookAtLateInv ==
    ASSUME Inv, TurnStep, NEW k \in Sockets, LookAtLate(k)
    PROVE  Preserved
<1>1. /\ Sound(reg, closed, closing) /\ closed \in BOOLEAN /\ ~Pending(reg, k)
      /\ watched' = watched \ {k} /\ watched \in SUBSET Sockets /\ closing \in SUBSET Sockets
      /\ reg' \in {reg, DropUnavailable(reg, k)}
      /\ State(reg, k) = "refused" => reg' = reg
      /\ UNCHANGED <<truth, mode, topologyValue, lastSuccess, call, load, closed, closing>>
  BY DEF Inv, TypeOK, LookAtLate, DropUnavailable
<1>2. State(reg, k) # "refused" => Sound(DropUnavailable(reg, k), closed, closing)
  BY <1>1, DropSound
<1>3. Sound(reg', closed, closing)
  BY <1>1, <1>2
<1> QED BY <1>1, <1>3, UnchangedLoad, UnchangedCalls, OtherStep

\* close() takes what the registry knew, which is everything in use.
LEMMA CloseInv ==
    ASSUME Inv, TurnStep, Close
    PROVE  Preserved
<1> DEFINE made == {reg.adapters[e] : e \in Endpoints} \ {None}
           late == {reg.creations[e] : e \in Endpoints} \ {None}
           adapters == [e \in Endpoints |-> None]
           conns == [k \in Sockets |-> IF k \in late THEN [reg.conn[k] EXCEPT !.state = "aborted"]
                                       ELSE reg.conn[k]]
<1>1. /\ Sound(reg, closed, closing) /\ ~closed /\ closed' = TRUE
      /\ closing' = made \cup reg.retiring \cup late
      /\ watched \in SUBSET Sockets
      /\ UNCHANGED <<truth, mode, topologyValue, lastSuccess, watched, call, load>>
  BY DEF Inv, TypeOK, Close
<1>2. /\ reg \in Registry /\ CreationsArePending(reg) /\ AdaptersAreMade(reg)
      /\ Keeps(reg, closed, closing) /\ None \notin Sockets
  BY <1>1, Constants DEF Sound
<1>3. reg' = [reg EXCEPT !.adapters = adapters, !.retiring = {}, !.conn = conns]
  BY <1>2 DEF Close, Registry
<1>4. /\ made \in SUBSET Sockets /\ late \in SUBSET Sockets
      /\ \A k \in late : Pending(reg, k) /\ (\E e \in Endpoints : reg.creations[e] = k)
  BY <1>2 DEF Registry, Names, CreationsArePending
<1>5. ASSUME NEW k \in Sockets
      PROVE  /\ conns[k] \in [endpoint : Trusted, state : States]
             /\ conns[k].endpoint = reg.conn[k].endpoint
             /\ conns[k].state = IF k \in late THEN "aborted" ELSE reg.conn[k].state
  <2>1. reg.conn[k] \in [endpoint : Trusted, state : States]
    BY <1>2 DEF Registry
  <2> QED BY <2>1 DEF States
<1>6. conns \in [Sockets -> [endpoint : Trusted, state : States]]
  BY <1>5
<1>7. adapters \in [Endpoints -> Names]
  BY DEF Names
<1> HIDE DEF conns
<1>8. /\ reg'.adapters = adapters /\ reg'.creations = reg.creations /\ reg'.conn = conns
      /\ reg' \in Registry
  BY <1>2, <1>3, <1>6, <1>7 DEF Registry
<1>9. \A k \in Sockets : reg'.conn[k].endpoint = reg.conn[k].endpoint /\ (Pending(reg', k) <=> Pending(reg, k))
  <2> SUFFICES ASSUME NEW k \in Sockets
               PROVE  reg'.conn[k].endpoint = reg.conn[k].endpoint /\ (Pending(reg', k) <=> Pending(reg, k))
    OBVIOUS
  <2> HIDE DEF late
  <2> QED BY <1>4, <1>5, <1>8 DEF Pending, State
<1>10. \A e \in Endpoints : reg.creations[e] \in Names
  BY <1>2 DEF Registry
<1>11. CreationsArePending(reg') /\ AdaptersAreMade(reg')
  BY <1>2, <1>8, <1>9, <1>10 DEF CreationsArePending, AdaptersAreMade, Names
<1>12. Keeps(reg', TRUE, closing')
  <2> SUFFICES ASSUME NEW k \in Sockets, State(reg', k) \in {"connecting", "aborted", "open", "draining"}
               PROVE  k \in made \cup reg.retiring \cup late
    BY <1>1 DEF Keeps
  <2>1. CASE k \in late
    BY <2>1
  <2>2. CASE k \notin late
    <3>1. State(reg, k) = State(reg', k)
      BY <1>5, <1>8, <2>2 DEF State
    <3>2. k \in {reg.creations[reg.conn[k].endpoint], reg.adapters[reg.conn[k].endpoint]} \cup reg.retiring
      BY <1>1, <1>2, <3>1 DEF Keeps
    <3>3. reg.conn[k].endpoint \in Endpoints
      BY <1>2, Constants DEF Registry
    <3> QED BY <1>2, <3>2, <3>3
  <2> QED BY <2>1, <2>2
<1>13. Sound(reg', closed', closing') /\ closed' \in BOOLEAN
  BY <1>1, <1>8, <1>11, <1>12 DEF Sound
<1>14. closing' \in SUBSET Sockets
  BY <1>1, <1>2, <1>4 DEF Registry
<1> QED BY <1>1, <1>13, <1>14, UnchangedLoad, UnchangedCalls, OtherStep

LEMMA CloseAdapterInv ==
    ASSUME Inv, TurnStep, NEW k \in Sockets, CloseAdapter(k)
    PROVE  Preserved
<1>1. /\ ~Pending(reg, k) /\ closing' = closing \ {k} /\ Sound(reg, closed, closing)
      /\ closing \in SUBSET Sockets /\ closed \in BOOLEAN
      /\ UNCHANGED <<truth, mode, topologyValue, lastSuccess, watched, call, load, closed>>
  BY DEF Inv, TypeOK, CloseAdapter
<1>2. CASE State(reg, k) = "refused"
  <2>1. reg' = reg
    BY <1>2 DEF CloseAdapter
  <2>2. Keeps(reg, closed, closing \ {k})
    BY <1>1, <1>2 DEF Sound, Keeps
  <2> QED BY <1>1, <2>1, <2>2, ConnectionStep DEF Sound
<1>3. CASE State(reg, k) # "refused"
  BY <1>1, <1>3, OverStep DEF CloseAdapter
<1> QED BY <1>2, <1>3

---------------------------------------------------------------------------
(* The calls.                                                              *)

\* What the invariant and the step ask of the record that a call gets.
Fits(c, r) ==
    /\ r \in CallRecord
    /\ r.pc \in {"getting", "got", "checked", "sent", "executed"} => r.conn \in Sockets
    /\ r.executed <= 1
    /\ r.pc \in Unsent \cup {"sent"} => r.executed = 0
    /\ r.pc \in {"error", "refreshing"} /\ ExplicitlySafe(r.error) => r.executed = 0
    /\ mode.kind[c] = "cas" => r.sends <= 1 /\ (r.pc \in Unsent => r.sends = 0)
    /\ r.pc = "checked" /\ mode.kind[c] # "control" =>
          \/ r.route = Owner(topologyValue)
          \/ call[c].pc = "checked" /\ r.route = call[c].route
    /\ r.sends # call[c].sends => call[c].pc = "checked"

LEMMA CallFits == ASSUME Inv, NEW c \in Calls PROVE Fits(c, call[c])
<1>1. ExecutesOnce(c) /\ RouteIsCurrent(c) /\ TypeOK
  BY DEF Inv
<1> QED BY <1>1 DEF Fits, ExecutesOnce, RouteIsCurrent, TypeOK

\* A step of one call, which may take a connection or start a load.
LEMMA CallStep ==
    ASSUME Inv, TurnStep, NEW c \in Calls, NEW r, Fits(c, r), call' = [call EXCEPT ![c] = r],
           Sound(reg', closed, closing), LoadOK,
           UNCHANGED <<truth, mode, topologyValue, lastSuccess, watched, closed, closing>>
    PROVE  Preserved
<1>1. TypeOK /\ (\A d \in Calls : ExecutesOnce(d) /\ RouteIsCurrent(d)) /\ r \in CallRecord
  BY DEF Inv, Fits
<1>2. call' \in [Calls -> CallRecord] /\ call'[c] = r /\ \A d \in Calls : d # c => call'[d] = call[d]
  BY <1>1 DEF TypeOK
<1>3. TypeOK'
  BY <1>1, <1>2 DEF TypeOK, LoadOK, Sound, Owner, Fits, TurnStep, GoesOn, NextEvent
<1>4. ASSUME NEW d \in Calls PROVE ExecutesOnce(d)' /\ RouteIsCurrent(d)'
  <2>1. CASE d = c
    BY <1>2, <2>1, RoutesStay DEF Fits, ExecutesOnce, RouteIsCurrent, Owner
  <2>2. CASE d # c
    BY <1>1, <1>2, <2>2, RoutesStay DEF ExecutesOnce, RouteIsCurrent, Owner
  <2> QED BY <2>1, <2>2
<1>5. \A d \in Calls : call'[d].sends # call[d].sends => call[d].pc = "checked"
  BY <1>2 DEF Fits
<1> QED BY <1>3, <1>4, <1>5, OneInstallStays DEF Inv, Preserved

\* The same, when the call has not touched the registry.
LEMMA CallAlone ==
    ASSUME Inv, TurnStep, NEW c \in Calls, NEW r, Fits(c, r), call' = [call EXCEPT ![c] = r],
           UNCHANGED <<Calling, reg>>
    PROVE  Preserved
<1>1. UNCHANGED <<truth, mode, topologyValue, lastSuccess, watched, load, closed, closing, reg>>
  BY DEF Calling
<1>2. Sound(reg', closed, closing)
  BY <1>1 DEF Inv
<1> QED BY <1>1, <1>2, CallStep, UnchangedLoad

\* A call settles.
LEMMA FinishFits ==
    ASSUME Inv, NEW c \in Calls, NEW p \in {"done", "failed"}, Finish(c, p)
    PROVE  \E r : Fits(c, r) /\ call' = [call EXCEPT ![c] = r]
<1> DEFINE r == [call[c] EXCEPT !.pc = p, !.route = Seed, !.conn = None, !.again = FALSE,
                                !.planning = 0, !.error = "none", !.cands = <<>>,
                                !.refreshed = "none"]
<1>1. Fits(c, call[c]) /\ call[c] \in CallRecord
  BY CallFits DEF Fits
<1>2. call' = [call EXCEPT ![c] = r]
  BY DEF Finish
<1>3. <<>> \in Seq(Trusted) /\ Seed \in Trusted /\ None \in Names /\ FALSE \in BOOLEAN
  BY Constants DEF Names
<1>4. r \in CallRecord
  BY <1>1, <1>3 DEF CallRecord
<1>5. r.pc = p /\ r.executed = call[c].executed /\ r.sends = call[c].sends
  BY <1>1 DEF CallRecord
<1> HIDE DEF r
<1>6. Fits(c, r)
  BY <1>1, <1>4, <1>5 DEF Fits, Unsent
<1> QED BY <1>2, <1>6

\* A call that has not been sent waits for the adapter of an endpoint that is admitted.
LEMMA ReachInv ==
    ASSUME Inv, TurnStep, NEW c \in Calls, ~closed, NEW r, Sound(r, closed, closing), NEW e \in Trusted,
           NEW change \in CallRecord,
           change.executed = call[c].executed, change.sends = call[c].sends,
           call[c].pc \in Unsent, Reach(c, r, e, change), UNCHANGED Calling
    PROVE  Preserved
<1> DEFINE g == Get(r, e)
           n == [change EXCEPT !.pc = g.pc, !.conn = g.conn, !.again = TRUE]
<1>1. closed \in BOOLEAN /\ Fits(c, call[c])
  BY CallFits DEF Inv, TypeOK
<1>2. Fresh(r) # {} /\ reg' = g.reg /\ call' = [call EXCEPT ![c] = n]
  BY DEF Reach
<1>3. Sound(g.reg, closed, closing) /\ g.conn \in Sockets /\ g.pc \in {"getting", "got"}
  BY <1>1, <1>2, GetSound
<1> HIDE DEF g
<1>4. g.conn \in Names /\ TRUE \in BOOLEAN
      /\ g.pc \in {"idle", "plan", "getting", "got", "checked", "sent", "executed", "error",
                   "refreshing", "done", "failed"}
  BY <1>3 DEF Names
<1>5. n \in CallRecord
  BY <1>4 DEF CallRecord
<1>6. n.pc = g.pc /\ n.conn = g.conn /\ n.executed = call[c].executed /\ n.sends = call[c].sends
  BY DEF CallRecord
<1> HIDE DEF n
<1>7. Fits(c, n)
  BY <1>1, <1>3, <1>5, <1>6 DEF Fits, Unsent
<1> QED BY <1>2, <1>3, <1>7, CallStep, UnchangedLoad DEF Calling

LEMMA PlanInv ==
    ASSUME Inv, TurnStep, NEW c \in Calls, Plan(c)
    PROVE  Preserved
<1>1. /\ call[c].pc \in Unsent /\ call[c] \in CallRecord /\ Sound(reg, closed, closing)
      /\ Owner(topologyValue) \in Trusted /\ UNCHANGED Calling
  BY DEF Inv, TypeOK, Plan, Unsent
<1>2. /\ Head(RefreshCandidates) \in Trusted /\ Tail(RefreshCandidates) \in Seq(Trusted)
      /\ Seed \in Trusted
  BY CandidatesAreTrusted, Constants
<1>3. CASE closed \/ (mode.kind[c] # "control" /\ call[c].planning = MaxPlanning)
  <2>1. Finish(c, "failed") /\ reg' = reg
    BY <1>3 DEF Plan
  <2>2. PICK r : Fits(c, r) /\ call' = [call EXCEPT ![c] = r]
    BY <2>1, FinishFits
  <2> QED BY <1>1, <2>1, <2>2, CallAlone
<1>4. CASE ~closed /\ mode.kind[c] = "control"
  <2> DEFINE e == Head(RefreshCandidates)
             rest == Append(Tail(RefreshCandidates), Seed)
             change == [call[c] EXCEPT !.route = e, !.cands = rest]
  <2>1. Reach(c, reg, e, change)
    BY <1>4 DEF Plan
  <2>2. rest \in Seq(Trusted)
    BY <1>2
  <2> HIDE DEF e, rest
  <2>3. /\ change \in CallRecord
        /\ change.executed = call[c].executed /\ change.sends = call[c].sends
    BY <1>1, <1>2, <2>2 DEF CallRecord, e
  <2> HIDE DEF change
  <2> QED BY <1>1, <1>2, <1>4, <2>1, <2>3, ReachInv DEF e
<1>5. CASE ~closed /\ mode.kind[c] # "control" /\ call[c].planning # MaxPlanning
  <2> DEFINE e == Owner(topologyValue)
             change == [call[c] EXCEPT !.route = e]
  <2>1. Reach(c, reg, e, change)
    BY <1>5 DEF Plan
  <2>2. /\ change \in CallRecord
        /\ change.executed = call[c].executed /\ change.sends = call[c].sends
    BY <1>1 DEF CallRecord
  <2> HIDE DEF change
  <2> QED BY <1>1, <1>5, <2>1, <2>2, ReachInv
<1> QED BY <1>3, <1>4, <1>5

LEMMA NoAdapterInv ==
    ASSUME Inv, TurnStep, NEW c \in Calls, call[c].pc \in Unsent, NEW r, Sound(r, closed, closing),
           NoAdapter(c, r), UNCHANGED Calling
    PROVE  Preserved
<1>1. call[c] \in CallRecord /\ call[c].cands \in Seq(Trusted)
  BY DEF Inv, TypeOK, CallRecord
<1>2. CASE mode.kind[c] = "control" /\ call[c].cands # <<>> /\ ~closed
  <2> DEFINE e == Head(call[c].cands)
             rest == Tail(call[c].cands)
             change == [call[c] EXCEPT !.route = e, !.cands = rest]
  <2>1. Reach(c, r, e, change)
    BY <1>1, <1>2 DEF NoAdapter, CallRecord
  <2>2. e \in Trusted /\ rest \in Seq(Trusted)
    BY <1>1, <1>2
  <2> HIDE DEF e, rest
  <2>3. /\ change \in CallRecord
        /\ change.executed = call[c].executed /\ change.sends = call[c].sends
    BY <1>1, <2>2 DEF CallRecord
  <2> HIDE DEF change
  <2> QED BY <1>2, <2>1, <2>2, <2>3, ReachInv
<1>3. CASE ~(mode.kind[c] = "control" /\ call[c].cands # <<>> /\ ~closed)
  <2>1. Finish(c, "failed") /\ reg' = r
    BY <1>3 DEF NoAdapter
  <2>2. PICK n : Fits(c, n) /\ call' = [call EXCEPT ![c] = n]
    BY <2>1, FinishFits
  <2> QED BY <2>1, <2>2, CallStep, UnchangedLoad DEF Calling
<1> QED BY <1>2, <1>3

LEMMA ResumeInv ==
    ASSUME Inv, TurnStep, NEW c \in Calls, Resume(c)
    PROVE  Preserved
<1> DEFINE k == call[c].conn
           dropped == DropUnavailable(reg, k)
           g == Get(dropped, call[c].route)
<1>1. /\ call[c] \in CallRecord /\ call[c].pc = "getting" /\ k \in Sockets /\ ~Pending(reg, k)
      /\ closed \in BOOLEAN /\ Sound(reg, closed, closing) /\ call[c].route \in Trusted
      /\ Fits(c, call[c]) /\ UNCHANGED Calling
  BY CallFits DEF Inv, TypeOK, Resume, CallRecord
<1>2. State(reg, k) \in {"refused", "open", "draining", "closed"}
  BY <1>1 DEF Sound, Registry, State, States, Pending
<1>3. State(reg, k) # "refused" => Sound(dropped, closed, closing)
  BY <1>1, DropSound
<1>4. call[c].pc \in Unsent
  BY <1>1 DEF Unsent
<1>5. CASE State(reg, k) = "open"
  <2> DEFINE n == [call[c] EXCEPT !.pc = "got"]
  <2>1. call' = [call EXCEPT ![c] = n] /\ reg' = reg
    BY <1>5 DEF Resume, Set
  <2>2. Fits(c, n)
    BY <1>1 DEF Fits, CallRecord, Unsent
  <2> HIDE DEF n
  <2> QED BY <1>1, <2>1, <2>2, CallAlone
<1>6. CASE State(reg, k) = "refused"
  <2>1. NoAdapter(c, reg)
    BY <1>6 DEF Resume
  <2> QED BY <1>1, <1>4, <2>1, NoAdapterInv
<1>7. CASE State(reg, k) \in {"draining", "closed"} /\ call[c].again /\ ~closed
  <2> DEFINE n == [call[c] EXCEPT !.pc = g.pc, !.conn = g.conn, !.again = FALSE]
  <2>1. /\ Fresh(dropped) # {} /\ reg' = g.reg
        /\ call' = [call EXCEPT ![c].pc = g.pc, ![c].conn = g.conn, ![c].again = FALSE]
    BY <1>7 DEF Resume
  <2>2. Sound(g.reg, closed, closing) /\ g.conn \in Sockets /\ g.pc \in {"getting", "got"}
    BY <1>1, <1>3, <1>7, <2>1, GetSound
  <2> HIDE DEF g
  <2>3. call \in [Calls -> CallRecord]
    BY DEF Inv, TypeOK
  <2>4. call' = [call EXCEPT ![c] = n]
    BY <2>1, <2>3
  <2>5. g.conn \in Names /\ FALSE \in BOOLEAN
        /\ g.pc \in {"idle", "plan", "getting", "got", "checked", "sent", "executed", "error",
                     "refreshing", "done", "failed"}
    BY <2>2 DEF Names
  <2>6. n \in CallRecord
    BY <1>1, <2>5 DEF CallRecord
  <2>7. n.pc = g.pc /\ n.conn = g.conn /\ n.executed = call[c].executed /\ n.sends = call[c].sends
    BY <1>1 DEF CallRecord
  <2> HIDE DEF n
  <2>8. Fits(c, n)
    BY <1>1, <2>2, <2>6, <2>7 DEF Fits, Unsent
  <2> QED BY <1>1, <2>1, <2>2, <2>4, <2>8, CallStep, UnchangedLoad DEF Calling
<1>8. CASE State(reg, k) \in {"draining", "closed"} /\ ~(call[c].again /\ ~closed)
  <2>1. NoAdapter(c, dropped)
    BY <1>8 DEF Resume
  <2>2. Sound(dropped, closed, closing)
    BY <1>3, <1>8
  <2> HIDE DEF dropped
  <2> QED BY <1>1, <1>4, <2>1, <2>2, NoAdapterInv
<1> QED BY <1>2, <1>5, <1>6, <1>7, <1>8

\* What a step adds to a number of a call.
LEMMA Numbers ==
    ASSUME NEW r \in CallRecord
    PROVE  /\ r.planning + 1 \in Nat /\ r.sends + 1 \in Nat /\ r.executed + 1 \in Nat
           /\ r.sends = 0 => r.sends + 1 <= 1
           /\ r.executed = 0 => r.executed + 1 <= 1
<1>1. r.planning \in Nat /\ r.sends \in Nat /\ r.executed \in Nat
  BY DEF CallRecord
<1> QED BY <1>1

\* The second look at the route.
LEMMA RecheckInv ==
    ASSUME Inv, TurnStep, NEW c \in Calls, Recheck(c)
    PROVE  Preserved
<1>1. /\ call[c] \in CallRecord /\ call[c].pc = "got" /\ Fits(c, call[c])
      /\ UNCHANGED <<Calling, reg>>
  BY CallFits DEF Inv, TypeOK, Recheck
<1>2. CASE mode.kind[c] = "control" \/ call[c].route = Owner(topologyValue)
  <2> DEFINE n == [call[c] EXCEPT !.pc = "checked"]
  <2>1. call' = [call EXCEPT ![c] = n]
    BY <1>2 DEF Recheck, Set
  <2>2. Fits(c, n)
    BY <1>1, <1>2 DEF Fits, CallRecord, Unsent
  <2> HIDE DEF n
  <2> QED BY <1>1, <2>1, <2>2, CallAlone
<1>3. CASE ~(mode.kind[c] = "control" \/ call[c].route = Owner(topologyValue))
  <2> DEFINE n == [call[c] EXCEPT !.pc = "plan", !.planning = @ + 1, !.conn = None]
  <2>1. call \in [Calls -> CallRecord]
    BY DEF Inv, TypeOK
  <2>2. call' = [call EXCEPT ![c] = n]
    BY <1>3, <2>1 DEF Recheck
  <2>3. call[c].planning + 1 \in Nat /\ None \in Names
    BY <1>1, Numbers DEF Names
  <2>4. n \in CallRecord
    BY <1>1, <2>3 DEF CallRecord
  <2>5. n.pc = "plan" /\ n.executed = call[c].executed /\ n.sends = call[c].sends
    BY <1>1 DEF CallRecord
  <2> HIDE DEF n
  <2>6. Fits(c, n)
    BY <1>1, <2>4, <2>5 DEF Fits, Unsent
  <2> QED BY <1>1, <2>2, <2>6, CallAlone
<1> QED BY <1>2, <1>3

LEMMA SendInv ==
    ASSUME Inv, TurnStep, NEW c \in Calls, Send(c)
    PROVE  Preserved
<1>1. /\ call[c] \in CallRecord /\ call[c].pc = "checked" /\ Fits(c, call[c])
      /\ UNCHANGED <<Calling, reg>> /\ call \in [Calls -> CallRecord]
  BY CallFits DEF Inv, TypeOK, Send
<1> DEFINE sent1 == [call[c] EXCEPT !.pc = "sent", !.sends = @ + 1]
           unsent == [call[c] EXCEPT !.pc = "error", !.conn = None, !.error = "unsent"]
<1>2. call' = [call EXCEPT ![c] = sent1] \/ call' = [call EXCEPT ![c] = unsent]
  BY <1>1 DEF Send
<1>3. Fits(c, sent1)
  <2>1. call[c].sends + 1 \in Nat /\ (call[c].sends = 0 => call[c].sends + 1 <= 1)
    BY <1>1, Numbers
  <2>2. sent1 \in CallRecord
    BY <1>1, <2>1 DEF CallRecord
  <2>3. /\ sent1.pc = "sent" /\ sent1.executed = call[c].executed
        /\ sent1.sends = call[c].sends + 1 /\ sent1.conn = call[c].conn
    BY <1>1 DEF CallRecord
  <2> HIDE DEF sent1
  <2> QED BY <1>1, <2>1, <2>2, <2>3 DEF Fits, Unsent
<1>4. Fits(c, unsent)
  BY <1>1 DEF Fits, CallRecord, Unsent, Names
<1> HIDE DEF sent1, unsent
<1> QED BY <1>1, <1>2, <1>3, <1>4, CallAlone

LEMMA ExecuteInv ==
    ASSUME Inv, TurnStep, NEW c \in Calls, Execute(c)
    PROVE  Preserved
<1> DEFINE n == [call[c] EXCEPT !.pc = "executed", !.executed = @ + 1]
<1>1. /\ call[c] \in CallRecord /\ call[c].pc = "sent" /\ Fits(c, call[c])
      /\ UNCHANGED <<Calling, reg>> /\ call \in [Calls -> CallRecord]
  BY CallFits DEF Inv, TypeOK, Execute
<1>2. call' = [call EXCEPT ![c] = n]
  BY <1>1 DEF Execute
<1>3. call[c].executed + 1 \in Nat /\ (call[c].executed = 0 => call[c].executed + 1 <= 1)
  BY <1>1, Numbers
<1>4. n \in CallRecord
  BY <1>1, <1>3 DEF CallRecord
<1>5. /\ n.pc = "executed" /\ n.executed = call[c].executed + 1
      /\ n.sends = call[c].sends /\ n.conn = call[c].conn
  BY <1>1 DEF CallRecord
<1> HIDE DEF n
<1>6. Fits(c, n)
  BY <1>1, <1>3, <1>4, <1>5 DEF Fits, Unsent
<1> QED BY <1>1, <1>2, <1>6, CallAlone

\* A request is refused before it is executed.
LEMMA RefuseInv ==
    ASSUME Inv, TurnStep, NEW c \in Calls, Refuse(c)
    PROVE  Preserved
<1> DEFINE n(e) == [call[c] EXCEPT !.pc = "error", !.conn = None, !.error = e]
<1>1. /\ call[c] \in CallRecord /\ call[c].pc = "sent" /\ Fits(c, call[c])
      /\ UNCHANGED <<Calling, reg>> /\ call \in [Calls -> CallRecord]
  BY CallFits DEF Inv, TypeOK, Refuse
<1>2. PICK e \in {"reroute", "not leader"} : call' = [call EXCEPT ![c] = n(e)]
  BY <1>1 DEF Refuse
<1>3. Fits(c, n(e))
  BY <1>1 DEF Fits, CallRecord, Unsent, Names
<1> HIDE DEF n
<1> QED BY <1>1, <1>2, <1>3, CallAlone

LEMMA AnswerInv ==
    ASSUME Inv, TurnStep, NEW c \in Calls, Answer(c)
    PROVE  Preserved
<1>1. Finish(c, "done") /\ UNCHANGED <<Calling, reg>>
  BY DEF Answer
<1>2. PICK r : Fits(c, r) /\ call' = [call EXCEPT ![c] = r]
  BY <1>1, FinishFits
<1> QED BY <1>1, <1>2, CallAlone

\* The connection is lost: only a request that was not executed may be reported as unsent.
LEMMA LostInv ==
    ASSUME Inv, TurnStep, NEW c \in Calls, Lost(c)
    PROVE  Preserved
<1>1. /\ call[c] \in CallRecord /\ Fits(c, call[c])
      /\ UNCHANGED <<Calling, reg>> /\ call \in [Calls -> CallRecord]
  BY CallFits DEF Inv, TypeOK, Lost
<1>2. PICK e \in {"unsent", "unknown"} :
          /\ e = "unsent" => call[c].pc = "sent"
          /\ call' = [call EXCEPT ![c].pc = "error", ![c].conn = None, ![c].error = e]
  BY DEF Lost
<1> DEFINE n == [call[c] EXCEPT !.pc = "error", !.conn = None, !.error = e]
<1>3. call' = [call EXCEPT ![c] = n]
  BY <1>1, <1>2
<1>4. n \in CallRecord
  BY <1>1 DEF CallRecord, Names
<1>5. /\ n.pc = "error" /\ n.error = e /\ n.executed = call[c].executed /\ n.sends = call[c].sends
  BY <1>1 DEF CallRecord
<1> HIDE DEF n
<1>6. Fits(c, n)
  BY <1>1, <1>2, <1>4, <1>5 DEF Fits, Unsent, ExplicitlySafe
<1> QED BY <1>1, <1>3, <1>6, CallAlone

LEMMA HandleInv ==
    ASSUME Inv, TurnStep, NEW c \in Calls, Handle(c)
    PROVE  Preserved
<1>1. /\ call[c] \in CallRecord /\ call[c].pc = "error" /\ Fits(c, call[c])
      /\ call \in [Calls -> CallRecord] /\ Sound(reg, closed, closing)
      /\ UNCHANGED <<truth, mode, topologyValue, lastSuccess, watched, closed, closing>>
  BY CallFits DEF Inv, TypeOK, Handle
<1>2. CASE mode.kind[c] = "control" \/ call[c].rerouted \/ closed
  <2>1. Finish(c, "failed") /\ UNCHANGED <<reg, load, owed>>
    BY <1>2 DEF Handle
  <2>2. PICK r : Fits(c, r) /\ call' = [call EXCEPT ![c] = r]
    BY <2>1, FinishFits
  <2> QED BY <1>1, <2>1, <2>2, CallStep, UnchangedLoad
<1>3. CASE ~(mode.kind[c] = "control" \/ call[c].rerouted \/ closed)
  <2> DEFINE n == [call[c] EXCEPT !.pc = "refreshing", !.refreshed = "none", !.conn = None]
  <2>1. Refresh /\ call' = [call EXCEPT ![c] = n]
    BY <1>1, <1>3 DEF Handle
  <2>2. Fits(c, n)
    BY <1>1 DEF Fits, CallRecord, Unsent, Names, ExplicitlySafe
  <2> HIDE DEF n
  <2> QED BY <1>1, <1>3, <2>1, <2>2, RefreshWell, CallStep
<1> QED BY <1>2, <1>3

\* Only a command whose error is safe comes back to where it may be sent.
LEMMA RefreshedInv ==
    ASSUME Inv, TurnStep, NEW c \in Calls, Refreshed(c)
    PROVE  Preserved
<1>1. /\ call[c] \in CallRecord /\ call[c].pc = "refreshing" /\ Fits(c, call[c])
      /\ UNCHANGED <<Calling, reg>> /\ call \in [Calls -> CallRecord]
  BY CallFits DEF Inv, TypeOK, Refreshed
<1> DEFINE again == /\ call[c].refreshed = "ok" /\ ~closed
                    /\ mode.kind[c] = "command" /\ ExplicitlySafe(call[c].error)
           n == [call[c] EXCEPT !.pc = "plan", !.rerouted = TRUE, !.planning = @ + 1]
<1>2. CASE again
  <2>1. call' = [call EXCEPT ![c] = n]
    BY <1>1, <1>2 DEF Refreshed
  <2>2. TRUE \in BOOLEAN /\ call[c].planning + 1 \in Nat
    BY <1>1, Numbers
  <2>3. n \in CallRecord
    BY <1>1, <2>2 DEF CallRecord
  <2>4. n.pc = "plan" /\ n.executed = call[c].executed /\ n.sends = call[c].sends
    BY <1>1 DEF CallRecord
  <2> HIDE DEF n
  <2>5. Fits(c, n)
    BY <1>1, <1>2, <2>3, <2>4 DEF Fits
  <2> QED BY <1>1, <2>1, <2>5, CallAlone
<1>3. CASE ~again
  <2>1. Finish(c, "failed")
    BY <1>3 DEF Refreshed
  <2>2. PICK r : Fits(c, r) /\ call' = [call EXCEPT ![c] = r]
    BY <2>1, FinishFits
  <2> QED BY <1>1, <2>2, CallAlone
<1> QED BY <1>2, <1>3

---------------------------------------------------------------------------
(* What follows for the executor.                                          *)

LEMMA InitInv == Init => Inv
<1> SUFFICES ASSUME Init PROVE Inv
  OBVIOUS
<1> DEFINE first == CHOOSE k \in Sockets : TRUE
<1>1. /\ mode.view \in Nat /\ Owner(mode.view) \in Trusted /\ mode \in Modes
  BY TopologyAssumption DEF Init, Owner
<1>2. first \in Sockets /\ None \notin Sockets /\ Seed \in Trusted /\ Seed \in Endpoints
  BY Constants
<1> DEFINE adapters == [e \in Endpoints |-> IF e = Seed THEN first ELSE None]
           creations == [e \in Endpoints |-> None]
           conns == [n \in Sockets |-> Over(IF n = first THEN "open" ELSE "closed")]
<1>3. reg = [adapters |-> adapters, creations |-> creations, retiring |-> {}, conn |-> conns]
  BY DEF Init
<1> HIDE DEF first
<1>4. /\ adapters \in [Endpoints -> Names] /\ creations \in [Endpoints -> Names]
      /\ conns \in [Sockets -> [endpoint : Trusted, state : States]]
      /\ {} \in SUBSET Sockets
  BY <1>2 DEF Names, Over, States
<1>5. reg \in Registry
  BY <1>3, <1>4 DEF Registry
<1>6. /\ reg.adapters = adapters /\ reg.creations = creations /\ reg.retiring = {}
      /\ \A n \in Sockets : /\ reg.conn[n].endpoint = Seed
                             /\ State(reg, n) = IF n = first THEN "open" ELSE "closed"
  BY <1>3 DEF State, Over
<1> HIDE DEF conns
<1>7. CreationsArePending(reg) /\ AdaptersAreMade(reg)
  BY <1>2, <1>6 DEF CreationsArePending, AdaptersAreMade, Pending
<1>8. closed = FALSE /\ closing = {} /\ watched = {} /\ load = Idle
  BY DEF Init
<1>9. Keeps(reg, closed, closing)
  BY <1>2, <1>6, <1>8 DEF Keeps
<1>10. ASSUME NEW c \in Calls
       PROVE  call[c] \in CallRecord /\ call[c].pc = "idle" /\ call[c].executed = 0
              /\ call[c].sends = 0
  <2>1. <<>> \in Seq(Trusted)
    OBVIOUS
  <2> QED BY <1>2, <2>1 DEF Init, CallRecord, Names
<1>11. call \in [Calls -> CallRecord]
  BY <1>10 DEF Init
<1>12. TypeOK
  BY <1>1, <1>2, <1>5, <1>8, <1>10, <1>11, IdleIsALoad DEF TypeOK, Init, TurnRecord, Names
<1>13. \A c \in Calls : ExecutesOnce(c) /\ RouteIsCurrent(c)
  BY <1>10 DEF ExecutesOnce, RouteIsCurrent, Unsent
<1>14. OneInstallATurn
  BY <1>8, IdleIsALoad DEF Init, OneInstallATurn
<1> QED BY <1>5, <1>7, <1>9, <1>12, <1>13, <1>14 DEF Inv, Sound

LEMMA NextPreserves ==
    ASSUME Inv, Next
    PROVE  Preserved
<1>0. TurnStep
  BY NextTurn
<1>1. CASE \E k \in Sockets : CreationDone(k) \/ CreationFails(k) \/ Break(k) \/ Drained(k)
  BY <1>0, <1>1, CreationDoneInv, EndsInv
<1>2. CASE \E k \in Sockets : LookAtLate(k) \/ CloseAdapter(k) \/ GoAway(k)
  BY <1>0, <1>2, LookAtLateInv, CloseAdapterInv, GoAwayInv
<1>3. CASE \/ LoadResumes \/ Ask \/ ExecuteShards \/ ShardsArrive \/ ShardsLost \/ Install
           \/ Warmed
  BY <1>0, <1>3, LoadResumesInv, AskInv, ExecuteShardsInv, ShardsArriveInv, ShardsLostInv, InstallInv,
     WarmedInv
<1>4. CASE DrainLoop \/ DrainEnds \/ Move \/ Event \/ Close
  BY <1>0, <1>4, DrainLoopInv, EventInv, CloseInv
<1>5. CASE \E c \in Calls : Plan(c) \/ Resume(c) \/ Recheck(c) \/ Send(c)
  BY <1>0, <1>5, PlanInv, ResumeInv, RecheckInv, SendInv
<1>6. CASE \E c \in Calls : \/ Execute(c) \/ Refuse(c) \/ Answer(c) \/ Lost(c)
                             \/ Handle(c) \/ Refreshed(c)
  BY <1>0, <1>6, ExecuteInv, RefuseInv, AnswerInv, LostInv, HandleInv, RefreshedInv
<1> QED BY <1>1, <1>2, <1>3, <1>4, <1>5, <1>6 DEF Next, Continue

LEMMA NextInv == Inv /\ [Next]_vars => Inv'
<1>1. ASSUME Inv, Next PROVE Inv'
  BY <1>1, NextPreserves DEF Preserved
<1>2. ASSUME Inv, UNCHANGED vars PROVE Inv'
  <2>1. /\ UNCHANGED <<truth, mode, topologyValue, lastSuccess, watched, call, load, closed>>
        /\ closing' = closing /\ reg' = reg /\ TurnStep
    BY <1>2, TurnStays DEF vars
  <2>2. Sound(reg', closed, closing') /\ closing' \in SUBSET Sockets
    BY <1>2, <2>1 DEF Inv, TypeOK
  <2> QED BY <1>2, <2>1, <2>2, ConnectionStep DEF Preserved
<1> QED BY <1>1, <1>2

\* A request is executed at most once, and a compare-and-set is sent at most once, however
\* many calls, endpoints and moves of the slot there are (topology-reroute-retry.ts).
THEOREM NothingExecutesTwice == Spec => []ExecutedOnce
<1>1. Inv => ExecutedOnce
  BY DEF Inv, ExecutedOnce, ExecutesOnce
<1> QED BY <1>1, InitInv, NextInv, PTL DEF Spec

\* The registry and close() know every connection that is in use, and all of them are to
\* endpoints that the policy admits (topology-adapter-registry.ts).
THEOREM NoAdapterIsForgotten == Spec => []AdaptersAreKept
<1>1. Inv => AdaptersAreKept
  <2> SUFFICES ASSUME Inv, NEW k \in Sockets, InUse(k)
               PROVE  /\ reg.conn[k].endpoint \in Trusted
                      /\ IF closed THEN k \in closing
                         ELSE k \in {reg.creations[reg.conn[k].endpoint],
                                     reg.adapters[reg.conn[k].endpoint]} \cup reg.retiring
    BY DEF AdaptersAreKept
  <2>1. reg \in Registry /\ Keeps(reg, closed, closing)
    BY DEF Inv, Sound
  <2>2. reg.conn[k].endpoint \in Trusted
    BY <2>1 DEF Registry
  <2> QED BY <2>1, <2>2 DEF Keeps, InUse
<1> QED BY <1>1, InitInv, NextInv, PTL DEF Spec

\* However long the adapter was awaited, a request with a route goes to the owner of its slot
\* in the topology in use, or in the one replaced since the last event, between the second
\* look at the route (adapterForCurrentRoute) and the request.
THEOREM RequestsFollowTheTopology == Spec => SentToOwner
<1> DEFINE A == \A c \in Calls : call'[c].sends > call[c].sends /\ mode.kind[c] # "control"
                                    => call[c].route \in {Owner(topologyValue), Owner(turn.view)}
<1>1. Inv /\ [Next]_vars => [A]_vars
  <2> SUFFICES ASSUME Inv, Next, NEW c \in Calls, call'[c].sends > call[c].sends,
                      mode.kind[c] # "control"
               PROVE  call[c].route \in {Owner(topologyValue), Owner(turn.view)}
    OBVIOUS
  <2>1. Inv' /\ (call'[c].sends # call[c].sends => call[c].pc = "checked")
    BY NextPreserves DEF Preserved
  <2>2. call'[c].sends \in Nat /\ call[c].sends \in Nat
    BY <2>1 DEF Inv, TypeOK, CallRecord
  <2>3. RouteIsCurrent(c)
    BY DEF Inv
  <2> QED BY <2>1, <2>2, <2>3 DEF RouteIsCurrent
<1> QED BY <1>1, InitInv, NextInv, PTL DEF Spec, SentToOwner

\* Everything the state of the executor may be.
THEOREM TypeCorrect == Spec => []TypeOK
<1>1. Inv => TypeOK
  BY DEF Inv
<1> QED BY <1>1, InitInv, NextInv, PTL DEF Spec

---------------------------------------------------------------------------
(* What the theorems of the automatic reconnect say of a behaviour of the  *)
(* composed run: its steps of the other executors leave this one alone.    *)

LEMMA ReconnectStarts == PartInit => Reconnect!Init
BY DEF PartInit

LEMMA ReconnectSteps ==
    [TopologyNext \/ ReconnectNext \/ HttpNext]_all => [Reconnect!Next]_(Reconnect!vars)
BY DEF TopologyNext, ReconnectNext, HttpNext, all, reconnecting, Reconnect!vars, Reconnect!call

LEMMA ReconnectImplemented == PartSpec => Reconnect!Spec
BY ReconnectStarts, ReconnectSteps, PTL DEF PartSpec, Reconnect!Spec

\* reconnecting-executor.ts may make at least one connection.
MadeOK == MaxMade \in Nat \ {0}

LEMMA MadeOne == ASSUME MadeOK PROVE Reconnect!AtLeastOne
BY DEF MadeOK, Reconnect!AtLeastOne

\* No command enters a socket twice, and one reported as "unsent" has entered none.
THEOREM NothingIsReplayed == ASSUME MadeOK PROVE PartSpec => []NeverReplayed
<1>1. Reconnect!Spec => []Reconnect!NeverReplayed
  BY MadeOne, Reconnect!NothingIsReplayed
<1> QED BY <1>1, ReconnectImplemented, PTL DEF NeverReplayed

\* Concurrent failures and late creations neither leak a connection nor replace one that
\* works.
THEOREM ConnectionsAreKept == ASSUME MadeOK PROVE PartSpec => []OneLiveConnection
<1>1. Reconnect!Spec => []Reconnect!OneLiveConnection
  BY MadeOne, Reconnect!ConnectionsAreKept
<1> QED BY <1>1, ReconnectImplemented, PTL DEF OneLiveConnection

\* The composed run keeps to the specification of the HTTP transport, too.
LEMMA HttpStarts == PartInit => Http!Init
BY DEF PartInit

LEMMA HttpSteps ==
    [TopologyNext \/ ReconnectNext \/ HttpNext]_all => [Http!Next]_(Http!httpVars)
BY DEF TopologyNext, ReconnectNext, HttpNext, all, http, Http!httpVars

LEMMA HttpImplemented == PartSpec => Http!Spec
BY HttpStarts, HttpSteps, PTL DEF PartSpec, Http!Spec

\* Every slot in use is held by one request, the queue holds those that wait, and nobody
\* waits for a free slot, whatever finite set of batches is posted.
THEOREM EverySlotIsHeldByOne == ASSUME Http!Sensible PROVE PartSpec => []SlotsConserved
<1>1. Http!Spec => []Http!SlotsConserved
  BY Http!EverySlotIsHeldByOne
<1> QED BY <1>1, HttpImplemented, PTL DEF SlotsConserved

\* A batch is executed at most once, and its result does not promise that it may be sent
\* again after it was.
THEOREM ResultsAreTrue == ASSUME Http!Sensible PROVE PartSpec => []ExecutedAsReported
<1>1. Http!Spec => []Http!ExecutedAsReported
  BY Http!ResultsAreTrue
<1> QED BY <1>1, HttpImplemented, PTL DEF ExecutedAsReported
=============================================================================
