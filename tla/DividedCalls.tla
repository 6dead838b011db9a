---------------------------- MODULE DividedCalls ----------------------------
(***************************************************************************)
(* Calls on many items that are sent as several requests: the chunks of a  *)
(* large batch (client-flow-support.ts), the buckets of enqueueMany        *)
(* (client-producer.ts), the routes of a multi-key read                    *)
(* (topology-scatter.ts) and the records of a legacy claim                 *)
(* (client-claim-hydration.ts).  Requests are answered in any order, with  *)
(* too few answers, or not at all; a producer's request that the server    *)
(* refuses for overload is repeated after a while.  Items are numbered,    *)
(* and the answer about an item is its number,                             *)
(* or the one answer about all of a request.                               *)
(***************************************************************************)
EXTENDS Integers, Sequences, FiniteSets, SequencesExt

CONSTANTS Calls,        \* [kind, homes: the bucket or route of every item, size: of a request,
                        \*  concurrency, produces: whether the requests are repeated]
          MaxRetries,   \* repetitions of a request
          Missing       \* no result

VARIABLES called,     \* the call
          cursor,     \* the next group to take
          failed,     \* whether a runner has recorded a failure
          runners,    \* a sequence of what the runners are at
          results,    \* the result of every item, or Missing
          effects,    \* how often the server has carried out each item
          ended,      \* "pending", "resolved" or "rejected"
          closing     \* whether the client has been closed

vars == <<called, cursor, failed, runners, results, effects, ended, closing>>

---------------------------------------------------------------------------
Whole == 0

Items(c) == DOMAIN c.homes

\* The items of each home, in the order the homes occur.
GroupsByHome(c) ==
    LET firsts == {i \in Items(c) : \A j \in 1..(i - 1) : c.homes[j] # c.homes[i]}
        order == SetToSortSeq(firsts, <)
    IN [g \in DOMAIN order |->
           SetToSortSeq({i \in Items(c) : c.homes[i] = c.homes[order[g]]}, <)]

\* A large batch is one group, a record to hydrate a group of its own.
Groups(c) == CASE c.kind = "chunks" -> <<[i \in Items(c) |-> i]>>
               [] c.kind = "hydrate" -> [i \in Items(c) |-> <<i>>]
               [] OTHER -> GroupsByHome(c)

\* The k-th request of group g.
Batch(c, g, k) ==
    LET group == Groups(c)[g]
        last == k * c.size
    IN SubSeq(group, (k - 1) * c.size + 1, IF last < Len(group) THEN last ELSE Len(group))

HasBatch(c, g, k) == (k - 1) * c.size < Len(Groups(c)[g])

\* A scattered read asks all routes, whatever fails; the others stop at the first failure.
StopsOnFailure(c) == c.kind # "scatter"

Done == [at |-> "done"]
Sent(g, k) == [at |-> "sent", group |-> g, batch |-> k, attempt |-> 0]

Runners(c) == IF c.concurrency < Len(Groups(c)) THEN c.concurrency ELSE Len(Groups(c))

Init == /\ called \in Calls
        /\ cursor = Runners(called) + 1
        /\ failed = FALSE
        /\ runners = [w \in 1..Runners(called) |-> Sent(w, 1)]
        /\ results = [i \in Items(called) |-> Missing]
        /\ effects = [i \in Items(called) |-> 0]
        /\ ended = "pending"
        /\ closing = FALSE

---------------------------------------------------------------------------
\* A runner goes to the next group, if there is one and nothing has failed.
TakeGroup(w, failure) ==
    IF cursor > Len(Groups(called)) \/ (failure /\ StopsOnFailure(called))
    THEN runners' = [runners EXCEPT ![w] = Done] /\ UNCHANGED cursor
    ELSE runners' = [runners EXCEPT ![w] = Sent(cursor, 1)] /\ cursor' = cursor + 1

\* What a runner does behind a failure.
Fail(w) == failed' = TRUE /\ TakeGroup(w, TRUE)

\* A producer's request is not sent when the client is closed.
Refused == closing /\ called.produces

\* ... and behind an answer.
Proceed(w) ==
    LET r == runners[w]
        more == HasBatch(called, r.group, r.batch + 1)
        next == more \/ cursor <= Len(Groups(called))
    IN IF failed /\ StopsOnFailure(called)
       THEN runners' = [runners EXCEPT ![w] = Done] /\ UNCHANGED <<cursor, failed>>
       ELSE IF next /\ Refused THEN failed' = TRUE /\ runners' = [runners EXCEPT ![w] = Done] /\ UNCHANGED cursor
       ELSE IF more
       THEN /\ runners' = [runners EXCEPT ![w] = Sent(r.group, r.batch + 1)]
            /\ UNCHANGED <<cursor, failed>>
       ELSE TakeGroup(w, failed) /\ UNCHANGED failed

Pending(w) == runners[w].at = "sent"
BatchOf(w) == Batch(called, runners[w].group, runners[w].batch)

CarriedOut(w) ==
    effects' = [i \in Items(called) |-> effects[i] + (IF i \in Range(BatchOf(w)) THEN 1 ELSE 0)]

\* Slip: results are placed from the start of the group.
PlacedFromStart(w, answers) ==
    LET group == Groups(called)[runners[w].group]
    IN [i \in Items(called) |->
           IF \E k \in DOMAIN answers : group[k] = i
           THEN answers[CHOOSE k \in DOMAIN answers : group[k] = i] ELSE results[i]]

\* The results of a batch go to where its items are in the call.
Placed(w, answers) ==
    LET r == runners[w]
        group == Groups(called)[r.group]
        start == (r.batch - 1) * called.size
    IN [i \in Items(called) |->
           IF \E k \in DOMAIN answers : group[start + k] = i
           THEN answers[CHOOSE k \in DOMAIN answers : group[start + k] = i] ELSE results[i]]

\* A batch may be answered by one value for all of its items.
Expand(batch, whole) == IF whole THEN [k \in DOMAIN batch |-> Whole] ELSE batch

Answer(w) ==
    /\ Pending(w)
    /\ CarriedOut(w)
    /\ \E whole \in (IF called.kind \in {"chunks", "buckets"} THEN BOOLEAN ELSE {FALSE}) :
           results' = Placed(w, Expand(BatchOf(w), whole))
    /\ Proceed(w)
    /\ UNCHANGED <<called, ended, closing>>

\* A list of another length, a request or its answer that is lost, an error of the server.
AnswerBadly(w) ==
    /\ Pending(w)
    /\ CarriedOut(w) \/ UNCHANGED effects
    /\ Fail(w)
    /\ UNCHANGED <<called, results, ended, closing>>

\* The server is overloaded, and has not carried out the request.
Overload(w) ==
    /\ Pending(w)
    /\ IF called.produces /\ runners[w].attempt < MaxRetries
       THEN runners' = [runners EXCEPT ![w].at = "asleep"] /\ UNCHANGED <<cursor, failed>>
       ELSE Fail(w)
    /\ UNCHANGED <<called, results, effects, ended, closing>>

\* The time is over, or the client is closed.
Wake(w) ==
    /\ runners[w].at = "asleep"
    /\ IF Refused THEN Fail(w)
       ELSE /\ runners' = [runners EXCEPT ![w] = [@ EXCEPT !.at = "sent", !.attempt = @ + 1]]
            /\ UNCHANGED <<cursor, failed>>
    /\ UNCHANGED <<called, results, effects, ended, closing>>

Close == ~closing /\ closing' = TRUE /\ UNCHANGED <<called, cursor, failed, runners, results, effects, ended>>

\* All runners are done.
Settle ==
    /\ ended = "pending" /\ \A w \in DOMAIN runners : runners[w] = Done
    /\ ended' = IF failed THEN "rejected" ELSE "resolved"
    /\ UNCHANGED <<called, cursor, failed, runners, results, effects, closing>>

Next == \/ \E w \in DOMAIN runners : Answer(w) \/ AnswerBadly(w) \/ Overload(w) \/ Wake(w)
        \/ Close \/ Settle

Spec == Init /\ [][Next]_vars

---------------------------------------------------------------------------
\* The requests of the call.
Requests(c) == {Range(Batch(c, g, k)) : g \in DOMAIN Groups(c), k \in 1..Len(c.homes)} \ {{}}

\* Whatever fails, is repeated or is answered out of order: no item is carried out twice; a
\* result is that of its item, which was carried out; a call that resolves has a result for
\* every item; and one that is rejected reports as confirmed all it can, so that what was
\* carried out without being confirmed is one request of each runner at the most.
ReportsAreTrue ==
    LET unconfirmed == {request \in Requests(called) :
                           \E i \in request : effects[i] > 0 /\ results[i] = Missing}
    IN /\ \A i \in Items(called) : effects[i] <= 1
       /\ \A i \in Items(called) : results[i] # Missing => results[i] \in {i, Whole} /\ effects[i] = 1
       /\ ended = "resolved" => \A i \in Items(called) : results[i] # Missing
       /\ StopsOnFailure(called) => Cardinality(unconfirmed) <= Len(runners)
=============================================================================
