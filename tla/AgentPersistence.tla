-------------------------- MODULE AgentPersistence --------------------------
(***************************************************************************)
(* The mutations of the agent adapters: withMutationLocks                  *)
(* (agent-persistence/durability.ts) around those of FerricStoreSession,   *)
(* FerricStoreSaver and FerricStoreStore.                                  *)
(*                                                                         *)
(* A call locks its keys in order, keeps the locks alive by a heartbeat,   *)
(* renews them before each publication and each commit, and commits by     *)
(* compare-and-set on what it has read.  Locks expire, commands fail       *)
(* before or after the server has executed them, processes crash.          *)
(*                                                                         *)
(* A command and its answer are one step.                                  *)
(***************************************************************************)
EXTENDS Integers, Sequences

CONSTANTS Writers, None, First, Deleted,
          Calls,         \* the functions from writers to calls to start from
          Legacies,      \* what an older format may have left: the items of a session, ...
          MaxAttempts,   \* compare-and-sets of one call
          MaxRuns,       \* how often a transaction is tried
          MaxExpiries, MaxFaults

VARIABLES call,
          pc,            \* of each writer
          local,         \* what its call knows
          lock,          \* the owner of each lock on the server
          cell,          \* the value of each key a compare-and-set is about
          legacy,
          index,         \* the entries of the discovery indexes
          late,          \* compare-and-sets given up by their senders and not yet executed
          applied,       \* see AgentMemory
          expiries, faults

server == <<lock, cell, legacy, index, late, applied>>
vars == <<call, pc, local, server, expiries, faults>>

---------------------------------------------------------------------------
(* The keys on the server, and the memory they amount to.                  *)

Locks == {1, 2}
Indices == {-1, 0}     \* of pending writes
Epochs == 0..2         \* a thread's; 0 is the one an older format lives on in

MemoryOf == INSTANCE AgentMemory WITH memory <- None

Family(w) == MemoryOf!Family(call[w])
Kind(w) == call[w].kind
The == Family(CHOOSE w \in Writers : TRUE)   \* all writers work on one memory

HistoryKey == <<"history">>
ItemKey(i) == <<"item", i>>
EpochKey == <<"epoch">>
CheckpointKey(e) == <<"checkpoint", e>>
WriteKey(e, i) == <<"write", e, i>>

Keys == {HistoryKey, EpochKey} \cup {ItemKey(i) : i \in Locks}
          \cup {CheckpointKey(e) : e \in Epochs} \cup {WriteKey(e, i) : e \in Epochs, i \in Indices}

History == IF cell[HistoryKey] # None THEN cell[HistoryKey]
           ELSE [items |-> legacy, receipts |-> {}]

Item(i) == CASE cell[ItemKey(i)] = Deleted -> None
             [] cell[ItemKey(i)] # None -> cell[ItemKey(i)]
             [] i \in legacy -> [value |-> "legacy", created |-> "legacy"]
             [] OTHER -> None

\* A record of a thread at an epoch, None before the first; an older format shows through
\* until the thread is deleted.
RecordAt(e, key, old) == IF e \in Epochs /\ cell[key] # None THEN cell[key]
                         ELSE IF e \in {None, 0} /\ old \in legacy THEN "legacy"
                         ELSE None

CheckpointAt(e) == RecordAt(e, CheckpointKey(e), <<"checkpoint">>)
WriteAt(e, i) == RecordAt(e, WriteKey(e, i), <<"write", i>>)

memory == CASE The = "session" -> History
            [] The = "store" -> [i \in Locks |-> Item(i)]
            [] The = "saver" -> LET e == cell[EpochKey] IN
                  [checkpoint |-> CheckpointAt(e), writes |-> [i \in Indices |-> WriteAt(e, i)]]

Memory == INSTANCE AgentMemory

\* Checkpoints and items are found through these, in the order they are published; the last
\* one of a thread is of one epoch.
Indexes(w) == CASE Kind(w) = "put" -> <<"namespaces", "locators", "checkpoints", "ids", "epochIds">>
                [] Kind(w) = "putWrites" -> <<"namespaces", "writes">>
                [] OTHER -> <<"catalog">>

Entry(name, of, e) == <<name, of, IF name \in {"epochIds", "writes"} THEN e ELSE None>>

---------------------------------------------------------------------------
NoLocal == [run |-> 1,
            held |-> 0,            \* the locks acquired, the first ones of its keys
            lost |-> FALSE,        \* heartbeatError
            epoch |-> None, part |-> 1, published |-> 0, attempt |-> 1,
            read |-> None,         \* the value the next compare-and-set expects
            write |-> None,        \* and the one it sets
            committed |-> FALSE, failed |-> FALSE,
            unsure |-> FALSE]      \* history: an answer was lost, or the call had no effect

\* The lock keys of a call, sorted.
LockKeys(w) == IF Kind(w) = "batch" THEN <<1, 2>>
               ELSE IF Family(w) = "store" THEN <<call[w].of>> ELSE <<1>>

Owner(w) == <<w, local[w].run>>
Holds(w) == {LockKeys(w)[i] : i \in 1..local[w].held}
Owns(w) == \A k \in Holds(w) : lock[k] = Owner(w)

Init == /\ call \in Calls
        /\ pc = [w \in Writers |-> "idle"]
        /\ local = [w \in Writers |-> NoLocal]
        /\ lock = [k \in Locks |-> None]
        /\ cell = [k \in Keys |-> None]
        /\ legacy \in Legacies[The]
        /\ index = IF The = "saver" /\ <<"checkpoint">> \in legacy
                   THEN {Entry(n, "thread", None) : n \in {"namespaces", "locators", "checkpoints", "ids"}}
                   ELSE IF The = "store" THEN {Entry("catalog", i, None) : i \in legacy} ELSE {}
        /\ late = {}
        /\ applied = [w \in Writers |-> {}]
        /\ expiries = 0 /\ faults = 0

Goes(w, to) == pc' = [pc EXCEPT ![w] = to]
Knows(w, l) == local' = [local EXCEPT ![w] = l]
Learns(w, f, v) == Knows(w, [local[w] EXCEPT ![f] = v])

\* The call throws: what it has acquired is released.
Throws(w, l) == /\ Goes(w, "unlock")
                /\ Knows(w, [l EXCEPT !.failed = TRUE])

\* A command fails, although the server may have executed it.
Fault == /\ faults < MaxFaults
         /\ faults' = faults + 1
         /\ UNCHANGED expiries

NoFault == UNCHANGED <<expiries, faults>>

---------------------------------------------------------------------------
(* The locks.                                                              *)

Begin(w) == /\ pc[w] = "idle"
            /\ Goes(w, "lock")
            /\ UNCHANGED <<call, local, server>> /\ NoFault

\* LOCK: a lock that is held is waited for.
TryLock(w) == LET k == LockKeys(w)[local[w].held + 1] IN
    /\ pc[w] = "lock"
    /\ \/ /\ lock[k] = None
          /\ lock' = [lock EXCEPT ![k] = Owner(w)]
          /\ Learns(w, "held", local[w].held + 1)
          /\ Goes(w, IF local[w].held + 1 = Len(LockKeys(w)) THEN "extend" ELSE "lock")
          /\ NoFault
       \/ /\ lock[k] # None
          /\ Goes(w, "wait")
          /\ UNCHANGED <<lock, local>> /\ NoFault
       \/ /\ Fault
          /\ lock' \in {lock, [lock EXCEPT ![k] = IF @ = None THEN Owner(w) ELSE @]}
          /\ Throws(w, local[w])
    /\ UNCHANGED <<call, cell, legacy, index, late, applied>>

\* Before the next try the locks acquired so far are extended; one of them may be lost.  A
\* try that would find the lock still held is left out.
WaitEnds(w) == /\ pc[w] = "wait"
               /\ \/ /\ Owns(w) /\ lock[LockKeys(w)[local[w].held + 1]] = None
                     /\ Goes(w, "lock")
                     /\ UNCHANGED local
                  \/ ~Owns(w) /\ Throws(w, local[w])
               /\ UNCHANGED <<call, server>> /\ NoFault

\* lockWaitMs has passed.
Deadline(w) == /\ pc[w] = "wait"
               /\ Throws(w, local[w])
               /\ UNCHANGED <<call, server>> /\ NoFault

\* Where a call starts, and each part of a batch.
Start(w) == CASE Family(w) = "saver" -> "epoch"
              [] Kind(w) \in {"putItem", "batch"} -> "renewIndex"
              [] OTHER -> "read"

\* All are acquired, and extended once more; the heartbeat starts.
Extend(w) == /\ pc[w] = "extend"
             /\ IF Owns(w) THEN Goes(w, Start(w)) /\ UNCHANGED local ELSE Throws(w, local[w])
             /\ UNCHANGED <<call, server>> /\ NoFault

Working == {"epoch", "renewIndex", "index", "read", "renew", "cas", "confirm"}

\* The heartbeat learns that a lock is lost, from the answer to EXTEND or, when its
\* commands fail, by its own clock, which runs behind the server's.
HeartbeatLost(w) == /\ pc[w] \in Working /\ ~local[w].lost /\ ~Owns(w)
                    /\ Learns(w, "lost", TRUE)
                    /\ UNCHANGED <<call, pc, server>> /\ NoFault

\* renewOwned, before a publication and before a commit.
RenewOwned(w) == /\ pc[w] \in {"renewIndex", "renew"}
                 /\ IF local[w].lost \/ ~Owns(w)
                    THEN Throws(w, [local[w] EXCEPT !.lost = TRUE])
                    ELSE /\ Goes(w, IF pc[w] = "renew" THEN "cas" ELSE "index")
                         /\ UNCHANGED local
                 /\ UNCHANGED <<call, server>> /\ NoFault

Expire(k) == /\ lock[k] # None
             /\ expiries < MaxExpiries
             /\ expiries' = expiries + 1
             /\ lock' = [lock EXCEPT ![k] = None]
             /\ UNCHANGED <<call, pc, local, cell, legacy, index, late, applied, faults>>

\* The heartbeat has ended; UNLOCK of every lock acquired.
Unlock(w) == LET freed == [k \in Locks |-> IF k \in Holds(w) /\ lock[k] = Owner(w) THEN None ELSE lock[k]]
                 l == local[w] IN
    /\ pc[w] = "unlock"
    /\ \/ /\ lock' = freed
          /\ Goes(w, IF l.failed \/ (l.lost /\ ~l.committed) THEN "rejected" ELSE "resolved")
          /\ NoFault /\ UNCHANGED local
       \/ /\ Fault
          /\ lock' \in {lock, freed}
          /\ Goes(w, IF l.failed \/ ~(l.lost /\ l.committed) THEN "rejected" ELSE "resolved")
          /\ Learns(w, "unsure", TRUE)
    /\ UNCHANGED <<call, cell, legacy, index, late, applied>>

---------------------------------------------------------------------------
(* The commands of a call that change nothing.                             *)

\* A command that only reads fails.
ReadFails(w) == /\ pc[w] \in {"epoch", "read", "confirm"}
                /\ Fault
                /\ Throws(w, [local[w] EXCEPT !.unsure = @ \/ pc[w] = "confirm"])
                /\ UNCHANGED <<call, server>>

\* ensureThreadEpoch: a thread without an epoch gets the one of the older format.
ReadEpoch(w) == LET e == cell[EpochKey]
                    l == [local[w] EXCEPT !.epoch = e, !.read = e] IN
    /\ pc[w] = "epoch"
    /\ CASE e = None -> Goes(w, "renew") /\ Knows(w, [l EXCEPT !.write = 0])
         [] e # None /\ Kind(w) = "deleteThread" ->
               Goes(w, "renew") /\ Knows(w, [l EXCEPT !.write = e + 1])
         [] OTHER -> Goes(w, "renewIndex") /\ Knows(w, l)
    /\ UNCHANGED <<call, server>> /\ NoFault

\* The key of the next compare-and-set, and the part of the memory it is for.
CasKey(w) == CASE Kind(w) = "deleteThread" \/ (Family(w) = "saver" /\ local[w].epoch = None) -> EpochKey
               [] Kind(w) = "put" -> CheckpointKey(local[w].epoch)
               [] Kind(w) = "putWrites" -> WriteKey(local[w].epoch, call[w].of)
               [] Family(w) = "session" -> HistoryKey
               [] OTHER -> ItemKey(Memory!ItemOf(call[w], local[w].part))

NewValue(w) ==
    CASE Family(w) = "session" -> Memory!SessionEffect(w, call[w], History)
      [] Family(w) = "saver" -> w
      [] Kind(w) = "deleteItem" -> Deleted
      [] OTHER -> Memory!ItemEffect(w, call[w], Item(CasKey(w)[2]))

\* What must be there no longer, or is there already.
Done(w) == \/ Kind(w) = "deleteItem" /\ cell[CasKey(w)] = Deleted
           \/ Kind(w) = "putWrites" /\ call[w].of >= 0 /\ WriteAt(local[w].epoch, call[w].of) # None

NoEffect(w) == applied' = [applied EXCEPT ![w] = @ \cup {local[w].part}]

Read(w) ==
    /\ pc[w] = "read"
    /\ \/ /\ Done(w)
          /\ Goes(w, IF Kind(w) = "putWrites" THEN "confirm" ELSE "unlock")
          /\ Learns(w, "unsure", TRUE)
          /\ IF Kind(w) = "putWrites" THEN UNCHANGED applied ELSE NoEffect(w)
       \/ /\ Family(w) = "session" /\ Memory!Refused(call[w], History)
          /\ Throws(w, local[w])
          /\ UNCHANGED applied
       \/ /\ ~Done(w) /\ ~(Family(w) = "session" /\ Memory!Refused(call[w], History))
          /\ Goes(w, "renew")
          /\ Knows(w, [local[w] EXCEPT !.read = cell[CasKey(w)], !.write = NewValue(w)])
          /\ UNCHANGED applied
    /\ UNCHANGED <<call, lock, cell, legacy, index, late>> /\ NoFault

\* assertCurrentEpoch: what was committed to an epoch that has ended is not there.
Confirm(w) ==
    /\ pc[w] = "confirm"
    /\ IF cell[EpochKey] = local[w].epoch
       THEN Goes(w, "unlock") /\ NoEffect(w) /\ UNCHANGED local
       ELSE Throws(w, local[w]) /\ UNCHANGED applied
    /\ UNCHANGED <<call, lock, cell, legacy, index, late>> /\ NoFault

---------------------------------------------------------------------------
(* The commands that change something.                                     *)

\* Slip: an entry that could not be published is left out.
PublishQuietly(w) ==
    /\ pc[w] = "index"
    /\ index' \in {index, index \cup {Entry(Indexes(w)[local[w].published + 1],
                                            IF Family(w) = "saver" THEN "thread" ELSE CasKey(w)[2],
                                            local[w].epoch)}}
    /\ Goes(w, IF local[w].published + 1 = Len(Indexes(w)) THEN "read" ELSE "renewIndex")
    /\ Learns(w, "published", local[w].published + 1)
    /\ UNCHANGED <<call, lock, cell, legacy, late, applied>> /\ NoFault

\* publish: an index entry more; then the locks must not be known to be lost.
Publish(w) ==
    LET name  == Indexes(w)[local[w].published + 1]
        of    == IF Family(w) = "saver" THEN "thread" ELSE CasKey(w)[2]
        entry == Entry(name, of, local[w].epoch)
        last  == local[w].published + 1 = Len(Indexes(w))
    IN /\ pc[w] = "index"
       /\ \/ /\ index' = index \cup {entry}
             /\ NoFault
             /\ IF local[w].lost THEN Throws(w, local[w])
                ELSE /\ Goes(w, IF last THEN "read" ELSE "renewIndex")
                     /\ Learns(w, "published", local[w].published + 1)
          \/ /\ Fault
             /\ index' \in {index, index \cup {entry}}
             /\ Throws(w, local[w])
       /\ UNCHANGED <<call, lock, cell, legacy, late, applied>>

Request(w) == [by |-> w, part |-> local[w].part, key |-> CasKey(w), epoch |-> local[w].epoch,
               read |-> local[w].read, write |-> local[w].write]

\* Whether a compare-and-set that is executed changes the memory.
TakesEffect(q) == \/ Family(q.by) # "saver"
                  \/ Kind(q.by) = "deleteThread" /\ q.epoch # None
                  \/ q.key # EpochKey /\ q.epoch = cell[EpochKey]

Executed(q) == /\ cell[q.key] = q.read
               /\ cell' = [cell EXCEPT ![q.key] = q.write]
               /\ IF TakesEffect(q)
                  THEN applied' = [v \in Writers |->
                          IF v = q.by THEN applied[v] \cup {q.part}
                          ELSE IF Kind(q.by) = "clear" /\ Kind(v) \in Memory!Transactions THEN {}
                          ELSE applied[v]]
                  ELSE UNCHANGED applied

\* The server executes a command whose sender has given it up.
ExecutedLate(q) == /\ q \in late
                   /\ late' = late \ {q}
                   /\ \/ Executed(q)
                      \/ cell[q.key] # q.read /\ UNCHANGED <<cell, applied>>
                   /\ UNCHANGED <<call, pc, local, lock, legacy, index>> /\ NoFault

\* After a commit: the next part, the confirmation, or the end.
Committed(w) == LET l == [local[w] EXCEPT !.committed = TRUE, !.attempt = 1] IN
    CASE CasKey(w) = EpochKey /\ local[w].epoch = None ->
            Goes(w, "epoch") /\ Knows(w, l)
      [] Kind(w) \in {"put", "putWrites"} -> Goes(w, "confirm") /\ Knows(w, l)
      [] Kind(w) = "batch" /\ local[w].part = 1 ->
            Goes(w, "renewIndex") /\ Knows(w, [l EXCEPT !.part = 2, !.published = 0])
      [] OTHER -> Goes(w, "unlock") /\ Knows(w, l)

\* Slip: the value is set whatever it is by then.
SetBlindly(w) == /\ pc[w] = "cas"
                 /\ cell' = [cell EXCEPT ![CasKey(w)] = local[w].write]
                 /\ applied' = [applied EXCEPT ![w] = @ \cup {local[w].part}]
                 /\ Committed(w)
                 /\ UNCHANGED <<call, lock, legacy, index, late>> /\ NoFault

CompareAndSet(w) ==
    /\ pc[w] = "cas"
    /\ \/ /\ Executed(Request(w)) /\ Committed(w)
          /\ UNCHANGED late /\ NoFault
       \/ /\ cell[CasKey(w)] # local[w].read
          /\ IF local[w].lost \/ local[w].attempt = MaxAttempts THEN Throws(w, local[w])
             ELSE /\ Goes(w, IF CasKey(w) = EpochKey THEN "epoch" ELSE "read")
                  /\ Learns(w, "attempt", local[w].attempt + 1)
          /\ UNCHANGED <<cell, applied, late>> /\ NoFault
       \/ /\ Fault
          /\ Throws(w, [local[w] EXCEPT !.unsure = TRUE])
          /\ \/ UNCHANGED <<cell, applied, late>>
             \/ Executed(Request(w)) /\ UNCHANGED late
             \/ late' = late \cup {Request(w)} /\ UNCHANGED <<cell, applied>>
    /\ UNCHANGED <<call, lock, legacy, index>>

---------------------------------------------------------------------------
\* A transaction that was rejected is tried again, with the same identifier.
TryAgain(w) == /\ pc[w] = "rejected" /\ Kind(w) \in Memory!Transactions
               /\ local[w].run < MaxRuns
               /\ Goes(w, "lock")
               /\ Knows(w, [NoLocal EXCEPT !.run = local[w].run + 1, !.unsure = local[w].unsure])
               /\ UNCHANGED <<call, server>> /\ NoFault

\* The process of a writer stops.
Crash(w) == /\ pc[w] \notin {"idle", "resolved", "rejected", "crashed"}
            /\ Fault
            /\ Goes(w, "crashed")
            /\ UNCHANGED <<call, local, server>>

Next == \/ \E w \in Writers : \/ Begin(w) \/ TryLock(w) \/ WaitEnds(w) \/ Deadline(w) \/ Extend(w)
                              \/ HeartbeatLost(w) \/ RenewOwned(w) \/ Unlock(w) \/ ReadFails(w)
                              \/ ReadEpoch(w) \/ Read(w) \/ Confirm(w) \/ Publish(w)
                              \/ CompareAndSet(w) \/ TryAgain(w) \/ Crash(w)
        \/ \E k \in Locks : Expire(k)
        \/ \E q \in late : ExecutedLate(q)

Spec == Init /\ [][Next]_vars

---------------------------------------------------------------------------
\* docs/agent-frameworks.md: "a writer whose lock expires cannot overwrite a newer state",
\* "repeating the same operation is a no-op", "late commands from expired writers [are]
\* harmless".  However locks expire and commands fail, every call has its effect at one
\* moment, on the memory as it is then, and once.
ImplementsAgentMemory == Memory!Spec
MemoryStep == Memory!Step

\* A call that resolves has had all of its effects.  One that rejects has not had the effect
\* it was at, unless an answer was lost or its thread has been deleted since.  And what can
\* be read is found by those who list it.
AnswersAreTrue ==
    /\ \A w \in Writers :
          /\ pc[w] = "resolved" => \/ applied[w] = Memory!Parts(call[w])
                                   \/ /\ Kind(w) \in Memory!Transactions
                                      /\ \E v \in Writers : Kind(v) = "clear" /\ applied[v] # {}
          /\ pc[w] = "rejected" /\ ~local[w].unsure =>
                local[w].part \notin applied[w] \/ cell[EpochKey] # local[w].epoch
    /\ CASE The = "store" -> \A i \in Locks : Item(i) # None => Entry("catalog", i, None) \in index
         [] The = "saver" -> LET e == cell[EpochKey] IN
               /\ CheckpointAt(e) # None =>
                     /\ \A n \in {"namespaces", "locators", "checkpoints", "ids"} :
                           Entry(n, "thread", None) \in index
                     /\ e \in Epochs /\ cell[CheckpointKey(e)] # None =>
                           Entry("epochIds", "thread", e) \in index
               /\ \A i \in Indices : e \in Epochs /\ cell[WriteKey(e, i)] # None =>
                                        Entry("writes", "thread", e) \in index
         [] OTHER -> TRUE
=============================================================================
