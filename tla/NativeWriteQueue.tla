-------------------------- MODULE NativeWriteQueue --------------------------
(***************************************************************************)
(* The frames that wait for the socket's "drain" event:                    *)
(* native-write-queue.ts.  Cancelled frames stay as tombstones until they  *)
(* are skipped or compacted away.  Whether the socket accepts more after a *)
(* frame, and whether its write throws, are the environment's choices.     *)
(***************************************************************************)
EXTENDS Integers, Sequences, FiniteSets

CONSTANTS Frames,
          Bytes,              \* Bytes[f]: the encoded length of frame f
          MaxQueuedWriteBytes,
          Tombstone,          \* a slot whose frame is undefined
          Threshold           \* 1_024 in the code

ASSUME WriteQueueAssumption == /\ Tombstone \notin Frames
                               /\ Bytes \in [Frames -> Nat \ {0}]
                               /\ MaxQueuedWriteBytes \in Nat
                               /\ Threshold \in Nat \ {0}

VARIABLES queuedWrites,           \* slots, consumed ones included
          queuedWritesByRequest,  \* the frames still queued
          queuedWriteBytes, queuedWriteHead, queuedWriteTombstones,
          writeBlocked

queue == <<queuedWrites, queuedWriteHead, queuedWriteTombstones>>
vars == <<queue, queuedWritesByRequest, queuedWriteBytes, writeBlocked>>

IsFrame(f) == f # Tombstone
NonNegative(n) == IF n < 0 THEN 0 ELSE n
Remaining(h, qs) == SubSeq(qs, h + 1, Len(qs))

\* The frames of an array behind slot h, in their order.
LiveSlots(h, qs) == {i \in (h + 1)..Len(qs) : IsFrame(qs[i])}
NthSlot(slots, n) == CHOOSE i \in slots : Cardinality({k \in slots : k <= i}) = n
LiveFrames(h, qs) == [n \in 1..Cardinality(LiveSlots(h, qs)) |-> qs[NthSlot(LiveSlots(h, qs), n)]]

Live == LiveFrames(queuedWriteHead, queuedWrites)

\* The bytes of some frames, one by one.
BytesOf(frames) == Cardinality(UNION {{f} \X (1..Bytes[f]) : f \in frames})

EmptyArray == /\ queuedWrites' = <<>>
              /\ queuedWriteHead' = 0
              /\ queuedWriteTombstones' = 0

Init == /\ queuedWrites = <<>>
        /\ queuedWritesByRequest = {}
        /\ queuedWriteBytes = 0
        /\ queuedWriteHead = 0
        /\ queuedWriteTombstones = 0
        /\ writeBlocked = FALSE

---------------------------------------------------------------------------
\* write on a socket that accepts: the frame goes straight to the socket, which
\* may ask for a pause (accepted is false); a throwing write changes nothing here.
WriteThrough(f) == /\ f \notin queuedWritesByRequest
                   /\ ~writeBlocked
                   /\ writeBlocked' \in BOOLEAN
                   /\ UNCHANGED <<queue, queuedWritesByRequest, queuedWriteBytes>>

\* Slip: the room test compares with the whole budget.
WriteQueuedPastBudget(f) == /\ f \notin queuedWritesByRequest
                            /\ writeBlocked
                            /\ Bytes[f] <= MaxQueuedWriteBytes
                            /\ queuedWrites' = Append(queuedWrites, f)
                            /\ queuedWritesByRequest' = queuedWritesByRequest \cup {f}
                            /\ queuedWriteBytes' = queuedWriteBytes + Bytes[f]
                            /\ UNCHANGED <<queuedWriteHead, queuedWriteTombstones, writeBlocked>>

\* write while blocked; a frame that does not fit is rejected, nothing changes.
WriteQueued(f) == /\ f \notin queuedWritesByRequest
                  /\ writeBlocked
                  /\ Bytes[f] <= MaxQueuedWriteBytes - queuedWriteBytes
                  /\ queuedWrites' = Append(queuedWrites, f)
                  /\ queuedWritesByRequest' = queuedWritesByRequest \cup {f}
                  /\ queuedWriteBytes' = queuedWriteBytes + Bytes[f]
                  /\ UNCHANGED <<queuedWriteHead, queuedWriteTombstones, writeBlocked>>

\* Slip: compaction starts at slot 0 and revives what flush has consumed.
CompactFromStart(qs, tombstones) ==
    IF queuedWritesByRequest' = {} THEN EmptyArray
    ELSE /\ queuedWrites' = LiveFrames(0, qs)
         /\ queuedWriteTombstones' = 0
         /\ UNCHANGED queuedWriteHead

\* compactTombstones, given the array and the tombstone count after a cancel.
CompactTombstones(qs, tombstones) ==
    LET remaining == Len(qs) - queuedWriteHead
    IN IF queuedWritesByRequest' = {} THEN EmptyArray
       ELSE IF tombstones < Threshold \/ tombstones * 2 < remaining
            THEN /\ queuedWrites' = qs
                 /\ queuedWriteTombstones' = tombstones
                 /\ UNCHANGED queuedWriteHead
            ELSE /\ queuedWrites' = LiveFrames(queuedWriteHead, qs)
                 /\ queuedWriteHead' = 0
                 /\ queuedWriteTombstones' = 0

\* cancel: the pending request was settled while its frame was queued.
Cancel(i) == LET f == queuedWrites[i] IN
             /\ f \in queuedWritesByRequest
             /\ queuedWritesByRequest' = queuedWritesByRequest \ {f}
             /\ queuedWriteBytes' = NonNegative(queuedWriteBytes - Bytes[f])
             /\ CompactTombstones([queuedWrites EXCEPT ![i] = Tombstone],
                                  queuedWriteTombstones + 1)
             /\ UNCHANGED writeBlocked

\* flush on "drain": slots up to h are consumed, tombstones skipped, until the
\* socket blocks again (only a written frame can block it) or the array ends.
Flush(h, blocked) ==
    LET consumed == {i \in (queuedWriteHead + 1)..h : IsFrame(queuedWrites[i])}
        written == {queuedWrites[i] : i \in consumed}
        skipped == (h - queuedWriteHead) - Cardinality(consumed)
    IN /\ writeBlocked
       /\ IF blocked THEN h \in consumed ELSE h = Len(queuedWrites)
       /\ writeBlocked' = blocked
       /\ queuedWritesByRequest' = queuedWritesByRequest \ written
       /\ queuedWriteBytes' = NonNegative(queuedWriteBytes - BytesOf(written))
       /\ IF h = Len(queuedWrites) THEN EmptyArray
          ELSE /\ queuedWriteTombstones' = NonNegative(queuedWriteTombstones - skipped)
               /\ IF h >= Threshold /\ h * 2 >= Len(queuedWrites)
                  THEN /\ queuedWrites' = Remaining(h, queuedWrites)
                       /\ queuedWriteHead' = 0
                  ELSE /\ queuedWrites' = [i \in 1..Len(queuedWrites) |->
                             IF i <= h THEN Tombstone ELSE queuedWrites[i]]
                       /\ queuedWriteHead' = h

\* clear: the connection failed, or "drain" came after it closed.
Clear == /\ EmptyArray
         /\ queuedWritesByRequest' = {}
         /\ queuedWriteBytes' = 0
         /\ writeBlocked' = FALSE

Next == \/ \E f \in Frames : WriteThrough(f) \/ WriteQueued(f)
        \/ \E i \in 1..Len(queuedWrites) : Cancel(i)
        \/ \E h \in queuedWriteHead..Len(queuedWrites), b \in BOOLEAN : Flush(h, b)
        \/ Clear

Spec == Init /\ [][Next]_vars

---------------------------------------------------------------------------
\* Four records of one queue stay in step: the slots flush will still write, the
\* index has() asks (which decides between "unsent" and "possibly sent"), the byte
\* budget (bytes of flushed, cancelled and compacted frames are given back once)
\* and the tombstone count that triggers compaction.
AccountsAgree ==
    /\ queuedWritesByRequest = {Live[i] : i \in 1..Len(Live)}
    /\ queuedWriteBytes = BytesOf(queuedWritesByRequest)
    /\ queuedWriteBytes <= MaxQueuedWriteBytes
    /\ queuedWriteTombstones = Len(queuedWrites) - queuedWriteHead - Len(Live)
    /\ queuedWriteHead <= Len(queuedWrites)

\* Tombstones, head index and compaction are invisible: the live frames form a
\* first-in first-out queue.
Fifo == INSTANCE FifoQueue WITH Items <- Frames, q <- Live
ImplementsFifo == Fifo!Spec
=============================================================================
