--------------------------- MODULE NativeReceiver ---------------------------
(***************************************************************************)
(* How a native connection receives (native-receive-buffer.ts, native-     *)
(* chunk-assembler.ts, native-response-handler.ts): the bytes the socket   *)
(* delivers, however they are cut, are put together to frames, the frames  *)
(* to responses, and these are given to the requests that wait for them.   *)
(*                                                                         *)
(* A byte is the number of its frame in the server's stream with its place *)
(* in the frame: what a header says, its magic number and the length, can  *)
(* be read of the bytes themselves.  Frames are handed over one by one in  *)
(* a loop that nothing interrupts; `turn' is what is left of it.           *)
(***************************************************************************)
EXTENDS Integers, SequencesExt, FiniteSetsExt

CONSTANTS Requests,
          Streams,            \* what the server may send: sequences of frames
          Header,             \* HEADER_SIZE
          MaxFramesPerDecode,
          CompactAt,          \* consumed chunks that are worth a compaction
          maxFrameBytes, maxChunkBytes, maxChunkFrames, maxResponseBytes

VARIABLES stream,
          arrived,         \* bytes the socket has delivered
          buffer,          \* NativeReceiveBuffer
          turn,            \* frames drainFrames may still hand over, 0 when it does not run
          drainScheduled, paused, stopped,
          draining,        \* a GOAWAY was received
          pending,         \* of each request: "pending", "timedOut", or how it ended
          assembler,       \* NativeChunkAssembler: the bodies held, and its counters
          discarded,       \* of each request: what was thrown away since its timeout
          received, answer \* the frames handed over, and the answers given

receiver == <<stream, arrived, buffer, turn, drainScheduled, paused, stopped, draining, pending,
              assembler, discarded, received, answer>>

Management == 0   \* the request id of frames the server sends unasked

---------------------------------------------------------------------------
\* The stream: frames [id, op, more, body], a body being so many bytes.
BytesOf(f) == [k \in 1..(Header + stream[f].body) |-> <<f, k>>]

Wire == FlattenSeq([f \in DOMAIN stream |-> BytesOf(f)])

Body(bytes) == SubSeq(bytes, Header + 1, Len(bytes))

\* tryDecodeFrame: of the header, whether it is one and how long its frame is.
Magic(header) == Head(header)[2] = 1
BodyLength(header) == stream[header[Header][1]].body
Decodes(header) == Magic(header) /\ BodyLength(header) <= maxFrameBytes

---------------------------------------------------------------------------
\* The receive buffer: chunks not consumed yet, or a frame being assembled.
EmptyBuffer == [assembly |-> <<>>, length |-> 0, chunks |-> <<>>, chunkIndex |-> 0,
                chunkOffset |-> 0, bufferedBytes |-> 0]

Assembling == buffer.length > 0

Appended(chunk) ==
    LET consumed == Min({Len(chunk), buffer.length - Len(buffer.assembly)})
        rest == SubSeq(chunk, consumed + 1, Len(chunk))
    IN [buffer EXCEPT !.assembly = @ \o SubSeq(chunk, 1, consumed),
                      !.chunks = IF rest = <<>> THEN @ ELSE Append(@, rest),
                      !.bufferedBytes = @ + Len(rest)]

\* The bytes from the place reached on, and the first n of them.
Ahead == LET chunks == FlattenSeq(SubSeq(buffer.chunks, buffer.chunkIndex + 1, Len(buffer.chunks)))
         IN SubSeq(chunks, buffer.chunkOffset + 1, Len(chunks))

Peek(n) == SubSeq(Ahead, 1, n)

Compact(b) == CASE b.chunkIndex = Len(b.chunks) ->
                       [b EXCEPT !.chunks = <<>>, !.chunkIndex = 0, !.chunkOffset = 0]
                [] b.chunkIndex >= CompactAt /\ b.chunkIndex * 2 >= Len(b.chunks) /\ b.chunkIndex < Len(b.chunks) ->
                       [b EXCEPT !.chunks = SubSeq(@, b.chunkIndex + 1, Len(@)), !.chunkIndex = 0]
                [] OTHER -> b

\* The place n bytes further on: within a chunk, never at its end.
Place(n) ==
    LET ends == [i \in 0..Len(buffer.chunks) |-> Len(FlattenSeq(SubSeq(buffer.chunks, 1, i)))]
        at == ends[buffer.chunkIndex] + buffer.chunkOffset + n
        index == Max({i \in 0..Len(buffer.chunks) : ends[i] <= at})
    IN [index |-> index, offset |-> at - ends[index]]

Consumed(n) == Compact([buffer EXCEPT !.chunkIndex = Place(n).index, !.chunkOffset = Place(n).offset,
                                      !.bufferedBytes = @ - n])

\* What nextFrame finds: no whole frame, bytes that are none, or a frame.
FrameLength == Header + BodyLength(Peek(Header))

Finds == CASE Assembling -> IF Len(buffer.assembly) < buffer.length THEN "nothing"
                            ELSE IF Len(buffer.assembly) = buffer.length /\ Decodes(buffer.assembly)
                                 THEN "frame" ELSE "garbage"
           [] ~Assembling /\ buffer.bufferedBytes < Header -> "nothing"
           [] OTHER -> IF ~Decodes(Peek(Header)) THEN "garbage"
                       ELSE IF buffer.bufferedBytes < FrameLength THEN "part" ELSE "frame"

Found == IF Assembling THEN buffer.assembly ELSE Peek(FrameLength)

AfterFrame == IF Assembling THEN [buffer EXCEPT !.assembly = <<>>, !.length = 0] ELSE Consumed(FrameLength)

\* All that is there becomes the beginning of an assembly.
AfterPart == [Consumed(buffer.bufferedBytes) EXCEPT !.assembly = Peek(buffer.bufferedBytes), !.length = FrameLength]

---------------------------------------------------------------------------
\* The chunk assembler: bodies by request and kind of frame.
Keys == ({Management} \X {"event", "goaway"}) \cup (Requests \X {"reply"})

EmptyAssembler == [held |-> [k \in Keys |-> <<>>], totalBytes |-> 0, totalFrames |-> 0]

BytesHeld(k) == Len(FlattenSeq(assembler.held[k]))

Release(a, ks) ==
    LET freed == MapThenSumSet(LAMBDA k : Len(FlattenSeq(a.held[k])), ks)
        frames == MapThenSumSet(LAMBDA k : Len(a.held[k]), ks)
    IN [held |-> [k \in Keys |-> IF k \in ks THEN <<>> ELSE a.held[k]],
        totalBytes |-> Max({0, a.totalBytes - freed}), totalFrames |-> Max({0, a.totalFrames - frames})]

\* Slip: a timeout forgets what was assembled without giving its budget back.
DiscardWithoutBudget(a, r) ==
    [a EXCEPT !.held = [k \in Keys |-> IF k[1] = r THEN <<>> ELSE a.held[k]]]

DiscardRequest(a, r) == Release(a, {k \in Keys : k[1] = r})

Whole(f, k) == ~f.more /\ assembler.held[k] = <<>>

WithinLimits(f, k) ==
    /\ BytesHeld(k) + f.body <= Min({maxChunkBytes, maxResponseBytes})
    /\ assembler.totalBytes + f.body <= maxChunkBytes
    /\ assembler.totalFrames + 1 <= maxChunkFrames

Hold(k, body) == [held |-> [assembler.held EXCEPT ![k] = Append(@, body)],
                  totalBytes |-> assembler.totalBytes + Len(body),
                  totalFrames |-> assembler.totalFrames + 1]

\* The response a last frame completes.
Joined(k, body) == FlattenSeq(assembler.held[k]) \o body

---------------------------------------------------------------------------
Init == /\ stream \in Streams
        /\ arrived = 0
        /\ buffer = EmptyBuffer
        /\ turn = 0
        /\ drainScheduled = FALSE /\ paused = FALSE /\ stopped = FALSE /\ draining = FALSE
        /\ pending = [r \in Requests |-> "pending"]
        /\ assembler = EmptyAssembler
        /\ discarded = [r \in Requests |-> [bytes |-> 0, frames |-> 0]]
        /\ received = <<>>
        /\ answer = [r \in Requests |-> <<>>]

Open(s) == s \in {"pending", "timedOut"}

\* fail() and failAll(): the connection is closed, every request rejected.
Fail == /\ stopped' = TRUE
        /\ buffer' = EmptyBuffer
        /\ assembler' = EmptyAssembler
        /\ turn' = 0
        /\ pending' = [r \in Requests |-> IF Open(pending[r]) THEN "failed" ELSE pending[r]]
        /\ UNCHANGED <<stream, arrived, drainScheduled, paused, draining, discarded, received, answer>>

\* onData; a socket that is paused delivers nothing.
Receive(n) ==
    /\ turn = 0 /\ ~paused /\ ~stopped
    /\ arrived + n <= Len(Wire)
    /\ arrived' = arrived + n
    /\ buffer' = Appended(SubSeq(Wire, arrived + 1, arrived + n))
    /\ turn' = IF drainScheduled THEN 0 ELSE MaxFramesPerDecode
    /\ UNCHANGED <<stream, drainScheduled, paused, stopped, draining, pending, assembler, discarded, received, answer>>

\* The immediate of scheduleDrain.
DrainAgain ==
    /\ turn = 0 /\ drainScheduled
    /\ drainScheduled' = FALSE
    /\ turn' = IF stopped THEN 0 ELSE MaxFramesPerDecode
    /\ UNCHANGED <<stream, arrived, buffer, paused, stopped, draining, pending, assembler, discarded, received, answer>>

\* No whole frame is left: the pass ends, and the socket may go on.
Exhausted ==
    /\ turn > 0 /\ Finds \in {"nothing", "part"}
    /\ buffer' = IF Finds = "part" THEN AfterPart ELSE buffer
    /\ paused' = FALSE
    /\ turn' = 0
    /\ UNCHANGED <<stream, arrived, drainScheduled, stopped, draining, pending, assembler, discarded, received, answer>>

\* After a frame the pass goes on, or lets others run before it does; unless the handler
\* has closed the connection, as the end of the last request of a draining one does.
Goes(requests, goingAway) ==
    LET closes == goingAway /\ \A r \in Requests : ~Open(requests[r])
    IN /\ pending' = requests
       /\ draining' = goingAway
       /\ received' = Append(received, Found)
       /\ IF closes
          THEN /\ stopped' = TRUE /\ turn' = 0 /\ buffer' = EmptyBuffer
               /\ UNCHANGED <<paused, drainScheduled>>
          ELSE /\ buffer' = AfterFrame
               /\ turn' = turn - 1
               /\ IF turn = 1 THEN drainScheduled' = TRUE /\ paused' = TRUE
                              ELSE UNCHANGED <<drainScheduled, paused>>
               /\ UNCHANGED stopped
       /\ UNCHANGED <<stream, arrived>>

\* A frame of a request nobody waits for any more.
Unawaited(f) == /\ f.id \in Requests /\ ~Open(pending[f.id])
                /\ Goes(pending, draining)
                /\ UNCHANGED <<assembler, discarded, answer>>

\* A frame that is one of several, and not the last.
Chunk(f, body) ==
    LET k == <<f.id, f.op>>
    IN /\ k \in Keys /\ (f.id \in Requests => pending[f.id] = "pending")
       /\ f.more /\ WithinLimits(f, k)
       /\ assembler' = Hold(k, body)
       /\ Goes(pending, draining)
       /\ UNCHANGED <<discarded, answer>>

Completes(f, k) == /\ k \in Keys /\ ~f.more
                   /\ Whole(f, k) \/ WithinLimits(f, k)
                   /\ BytesHeld(k) + f.body <= maxResponseBytes

\* The last frame of a response, or its only one.
Response(f, body) ==
    LET k == <<f.id, f.op>>
    IN /\ f.id \in Requests /\ pending[f.id] = "pending"
       /\ Completes(f, k)
       /\ answer' = [answer EXCEPT ![f.id] = Joined(k, body)]
       /\ assembler' = DiscardRequest(assembler, f.id)
       /\ Goes([pending EXCEPT ![f.id] = "answered"], draining)
       /\ UNCHANGED discarded

ManagementFrame(f) ==
    LET k == <<f.id, f.op>>
    IN /\ f.id = Management
       /\ Completes(f, k)
       /\ assembler' = Release(assembler, {k})
       /\ Goes(pending, draining \/ f.op = "goaway")
       /\ UNCHANGED <<discarded, answer>>

Discards(f) == [bytes |-> discarded[f.id].bytes + f.body, frames |-> discarded[f.id].frames + 1]

WithinDiscardLimits(f) ==
    LET d == Discards(f)
    IN /\ d.bytes <= maxResponseBytes
       /\ d.frames > 1 \/ f.more => d.bytes <= maxChunkBytes
       /\ d.frames <= maxChunkFrames

\* The late response of a request that has timed out is counted, and thrown away.
DiscardTimedOutFrame(f) ==
    /\ f.id \in Requests /\ pending[f.id] = "timedOut" /\ f.op = "reply"
    /\ WithinDiscardLimits(f)
    /\ discarded' = [discarded EXCEPT ![f.id] = Discards(f)]
    /\ Goes(IF f.more THEN pending ELSE [pending EXCEPT ![f.id] = "expired"], draining)
    /\ UNCHANGED <<assembler, answer>>

\* Frames that break the protocol or a limit.
Unacceptable(f) ==
    LET k == <<f.id, f.op>>
    IN IF f.id = Management
       THEN \/ k \notin Keys
            \/ f.more /\ ~WithinLimits(f, k)
            \/ ~f.more /\ ~Completes(f, k)
       ELSE /\ Open(pending[f.id])
            /\ \/ f.op # "reply"
               \/ f.op = "reply" /\ pending[f.id] = "timedOut" /\ ~WithinDiscardLimits(f)
               \/ /\ f.op = "reply" /\ pending[f.id] = "pending"
                  /\ IF f.more THEN ~WithinLimits(f, k) ELSE ~Completes(f, k)

\* One round of drainFrames that finds something: handleFrame, or fail.
HandleFrame ==
    /\ turn > 0
    /\ \/ Finds = "garbage" /\ Fail
       \/ /\ Finds = "frame"
          /\ LET f == stream[Head(Found)[1]]
                 body == Body(Found)
             IN \/ Unawaited(f)
                \/ Chunk(f, body)
                \/ Response(f, body)
                \/ ManagementFrame(f)
                \/ DiscardTimedOutFrame(f)
                \/ Unacceptable(f) /\ Fail

\* The caller's timeout; what was assembled for it counts as thrown away.
TimesOut(r) ==
    /\ turn = 0 /\ pending[r] = "pending"
    /\ pending' = [pending EXCEPT ![r] = "timedOut"]
    /\ discarded' = [discarded EXCEPT ![r] = [bytes |-> BytesHeld(<<r, "reply">>),
                                              frames |-> Len(assembler.held[<<r, "reply">>])]]
    /\ assembler' = DiscardRequest(assembler, r)
    /\ UNCHANGED <<stream, arrived, buffer, turn, drainScheduled, paused, stopped, draining, received, answer>>

\* No answer came within the grace period.
GraceEnds(r) == turn = 0 /\ pending[r] = "timedOut" /\ Fail

Progress == (\E n \in 1..Len(Wire) : Receive(n)) \/ DrainAgain \/ Exhausted \/ HandleFrame

Next == Progress \/ \E r \in Requests : TimesOut(r) \/ GraceEnds(r)

---------------------------------------------------------------------------
\* However the bytes are cut, the frames handed over are those sent, whole and in order;
\* none is taken for garbage but one that is too long.
FramesInOrder == /\ received = [i \in DOMAIN received |-> BytesOf(i)]
                 /\ turn > 0 /\ Finds = "garbage" => stream[Len(received) + 1].body > maxFrameBytes

\* The bytes of all frames of a request up to its last one.
Sent(r) == LET of == {i \in DOMAIN received : stream[i].id = r}
               last == Min({i \in of : ~stream[i].more})
           IN FlattenSeq([i \in 1..last |-> IF i \in of THEN Body(BytesOf(i)) ELSE <<>>])

\* An answer is all of its response, however it was interleaved with others, and no longer
\* than allowed.
AnswersWhole == \A r \in Requests : pending[r] = "answered" =>
                    answer[r] = Sent(r) /\ Len(answer[r]) <= maxResponseBytes

\* The shared budget of the assembler is what it holds, and it holds nothing for a request
\* that has ended or timed out, whose frames are counted instead.
BudgetKept ==
    ~stopped =>
      /\ assembler.totalBytes = MapThenSumSet(BytesHeld, Keys)
      /\ assembler.totalFrames = MapThenSumSet(LAMBDA k : Len(assembler.held[k]), Keys)
      /\ \A r \in Requests :
            /\ pending[r] # "pending" => assembler.held[<<r, "reply">>] = <<>>
            /\ pending[r] = "timedOut" =>
                   discarded[r].frames = Cardinality({i \in DOMAIN received : stream[i].id = r})

\* The socket is paused only until the scheduled pass, and when it is not, no frame that has
\* arrived waits for others to come.
NothingWaits ==
    turn = 0 /\ ~stopped => /\ paused = drainScheduled
                            /\ ~paused => Finds = "nothing"
                            /\ buffer.bufferedBytes = Len(Ahead)

ReceivesFaithfully == FramesInOrder /\ AnswersWhole /\ BudgetKept /\ NothingWaits

\* All that is sent is handed over, or the connection has ended.
Drained == stopped \/ Len(received) = Len(stream)
=============================================================================
