--------------------------- MODULE NativePipeline ---------------------------
(***************************************************************************)
(* The execution of a pipeline on one native connection:                   *)
(* native-pipeline-execution.ts, the fallback of pipeline-execution.ts and *)
(* tryPipelineCommand of protocol.ts.                                      *)
(*                                                                         *)
(* A pipeline becomes one frame, or several when it has more commands than *)
(* the server allows or when its compact form is too long, or a request    *)
(* for each command.  The connection below is external: a request waits to *)
(* be written, is written, and is answered or fails.                       *)
(***************************************************************************)
EXTENDS Naturals, Sequences, FiniteSets, Functions

CONSTANT Pipelines  \* the calls: [commands, ordered, dependencies, concurrency, throws,
                    \* maxCommands, maxBytes, fused]; a command is [kind, bytes]

VARIABLES call,
          chunks,    \* what is left to execute: [items, collects]
          stage,     \* of the first chunk: next, frame, individually
          state,     \* of each command: idle, waiting, queued, sent, ok, error, lost
          slots,     \* AsyncSlotPool: those that wait, oldest first
          results,
          rejected,  \* the positions in results that carry a rejection flag
          outcome,
          sends      \* history: how often each command was written

vars == <<call, chunks, stage, state, slots, results, rejected, outcome, sends>>

Indices == DOMAIN call.commands
Settled == {"ok", "error", "lost"}
Active == {i \in Indices : state[i] \in {"queued", "sent"}}

Pending == [kind |-> "pending", disposition |-> "none", index |-> 0]
Resolved == [Pending EXCEPT !.kind = "resolved"]
NotAttempted == [Pending EXCEPT !.kind = "undefined"]
Rejected(disposition) == [Pending EXCEPT !.kind = "rejected", !.disposition = disposition]
ItemError(i) == [Rejected("answered") EXCEPT !.index = i]

FromTo(i, j) == [k \in 1..(j - i + 1) |-> i + k - 1]

\* Slip: each chunk gets the throwOnItemError of the call.
ThrowingChunksOf(c) ==
    LET n == Len(c.commands)
        size == IF c.maxCommands = 0 \/ n <= c.maxCommands THEN n ELSE c.maxCommands
    IN [k \in 1..((n + size - 1) \div size) |->
          [items |-> FromTo((k - 1) * size + 1, IF k * size < n THEN k * size ELSE n),
           collects |-> FALSE]]

\* Chunks of maxPipelineCommands; the items of one of several never throw.
ChunksOf(c) ==
    LET n == Len(c.commands)
        size == IF c.maxCommands = 0 \/ n <= c.maxCommands THEN n ELSE c.maxCommands
    IN [k \in 1..((n + size - 1) \div size) |->
          [items |-> FromTo((k - 1) * size + 1, IF k * size < n THEN k * size ELSE n),
           collects |-> n > size]]

Init == /\ call \in Pipelines
        /\ chunks = ChunksOf(call)
        /\ stage = "next"
        /\ state = [i \in Indices |-> "idle"]
        /\ slots = <<>>
        /\ results = <<>>
        /\ rejected = {}
        /\ outcome = Pending
        /\ sends = [i \in Indices |-> 0]

---------------------------------------------------------------------------
TotalBytes(items) == FoldFunction(LAMBDA i, total : total + call.commands[i].bytes, 0, items)
Kinds(items) == {call.commands[i].kind : i \in Range(items)}

\* What tryPipelineCommand and the encoding of the request make of a chunk.  Only the
\* compact form is measured where RequestFrameTooLargeError is caught.
Encoding(items) ==
    CASE Kinds(items) = {"compact"} -> IF TotalBytes(items) <= call.maxBytes THEN "frame" ELSE "tooLarge"
      [] Kinds(items) # {"compact"} /\ "invalid" \in Kinds(items) -> "invalid"
      [] Kinds(items) # {"compact"} /\ "invalid" \notin Kinds(items) ->
            IF Kinds(items) \cap {"control", "session"} # {} THEN "unsupported"
            ELSE IF TotalBytes(items) <= call.maxBytes THEN "frame" ELSE "unsent"

Chunk == Head(chunks)
Items == Range(Chunk.items)

SendFrame ==
    /\ Encoding(Chunk.items) = "frame"
    /\ stage' = "frame"
    /\ state' = [i \in Indices |-> IF i \in Items THEN "queued" ELSE state[i]]
    /\ UNCHANGED <<call, chunks, slots, results, rejected, outcome, sends>>

\* The chunk cannot be encoded, or its frame is too long.
Refuse ==
    /\ Encoding(Chunk.items) \in {"invalid", "unsent"}
    /\ outcome' = Rejected(IF Encoding(Chunk.items) = "unsent" THEN "unsent" ELSE "none")
    /\ UNCHANGED <<call, chunks, stage, state, slots, results, rejected, sends>>

Halve ==
    /\ Encoding(Chunk.items) = "tooLarge" /\ Len(Chunk.items) > 1
    /\ LET middle == (Len(Chunk.items) + 1) \div 2
           Half(from, to) == [items |-> SubSeq(Chunk.items, from, to), collects |-> TRUE]
       IN chunks' = <<Half(1, middle), Half(middle + 1, Len(Chunk.items))>> \o Tail(chunks)
    /\ UNCHANGED <<call, stage, state, slots, results, rejected, outcome, sends>>

BeginIndividually ==
    /\ stage' = "individually"
    /\ UNCHANGED <<call, chunks, state, slots, results, rejected, outcome, sends>>

\* executeChunk, and executeNativePipeline of a server without pipelines.
Begin == /\ outcome = Pending /\ stage = "next" /\ chunks # <<>> /\ ~call.fused
         /\ IF call.maxCommands = 0 THEN BeginIndividually
            ELSE \/ SendFrame \/ Refuse \/ Halve
                 \/ /\ \/ Encoding(Chunk.items) = "unsupported"
                       \/ Encoding(Chunk.items) = "tooLarge" /\ Len(Chunk.items) = 1
                    /\ BeginIndividually

\* executeNativeFusedPipeline: one frame, or nothing.
BeginFused ==
    /\ outcome = Pending /\ stage = "next" /\ chunks # <<>> /\ call.fused
    /\ IF call.maxCommands < Len(call.commands) \/ Encoding(Chunk.items) \in {"tooLarge", "unsupported"}
       THEN /\ outcome' = NotAttempted
            /\ UNCHANGED <<call, chunks, stage, state, slots, results, rejected, sends>>
       ELSE SendFrame \/ Refuse

---------------------------------------------------------------------------
\* The results of the first chunk, its commands standing at s, join those before it.
TakeResults(s) ==
    LET failed == {k \in DOMAIN Chunk.items : s[Chunk.items[k]] # "ok"} IN
    /\ state' = s
    /\ IF call.throws /\ ~Chunk.collects /\ failed # {}
       THEN /\ outcome' = ItemError(Chunk.items[CHOOSE k \in failed : \A l \in failed : k <= l])
            /\ UNCHANGED <<chunks, stage, results, rejected>>
       ELSE /\ results' = results \o [k \in DOMAIN Chunk.items |-> s[Chunk.items[k]]]
            /\ rejected' = IF stage = "frame" THEN rejected
                           ELSE rejected \cup {Len(results) + k : k \in failed}
            /\ chunks' = Tail(chunks)
            /\ stage' = "next"
            /\ UNCHANGED outcome

\* The frame is written; it is answered, with an outcome for each item; the answer has
\* another number of items; or it fails, before or after it is written.
WriteFrame == /\ stage = "frame" /\ outcome = Pending
              /\ \A i \in Items : state[i] = "queued"
              /\ state' = [i \in Indices |-> IF i \in Items THEN "sent" ELSE state[i]]
              /\ sends' = [i \in Indices |-> IF i \in Items THEN sends[i] + 1 ELSE sends[i]]
              /\ UNCHANGED <<call, chunks, stage, slots, results, rejected, outcome>>

FrameAnswered == /\ stage = "frame" /\ outcome = Pending
                 /\ \A i \in Items : state[i] = "sent"
                 /\ \E answer \in [Items -> {"ok", "error"}] :
                       TakeResults([i \in Indices |-> IF i \in Items THEN answer[i] ELSE state[i]])
                 /\ UNCHANGED <<call, slots, sends>>

FrameFails == /\ stage = "frame" /\ outcome = Pending
              /\ \/ /\ \A i \in Items : state[i] = "queued"
                    /\ outcome' = Rejected("unsent")
                 \/ /\ \A i \in Items : state[i] = "sent"
                    /\ outcome' \in {Rejected("none"), Rejected("possibly_sent")}
              /\ state' = [i \in Indices |-> IF i \in Items THEN "lost" ELSE state[i]]
              /\ UNCHANGED <<call, chunks, stage, slots, results, rejected, sends>>

---------------------------------------------------------------------------
(* executeCommandArraysIndividually                                        *)

Ordered == call.ordered \/ "session" \in Kinds(Chunk.items)

FallbackConcurrency == IF Ordered THEN 1 ELSE call.concurrency

\* A command starts when its turn comes: those it depends on have settled, or, without
\* dependencies, a worker has taken all before it.
MayStart(i) ==
    IF Ordered \/ call.dependencies = {}
    THEN /\ \A j \in Items : j < i => state[j] # "idle"
         /\ Cardinality(Active) < FallbackConcurrency
    ELSE \A j \in Items : j < i /\ <<j, i>> \in call.dependencies => state[j] \in Settled

Start(i) ==
    /\ stage = "individually" /\ outcome = Pending
    /\ i \in Items /\ state[i] = "idle" /\ MayStart(i)
    /\ IF Cardinality(Active) < FallbackConcurrency
       THEN state' = [state EXCEPT ![i] = "queued"] /\ UNCHANGED slots
       ELSE state' = [state EXCEPT ![i] = "waiting"] /\ slots' = Append(slots, i)
    /\ UNCHANGED <<call, chunks, stage, results, rejected, outcome, sends>>

Write(i) == /\ stage = "individually" /\ outcome = Pending
            /\ i \in Items /\ state[i] = "queued"
            /\ call.commands[i].kind # "invalid" /\ call.commands[i].bytes <= call.maxBytes
            /\ state' = [state EXCEPT ![i] = "sent"]
            /\ sends' = [sends EXCEPT ![i] = @ + 1]
            /\ UNCHANGED <<call, chunks, stage, slots, results, rejected, outcome>>

\* A command is answered, or fails before or after it is written; its slot goes to the
\* one that has waited longest.
Settle(i) ==
    /\ stage = "individually" /\ outcome = Pending
    /\ i \in Items
    /\ \E s \in {"ok", "error"} :
          /\ state[i] = "sent" \/ (state[i] = "queued" /\ s = "error")
          /\ state' = [j \in Indices |-> IF j = i THEN s
                                         ELSE IF slots # <<>> /\ j = Head(slots) THEN "queued"
                                         ELSE state[j]]
          /\ slots' = IF slots = <<>> THEN <<>> ELSE Tail(slots)
    /\ UNCHANGED <<call, chunks, stage, results, rejected, outcome, sends>>

EndIndividually == /\ stage = "individually" /\ outcome = Pending
                   /\ \A i \in Items : state[i] \in Settled
                   /\ TakeResults(state)
                   /\ UNCHANGED <<call, slots, sends>>

---------------------------------------------------------------------------
\* surfaceFirstPipelineItemError, for a call whose chunks were told not to throw.
Finish == /\ outcome = Pending /\ chunks = <<>>
          /\ LET failed == {i \in DOMAIN results : i \in rejected \/ results[i] = "error"} IN
             outcome' = IF call.throws /\ failed # {}
                        THEN ItemError(CHOOSE i \in failed : \A j \in failed : i <= j)
                        ELSE Resolved
          /\ UNCHANGED <<call, chunks, stage, state, slots, results, rejected, sends>>

Next == \/ Begin \/ BeginFused
        \/ WriteFrame \/ FrameAnswered \/ FrameFails
        \/ \E i \in Indices : Start(i) \/ Write(i) \/ Settle(i)
        \/ EndIndividually \/ Finish

Spec == Init /\ [][Next]_vars

\* Requests are answered or fail.
FairSpec == Spec /\ WF_vars(Next)

---------------------------------------------------------------------------
Succeeded(i) == state[i] = "ok"

\* However a pipeline is cut and wherever it fails, no command is written twice; one is
\* written only when those it depends on have settled, or with them, after them, in one
\* frame; a pipeline that ends leaves nothing under way; the results are those of the
\* commands, in their order; an item's error is the first, and nothing was left out
\* because of it.
PipelineOutcomes ==
    /\ \A i \in Indices : sends[i] <= 1
    /\ \A i, j \in Indices :
          i < j /\ (call.ordered \/ <<i, j>> \in call.dependencies) /\ state[j] = "sent"
             => state[i] \in Settled \/ (stage = "frame" /\ {i, j} \subseteq Items)
    /\ outcome # Pending => \A i \in Indices : state[i] \notin {"waiting", "queued", "sent"}
    /\ outcome = Resolved =>
          /\ results = [i \in Indices |-> state[i]]
          /\ \A i \in rejected : state[i] = "error"
          /\ call.throws => \A i \in Indices : Succeeded(i)
    /\ outcome.index # 0 =>
          /\ ~Succeeded(outcome.index) /\ \A i \in 1..(outcome.index - 1) : Succeeded(i)
          /\ \A i \in Indices : state[i] \in Settled
    /\ outcome = NotAttempted => \A i \in Indices : sends[i] = 0

\* README.md:231: "ConnectionClosedError.requestDisposition exposes this decision as
\* "unsent" or "possibly_sent"": a pipeline that was rejected as unsent has had no effect.
UnsentPipelineUnsent == outcome.disposition = "unsent" => \A i \in Indices : sends[i] = 0
=============================================================================
