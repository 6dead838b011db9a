--------------------------- MODULE ProtocolCodec ---------------------------
(***************************************************************************)
(* The values and responses of the native protocol (protocol-value.ts,     *)
(* protocol-response.ts, protocol-compact-response.ts): what is planned,   *)
(* written and read, byte by byte.                                         *)
(*                                                                         *)
(* Widths and numbers are scaled down: a byte holds any length, count,     *)
(* integer or double, an integer modulo 2 * MaxI64 + 2.  Integers up to    *)
(* MaxSafe and down to its negative are numbers without loss.  A text is   *)
(* its UTF-8 bytes.                                                        *)
(***************************************************************************)
EXTENDS Integers, SequencesExt, FiniteSetsExt

CONSTANTS MaxDepth, MaxItems,      \* DEFAULT_MAX_VALUE_DEPTH and _ITEMS
          Null,                    \* NULL_U32
          MaxSafe, MaxI64

VARIABLE input   \* a value to encode, or the body of a compact response

---------------------------------------------------------------------------
\* Values of the caller: [t, v], a map being a sequence of entries <<key, value>>.
Value(t, v) == [t |-> t, v |-> v]
MaxU64 == 2 * MaxI64 + 1
IsSafe(n) == n \in -MaxSafe..MaxSafe

IsContainer(v) == v.t \in {"array", "map"}

Refused == [ok |-> FALSE, bytes |-> 0, items |-> 0, length |-> 0]

Consume(b, n) == IF b.ok /\ n <= b.bytes THEN [b EXCEPT !.bytes = @ - n, !.length = @ + n] ELSE Refused

\* The length of a scalar, 0 if it cannot be sent.
ScalarLength(v) ==
    CASE v.t \in {"undefined", "null", "true", "false"} -> 1
      [] v.t = "number" -> IF IsSafe(v.v) THEN 2 ELSE 0
      [] v.t = "bigint" -> IF v.v \in (-MaxI64 - 1)..MaxU64 THEN 2 ELSE 0
      [] v.t \in {"fraction", "minusZero"} -> 2
      [] v.t \in {"text", "binary"} -> 2 + Len(v.v)
      [] OTHER -> 0      \* a hole, a value within itself, an object of a class

\* Slip: the items of a container are compared with what is left, and not charged.
ChargeNothing(b, count) == IF count <= b.items THEN b ELSE Refused

Charge(b, count) == IF count <= b.items THEN [b EXCEPT !.items = @ - count] ELSE Refused

RECURSIVE Plan(_, _, _)

\* planValueAt: whether the value fits, and its length; the bytes and the items left are
\* shared by all its parts.
Plan(v, b, depth) ==
    CASE ~b.ok -> Refused
      [] ~IsContainer(v) -> IF ScalarLength(v) = 0 THEN Refused ELSE Consume(b, ScalarLength(v))
      [] OTHER ->
           IF depth >= MaxDepth \/ Len(v.v) > MaxItems THEN Refused
           ELSE LET head == Consume(Charge(b, Len(v.v)), 2)
                IN CASE v.t = "array" /\ Len(v.v) > head.bytes -> Refused
                     [] v.t = "array" -> FoldLeft(LAMBDA acc, i : Plan(i, acc, depth + 1), head, v.v)
                     [] OTHER -> FoldLeft(LAMBDA acc, e : Plan(e[2], Consume(acc, 1 + Len(e[1])), depth + 1),
                                          head, v.v)

PlanWithLimit(v, maxBytes) ==
    Plan(v, [ok |-> TRUE, bytes |-> maxBytes, items |-> MaxItems, length |-> 0], 0)

RECURSIVE Write(_)
Write(v) ==
    CASE v.t \in {"undefined", "null"} -> <<0>>
      [] v.t = "true" -> <<1>>
      [] v.t = "false" -> <<2>>
      [] v.t = "number" \/ (v.t = "bigint" /\ v.v <= MaxI64) -> <<3, v.v % (MaxU64 + 1)>>
      [] v.t = "bigint" /\ v.v > MaxI64 -> <<8, v.v>>
      [] v.t \in {"text", "binary"} -> <<4, Len(v.v)>> \o v.v
      [] v.t \in {"fraction", "minusZero"} -> <<7, v.v>>
      [] v.t = "array" -> <<5, Len(v.v)>> \o FlattenSeq([i \in DOMAIN v.v |-> Write(v.v[i])])
      [] v.t = "map" -> <<6, Len(v.v)>> \o FlattenSeq([i \in DOMAIN v.v |->
                            <<Len(v.v[i][1])>> \o v.v[i][1] \o Write(v.v[i][2])])

---------------------------------------------------------------------------
\* Reading: where it has come to, how many items may still follow, and what was read.
Start(at) == [ok |-> TRUE, at |-> at, items |-> MaxItems, value |-> <<>>]
Failed == [ok |-> FALSE, at |-> 0, items |-> 0, value |-> <<>>]

Byte(data, s) == IF s.ok /\ s.at <= Len(data) THEN [s EXCEPT !.at = @ + 1, !.value = data[s.at]] ELSE Failed

Take(data, s, n) == IF s.at + n - 1 <= Len(data)
                    THEN [s EXCEPT !.at = @ + n, !.value = Value("binary", SubSeq(data, s.at, s.at + n - 1))]
                    ELSE Failed

Binary(data, s) == LET size == Byte(data, s)
                   IN IF size.ok /\ size.value # Null THEN Take(data, size, size.value) ELSE Failed

OptionalBinary(data, s) == LET size == Byte(data, s)
                           IN CASE ~size.ok -> Failed
                                [] size.ok /\ size.value = Null -> [size EXCEPT !.value = Value("null", 0)]
                                [] OTHER -> Take(data, size, size.value)

ConsumeItems(s, n) == IF s.ok /\ n <= s.items THEN [s EXCEPT !.items = @ - n] ELSE Failed

\* A count, within the limits.
Container(data, s) == LET count == Byte(data, s)
                      IN IF count.ok /\ count.value <= MaxItems THEN ConsumeItems(count, count.value) ELSE Failed

Safe(n) == Value(IF IsSafe(n) THEN "number" ELSE "bigint", n)

Signed(n) == IF n > MaxI64 THEN n - MaxU64 - 1 ELSE n

Integer(data, s) == LET r == Byte(data, s) IN IF r.ok THEN [r EXCEPT !.value = Safe(Signed(@))] ELSE Failed

Unsigned(data, s) == LET r == Byte(data, s) IN IF r.ok THEN [r EXCEPT !.value = Safe(@)] ELSE Failed

\* As many reads, one after the other, as a count says: the sequence of what they read.
Each(s, Read(_)) ==
    FoldLeft(LAMBDA acc, i : IF ~acc.ok THEN Failed
                             ELSE LET r == Read([acc EXCEPT !.value = i])
                                  IN IF r.ok THEN [r EXCEPT !.value = Append(acc.value, r.value)] ELSE Failed,
             [s EXCEPT !.value = <<>>], [i \in 1..(IF s.ok THEN s.value ELSE 0) |-> i])

AsArray(s) == IF s.ok THEN [s EXCEPT !.value = Value("array", s.value)] ELSE Failed

\* setProtocolMapEntry refuses a second entry with the same key.
AsMap(s) == IF s.ok /\ IsInjective([i \in DOMAIN s.value |-> s.value[i][1]])
            THEN [s EXCEPT !.value = Value("map", s.value)] ELSE Failed

Entry(data, s, ReadOf(_)) ==
    LET key == Binary(data, s)
        item == ReadOf(key)
    IN IF key.ok /\ item.ok THEN [item EXCEPT !.value = <<key.value.v, @>>] ELSE Failed

RECURSIVE ReadValue(_, _, _)
ReadValue(data, s, depth) ==
    LET tag == Byte(data, s)
        Item(r) == ReadValue(data, r, depth + 1)
        count == IF depth >= MaxDepth THEN Failed ELSE Container(data, tag)
        double == Byte(data, tag)
    IN CASE ~tag.ok -> Failed
         [] tag.value = 0 -> [tag EXCEPT !.value = Value("null", 0)]
         [] tag.value = 1 -> [tag EXCEPT !.value = Value("true", 0)]
         [] tag.value = 2 -> [tag EXCEPT !.value = Value("false", 0)]
         [] tag.value = 3 -> Integer(data, tag)
         [] tag.value = 4 -> Binary(data, tag)
         [] tag.value = 5 -> AsArray(Each(count, Item))
         [] tag.value = 6 -> AsMap(Each(count, LAMBDA r : Entry(data, r, Item)))
         [] tag.value = 7 -> IF double.ok THEN [double EXCEPT !.value = Value("double", @)] ELSE Failed
         [] tag.value = 8 -> Unsigned(data, tag)
         [] OTHER -> Failed

\* Nothing may follow what was read.
Whole(data, s) == IF s.ok /\ s.at = Len(data) + 1 THEN s ELSE Failed

DecodeValue(data) == Whole(data, ReadValue(data, Start(1), 0))

---------------------------------------------------------------------------
\* Compact responses: a tag, a count of one byte, and what the tag says.
Tags == {"okList", "get", "mget", "mgetFixed", "integers", "lists", "maps", "claims", "records", "record",
         "pipeline"}
RecordTag == 6
RecordListTag == 2

\* Tags are only compared at the place where one must be.
Tagged(data, s, tag) == LET r == Byte(data, s) IN IF r.ok /\ r.value = tag THEN r ELSE Failed

OptionalItem(data, s) ==
    LET present == Byte(data, s)
    IN CASE present.ok /\ present.value = 0 -> [present EXCEPT !.value = Value("null", 0)]
         [] present.ok /\ present.value = 1 -> Binary(data, present)
         [] OTHER -> Failed

BinaryList(data, s) == AsArray(Each(Container(data, s), LAMBDA r : Binary(data, r)))

BinaryMap(data, s) ==
    AsMap(Each(Container(data, s), LAMBDA r : Entry(data, r, LAMBDA k : Binary(data, k))))

Fixed(data, s) ==
    LET count == Container(data, s)
        size == Byte(data, count)
    IN IF ~size.ok \/ size.value = Null \/ Len(data) # size.at - 1 + count.value * size.value THEN Failed
       ELSE AsArray(Each([size EXCEPT !.value = count.value], LAMBDA r : Take(data, r, size.value)))

\* A claimed job has an id, a partition, a lease and a fencing token, and in some modes the
\* state it runs in and its attributes.
Job(data, s, mode) ==
    LET id == Binary(data, s)
        partition == OptionalBinary(data, id)
        lease == Binary(data, partition)
        fencing == Integer(data, lease)
        state == OptionalBinary(data, fencing)
        size == CASE mode = "base" -> 4 [] mode = "state" -> 5 [] OTHER -> 6
        before == IF mode \in {"state", "stateAttrs"} THEN state ELSE fencing
        attributes == ReadValue(data, ConsumeItems(before, size), 0)
        last == IF mode \in {"attrs", "stateAttrs"} THEN attributes ELSE ConsumeItems(before, size)
        fields == <<id.value, partition.value, lease.value, fencing.value>>
    IN IF ~last.ok THEN Failed
       ELSE [last EXCEPT !.value = Value("array",
                CASE mode = "base" -> fields
                  [] mode = "state" -> fields \o <<state.value>>
                  [] mode = "attrs" -> fields \o <<Value("null", 0), attributes.value>>
                  [] OTHER -> fields \o <<state.value, attributes.value>>)]

JobsOf(data, s, mode) == AsArray(Each(Container(data, s), LAMBDA r : Job(data, r, mode)))

\* Without a mode the first one that fits all the bytes is taken.
Jobs(data, s, mode) ==
    LET candidates == SelectSeq(<<"stateAttrs", "attrs", "state", "base">>,
                                LAMBDA m : Whole(data, JobsOf(data, s, m)).ok)
    IN CASE mode # "unknown" -> JobsOf(data, s, mode)
         [] mode = "unknown" /\ candidates # <<>> -> JobsOf(data, s, Head(candidates))
         [] OTHER -> Failed

\* The fields of a flow: known ones by number, others by name.
RecordField(data, s) ==
    LET id == Byte(data, s)
        key == IF id.value = 0 THEN Binary(data, id) ELSE [id EXCEPT !.value = Value("binary", <<"field", @>>)]
        item == ReadValue(data, key, 0)
    IN IF id.ok /\ key.ok /\ item.ok THEN [item EXCEPT !.value = <<key.value.v, @>>] ELSE Failed

Record(data, s) == AsMap(Each(Container(data, Tagged(data, s, RecordTag)), LAMBDA r : RecordField(data, r)))

RecordList(data, s) == AsArray(Each(Container(data, Tagged(data, s, RecordListTag)), LAMBDA r : Record(data, r)))

ValueRef(data, s) ==
    LET ref == Binary(data, ConsumeItems(s, 1))
        Optional(r) == LET o == OptionalBinary(data, r)
                       IN IF o.ok /\ o.value.t # "null" THEN ConsumeItems(o, 1) ELSE o
        partition == Optional(ref)
        owner == Optional(partition)
        given == SelectSeq(<<<<<<"partition_key">>, partition.value>>, <<<<"owner_flow_id">>, owner.value>>>>,
                           LAMBDA e : e[2].t # "null")
    IN IF owner.ok THEN [owner EXCEPT !.value = Value("map", <<<<<<"ref">>, ref.value>>>> \o given)] ELSE Failed

\* An item of a pipeline: a status, and on success the kind of its value.
PipelineItem(data, s, mode) ==
    LET status == Byte(data, s)
        kind == Byte(data, status)
    IN CASE ~status.ok -> Failed
         [] status.value = 0 ->
              CASE ~kind.ok -> Failed
                [] kind.value = 0 -> [kind EXCEPT !.value = Value("null", 0)]
                [] kind.value = 1 -> Binary(data, kind)
                [] kind.value = 2 -> Record(data, kind)
                [] kind.value = 3 -> RecordList(data, kind)
                [] kind.value = 4 -> Job(data, kind, IF mode = "unknown" THEN "base" ELSE mode)
                [] kind.value = 5 -> ValueRef(data, kind)
                [] kind.value = 6 -> BinaryList(data, kind)
                [] kind.value = 7 -> BinaryMap(data, kind)
                [] OTHER -> Failed
         [] status.value \in {1, 2} -> Binary(data, status)
         [] OTHER -> Failed

Pipeline(data, s, mode) ==
    LET count == Container(data, s)
    IN IF count.ok /\ count.value <= (Len(data) - 1) \div 2
       THEN AsArray(Each(count, LAMBDA r : PipelineItem(data, r, mode))) ELSE Failed

\* The bytes after the tag; a flow record repeats its tag where it is an item.
DecodeCompact(tag, data, mode) ==
    Whole(data,
      CASE tag = "okList" ->
             LET count == Container(data, Start(1))
             IN AsArray(Each(count, LAMBDA r : [r EXCEPT !.value = Value("text", <<"OK">>)]))
        [] tag = "get" -> OptionalItem(data, Start(1))
        [] tag = "mget" -> AsArray(Each(Container(data, Start(1)), LAMBDA r : OptionalItem(data, r)))
        [] tag = "mgetFixed" -> Fixed(data, Start(1))
        [] tag = "integers" -> AsArray(Each(Container(data, Start(1)), LAMBDA r : Integer(data, r)))
        [] tag = "lists" -> AsArray(Each(Container(data, Start(1)), LAMBDA r : BinaryList(data, r)))
        [] tag = "maps" -> AsArray(Each(Container(data, Start(1)), LAMBDA r : BinaryMap(data, r)))
        [] tag = "claims" -> Jobs(data, Start(1), mode)
        [] tag = "record" -> Record(data, Start(1))
        [] tag = "records" -> RecordList(data, Start(1))
        [] tag = "pipeline" -> Pipeline(data, Start(1), mode))

\* validateCompactResponseItems.
Counted(tag) == tag \notin {"get", "record"}
Expected(tag, data, expected) == expected = Null \/ ~Counted(tag) \/ (Len(data) > 0 /\ data[1] = expected)

\* tryDecodeCompactResponse and decodeResponse: a custom payload is only decoded if the
\* status is OK, its codec was negotiated for the opcode and its tag is known.
Response(r) ==
    CASE r.compressed -> Failed
      [] ~r.compressed /\ r.custom ->
             IF r.status = 0 /\ r.supported /\ Expected(r.tag, r.data, r.expected)
             THEN DecodeCompact(r.tag, r.data, r.mode) ELSE Failed
      [] OTHER -> IF r.status = 0 THEN DecodeValue(r.data) ELSE Failed

Init(values, responses) == input \in values \cup responses

---------------------------------------------------------------------------
\* What a value of the caller is when it comes back.
RECURSIVE Normal(_)
Normal(v) == CASE v.t = "undefined" -> Value("null", 0)
               [] v.t = "bigint" -> Safe(v.v)
               [] v.t = "text" -> Value("binary", v.v)
               [] v.t \in {"fraction", "minusZero"} -> Value("double", v.v)
               [] v.t = "array" -> Value("array", [i \in DOMAIN v.v |-> Normal(v.v[i])])
               [] v.t = "map" -> Value("map", [i \in DOMAIN v.v |-> <<v.v[i][1], Normal(v.v[i][2])>>])
               [] OTHER -> v

Parts(v) == CASE v.t = "array" -> v.v
              [] v.t = "map" -> [i \in DOMAIN v.v |-> v.v[i][2]]
              [] OTHER -> <<>>

\* The number of items in all containers of a value, their depth, and whether all its
\* scalars can be sent.
RECURSIVE ItemsIn(_), Depth(_), Sendable(_)
ItemsIn(v) == Len(Parts(v)) + FoldLeft(LAMBDA n, p : n + ItemsIn(p), 0, Parts(v))
Depth(v) == IF IsContainer(v) THEN 1 + Max({0} \cup {Depth(Parts(v)[i]) : i \in DOMAIN Parts(v)}) ELSE 0
Sendable(v) == IF IsContainer(v) THEN \A i \in DOMAIN Parts(v) : Sendable(Parts(v)[i])
               ELSE ScalarLength(v) > 0

\* A value is accepted exactly if it is within the limits, its planned length is what is
\* written, and what is written is read as the value, by the same limits.
RoundTrips(v, maxBytes) ==
    LET p == PlanWithLimit(v, maxBytes)
    IN /\ p.ok <=> /\ Sendable(v) /\ Depth(v) <= MaxDepth /\ ItemsIn(v) <= MaxItems
                   /\ Len(Write(v)) <= maxBytes
       /\ p.ok => /\ p.length = Len(Write(v))
                  /\ DecodeValue(Write(v)).ok
                  /\ DecodeValue(Write(v)).value = Normal(v)

\* No response is taken from the beginning of another, unless its mode has to be guessed, and
\* none holds more items than the limit, whatever the bytes.
ReadsExactly(r) ==
    Response(r).ok => /\ \/ r.tag = "claims" /\ r.mode = "unknown"
                         \/ \A n \in 0..(Len(r.data) - 1) : ~Response([r EXCEPT !.data = SubSeq(@, 1, n)]).ok
                      /\ ItemsIn(Response(r).value) <= MaxItems

DecodesExactly == IF "maxBytes" \in DOMAIN input THEN RoundTrips(input.value, input.maxBytes)
                  ELSE ReadsExactly(input)
=============================================================================
