---------------------------- MODULE FlowProtocol ----------------------------
(***************************************************************************)
(* How the arguments of a Flow command become a request of the native      *)
(* protocol (protocol.ts, protocol-flow.ts, protocol-flow-options.ts,      *)
(* protocol-flow-items.ts, protocol-flow-compact*.ts): a typed payload, a  *)
(* compact one where nothing would be lost, or the arguments as they are   *)
(* for the server to read, when this grammar does not know them.           *)
(*                                                                         *)
(* A request is [form, fields, items], the fields and the parts of an item *)
(* as in FlowCommands, or [form, args, routing] for arguments as they are. *)
(***************************************************************************)
EXTENDS FlowCommands

Upper(text) == CASE text = "true" -> "TRUE" [] text = "false" -> "FALSE" [] text = "items" -> "ITEMS"
                 [] text = "partition" -> "PARTITION" [] OTHER -> text
TextOf(token) == Upper(token.text)
CommandTokenIs(token, text) == token.is \in {"string", "bytes"} /\ TextOf(token) = text

IsBoolToken(token) == TextOf(token) \in {"TRUE", "FALSE", "1", "0"}
BoolArg(token) == Str(IF TextOf(token) \in {"TRUE", "1"} THEN "true" ELSE "false")

\* What reading arguments comes to: what they say, undefined, or an error that is thrown.
Good(value) == [ok |-> TRUE, value |-> value]
Undefined == [ok |-> FALSE, thrown |-> FALSE]
Thrown == [ok |-> FALSE, thrown |-> TRUE]

---------------------------------------------------------------------------
\* parseFlowOptions: what each option's token stands for.
Scalars ==
    [TYPE |-> "type", PARTITION |-> "partition_key", PARENT_FLOW_ID |-> "parent_flow_id",
     ROOT_FLOW_ID |-> "root_flow_id", CORRELATION_ID |-> "correlation_id",
     OWNER_FLOW_ID |-> "owner_flow_id", NAME |-> "name", GROUP |-> "group_id", WAIT |-> "wait",
     WAIT_STATE |-> "wait_state", SUCCESS |-> "success", FAILURE |-> "failure",
     FROM_STATE |-> "from_state", ON_CHILD_FAILED |-> "on_child_failed",
     ON_PARENT_CLOSED |-> "on_parent_closed", SIGNAL |-> "signal", IDEMPOTENCY |-> "idempotency_key",
     TRANSITION_TO |-> "transition_to", TO_EVENT |-> "to_event", EXPECT_STATE |-> "expect_state",
     LEASE_TOKEN |-> "lease_token", RESULT |-> "result", ERROR |-> "error", REASON |-> "reason",
     WORKER |-> "worker", RETURN |-> "return", PAYLOAD |-> "payload"]

Numerics ==
    [LEASE_MS |-> "lease_ms", LIMIT |-> "limit", PRIORITY |-> "priority", NOW |-> "now_ms",
     RUN_AT |-> "run_at_ms", RETENTION_TTL_MS |-> "retention_ttl_ms",
     TTL |-> "ttl_ms", FENCING |-> "fencing_token",
     BLOCK |-> "block_ms", BLOCK_MS |-> "block_ms", RECLAIM_RATIO |-> "reclaim_ratio",
     MAXBYTES |-> "payload_max_bytes", VALUE_MAX_BYTES |-> "value_max_bytes"]

Flags == [IDEMPOTENT |-> "idempotent", INDEPENDENT |-> "independent",
          RECLAIM_EXPIRED |-> "reclaim_expired", INCLUDE_STATE |-> "include_state",
          FULL |-> "full", OVERRIDE |-> "override"]

Repeated == ("STATE" :> "states") @@
            [IF_STATE |-> "if_state", DROP_VALUE |-> "drop_values",
             OVERRIDE_VALUE |-> "override_values", ATTRIBUTE_DELETE |-> "attributes_delete"]

Pairs == [VALUE |-> "values", VALUE_REF |-> "value_refs", ATTRIBUTE |-> "attributes",
          ATTRIBUTE_MERGE |-> "attributes_merge", STATE_META |-> "state_meta"]

Lists == [STATES |-> "states", PARTITIONS |-> "partition_keys"]

IntegerOrInfinity(token) == token.text = "infinity" \/ IsNumber(token)

\* The option at args[i]: what it adds to which field, and where the next one is.
Entry(name, entries, next, adds) ==
    [ok |-> TRUE, name |-> name, entries |-> entries, next |-> next, adds |-> adds]

ParseCounted(args, i, end, name) ==
    IF i + 1 > end THEN Undefined
    ELSE IF ~IsNumber(args[i + 1]) THEN Thrown
    ELSE LET count == ValueOf(args[i + 1])
         IN IF i + 1 + count > end THEN Undefined
            ELSE Entry(name, [k \in 1..count |-> <<args[i + 1 + k]>>], i + 2 + count, name = "states")

ParseOption(args, i, end, how) ==
    LET token == TextOf(args[i])
        Take(name, width, adds) ==
            IF i + width - 1 > end THEN Undefined
            ELSE Entry(name, <<SubSeq(args, i + 1, i + width - 1)>>, i + width, adds)
    IN CASE token \notin how.allowed -> Undefined
         [] token = "VALUE" /\ how.readValues -> Take("values", 2, TRUE)
         [] token = "PAYLOAD" /\ ~how.payloadValue -> Entry("payload", One(Str("true")), i + 1, FALSE)
         [] token = "NOPAYLOAD" -> Entry("payload", One(Str("false")), i + 1, FALSE)
         [] token \in DOMAIN Pairs -> Take(Pairs[token], 3, TRUE)
         [] token \in DOMAIN Repeated -> Take(Repeated[token], 2, TRUE)
         [] token \in DOMAIN Lists -> ParseCounted(args, i, end, Lists[token])
         [] token \in DOMAIN Flags ->
                IF i + 1 <= end /\ IsBoolToken(args[i + 1])
                THEN Entry(Flags[token], One(BoolArg(args[i + 1])), i + 2, FALSE)
                ELSE Entry(Flags[token], One(Str("true")), i + 1, FALSE)
         [] token = "MAX_ACTIVE_MS" ->
                IF i + 1 <= end /\ ~IntegerOrInfinity(args[i + 1]) THEN Thrown
                ELSE Take("max_active_ms", 2, FALSE)
         [] token \in DOMAIN Numerics ->
                IF i + 1 <= end /\ ~IsNumber(args[i + 1]) THEN Thrown
                ELSE Take(Numerics[token], 2, FALSE)
         [] token \in DOMAIN Scalars -> Take(Scalars[token], 2, FALSE)
         [] OTHER -> Undefined

\* The options from start to end, one after another; what cannot be read ends the list.
Entries(args, start, end, how) ==
    LET From[i \in start..(end + 1)] ==
            LET Then(entry) == <<entry>> \o (IF entry.ok THEN From[entry.next] ELSE <<>>)
            IN IF i > end THEN <<>> ELSE Then(ParseOption(args, i, end, how))
    IN From[start]

Collected(entries, name) ==
    LET of == SelectSeq(entries, LAMBDA e : e.name = name)
    IN IF of[Len(of)].adds THEN FlattenSeq([k \in DOMAIN of |-> of[k].entries]) ELSE of[Len(of)].entries

\* The fields that options add up to.
FieldsOf(entries, required) ==
    IF entries # <<>> /\ ~Last(entries).ok THEN Last(entries)
    ELSE IF required \subseteq {entries[k].name : k \in DOMAIN entries}
    THEN Good([name \in {entries[k].name : k \in DOMAIN entries} |-> Collected(entries, name)])
    ELSE Undefined

ParseFlowOptions(args, start, end, how) == FieldsOf(Entries(args, start, end, how), how.required)

Plain(allowed) == [allowed |-> allowed, payloadValue |-> FALSE, readValues |-> FALSE, required |-> {}]
WithPayload(allowed, required) ==
    [allowed |-> allowed, payloadValue |-> TRUE, readValues |-> FALSE, required |-> required]
Reading(allowed) == [allowed |-> allowed, payloadValue |-> FALSE, readValues |-> TRUE, required |-> {}]

---------------------------------------------------------------------------
\* protocol-flow-items.ts: where the items begin, and what they are.
FindItemToken(args, start) ==
    LET At[i \in start..(Len(args) + 9)] ==
            IF i > Len(args) THEN 0
            ELSE LET token == TextOf(args[i])
                 IN CASE token \in {"ITEMS", "ITEMS_EXT"} -> i
                      [] token \in DOMAIN Pairs -> At[i + 3]
                      [] token \in DOMAIN Flags ->
                             At[i + (IF i < Len(args) /\ IsBoolToken(args[i + 1]) THEN 2 ELSE 1)]
                      [] token = "NOPAYLOAD" -> At[i + 1]
                      [] OTHER -> At[i + 2]
    IN At[start]

After(args, from) == SubSeq(args, from, Len(args))

\* The items of a list without names and counts: each has the parts named, in that order.
ParseItems(raw, parts) ==
    LET width == Len(parts)
    IN IF raw = <<>> \/ Len(raw) % width # 0 THEN Undefined
       ELSE Good([i \in 1..(Len(raw) \div width) |->
                     [p \in {parts[k] : k \in 1..width} |->
                         One(raw[(i - 1) * width + (CHOOSE k \in 1..width : parts[k] = p)])]])

\* A count and that many pairs of a name and a value; what follows them.
ParseNamedCountMap(raw, at) ==
    IF at > Len(raw) THEN Undefined
    ELSE IF ~IsNumber(raw[at]) THEN Thrown
    ELSE LET count == ValueOf(raw[at])
         IN IF at + 2 * count > Len(raw) THEN Undefined
            ELSE [ok |-> TRUE, pairs |-> [k \in 1..count |-> <<raw[at + 2 * k - 1], raw[at + 2 * k]>>],
                  next |-> at + 1 + 2 * count]

\* The items of ITEMS_EXT: the parts named, of which the second is the partition or "-", then
\* the values and the references.
ParseItemsExt(raw, count, parts) ==
    LET width == Len(parts)
        From[n \in 0..count] ==     \* the first n items, and where the next one is
            IF n = 0 THEN [ok |-> TRUE, items |-> <<>>, next |-> 1]
            ELSE LET before == From[n - 1]
                     at == before.next
                     values == ParseNamedCountMap(raw, at + width)
                     refs == ParseNamedCountMap(raw, values.next)
                     named == {parts[k] : k \in 1..width}
                              \ (IF CommandTokenIs(raw[at + 1], "-") THEN {"partition_key"} ELSE {})
                     item == [p \in named |-> One(raw[at - 1 + (CHOOSE k \in 1..width : parts[k] = p)])]
                 IN IF ~before.ok THEN before
                    ELSE IF at + width - 1 > Len(raw) THEN Undefined
                    ELSE IF ~values.ok THEN values
                    ELSE IF ~refs.ok THEN refs
                    ELSE [ok |-> TRUE,
                          items |-> Append(before.items,
                                           item @@ (IF values.pairs = <<>> THEN << >> ELSE [values |-> values.pairs])
                                                @@ (IF refs.pairs = <<>> THEN << >> ELSE [value_refs |-> refs.pairs])),
                          next |-> refs.next]
        all == From[count]
    IN IF ~all.ok THEN all
       ELSE IF all.next = Len(raw) + 1 THEN Good(all.items) ELSE Undefined

---------------------------------------------------------------------------
\* Requests.
Typed(fields, items) == [form |-> "typed", fields |-> fields, items |-> items]
Exec(args, routing) == [form |-> "exec", args |-> args, routing |-> routing]

Keep(fields, names) == [n \in names \cap DOMAIN fields |-> fields[n]]

\* What there is room for in the compact form of a command.
Room == LET timed == {"now_ms", "run_at_ms", "independent", "partition_key"}
        IN ("FLOW.CREATE_MANY" :> timed \cup {"type", "states"}) @@
           ("FLOW.RETRY_MANY" :> timed \cup {"return"}) @@
           ("FLOW.TRANSITION_MANY" :> timed \cup {"return", "from_state", "to_state"}) @@
           ("FLOW.VALUE.MGET" :> {"refs", "max_bytes"}) @@
           ("FLOW.CLAIM_DUE" :> {"type", "states", "worker", "lease_ms", "limit", "block_ms", "reclaim_expired",
                                 "reclaim_ratio", "priority", "return", "partition_key", "partition_keys"}) @@
           [command \in Many |-> (timed \ {"run_at_ms"}) \cup {"return"}]

Compact(command, fields, items) ==
    [form |-> "compact", fields |-> Keep(fields, Room[command]), items |-> items]

Lacks(fields, names) == names \cap DOMAIN fields = {}
Changed == {"state_meta", "values", "value_refs", "drop_values", "override_values",
            "attributes_merge", "attributes_delete"}
OkOrNothing(fields) == ~Has(fields, "return") \/ Says(fields, "return", "OK_ON_SUCCESS")
Routing(fields) == Keep(fields, {"partition_key", "partition_keys"})

\* What is undefined is sent as it is; what is thrown is not sent.
Sent(result, args) ==
    IF result.ok THEN result.value
    ELSE IF result.thrown THEN [form |-> "thrown"] ELSE Exec(args, << >>)

\* The fields at the front of the arguments, then the options.
Fronted(front, args, fields) ==
    IF ~fields.ok THEN fields
    ELSE IF Len(args) < Len(front) THEN Undefined
    ELSE Good(Typed([n \in {front[k] : k \in DOMAIN front} |->
                         One(args[CHOOSE k \in DOMAIN front : front[k] = n])] @@ fields.value, <<>>))

ValueTokens == {"VALUE", "VALUE_REF"}
ChangeTokens == {"STATE_META", "DROP_VALUE", "OVERRIDE_VALUE", "ATTRIBUTE_MERGE", "ATTRIBUTE_DELETE"} \cup ValueTokens
LeaseTokens == {"FENCING", "NOW", "PARTITION", "PAYLOAD"} \cup ChangeTokens
ReadTokens == {"PAYLOAD", "NOPAYLOAD", "MAXBYTES", "VALUE", "VALUE_MAX_BYTES"}
LeaseMutation(tokens) == WithPayload(LeaseTokens \cup tokens, {"fencing_token", "now_ms"})

CreateGrammar ==
    WithPayload({"TYPE", "STATE", "NOW", "PARTITION", "PAYLOAD", "PARENT_FLOW_ID", "ROOT_FLOW_ID",
                 "CORRELATION_ID", "RUN_AT", "PRIORITY", "IDEMPOTENT", "MAX_ACTIVE_MS",
                 "RETENTION_TTL_MS", "ATTRIBUTE", "STATE_META"} \cup ValueTokens,
                {"type", "states", "now_ms"})
GetGrammar == Reading({"PARTITION", "FULL"} \cup ReadTokens)
ValuePutGrammar == Plain({"NOW", "PARTITION", "OWNER_FLOW_ID", "NAME", "OVERRIDE", "TTL"})
CompleteGrammar == LeaseMutation({"RESULT", "TTL"})
RetryGrammar == LeaseMutation({"ERROR", "RUN_AT"})
FailGrammar == LeaseMutation({"ERROR", "TTL"})
TransitionGrammar ==
    WithPayload(LeaseTokens \cup {"LEASE_TOKEN", "RUN_AT", "PRIORITY"},
                {"lease_token", "fencing_token", "now_ms"})
SignalGrammar ==
    [Plain({"SIGNAL", "PARTITION", "IDEMPOTENCY", "IF_STATE", "TRANSITION_TO", "RUN_AT", "NOW",
            "DROP_VALUE", "OVERRIDE_VALUE"} \cup ValueTokens) EXCEPT !.required = {"signal"}]
ReclaimGrammar ==
    Reading({"STATE", "PARTITION", "PARTITIONS", "WORKER", "LEASE_MS", "LIMIT", "PRIORITY", "NOW",
             "RETURN", "INCLUDE_STATE"} \cup ReadTokens)
CancelGrammar ==
    WithPayload({"FENCING", "NOW", "LEASE_TOKEN", "PARTITION", "REASON", "TTL"} \cup ChangeTokens, {})
ExtendLeaseGrammar == WithPayload({"FENCING", "LEASE_MS", "NOW", "PARTITION", "RETURN"}, {})
RewindGrammar == WithPayload({"NOW", "PARTITION", "TO_EVENT", "EXPECT_STATE", "REASON"}, {})

Grammar ==
    ("FLOW.CREATE" :> CreateGrammar) @@ ("FLOW.GET" :> GetGrammar) @@
    ("FLOW.VALUE.PUT" :> ValuePutGrammar) @@ ("FLOW.COMPLETE" :> CompleteGrammar) @@
    ("FLOW.RETRY" :> RetryGrammar) @@ ("FLOW.FAIL" :> FailGrammar) @@
    ("FLOW.TRANSITION" :> TransitionGrammar) @@ ("FLOW.SIGNAL" :> SignalGrammar) @@
    ("FLOW.RECLAIM" :> ReclaimGrammar) @@ ("FLOW.CANCEL" :> CancelGrammar) @@
    ("FLOW.EXTEND_LEASE" :> ExtendLeaseGrammar) @@ ("FLOW.REWIND" :> RewindGrammar)

Heading(command) ==
    CASE command \in {"FLOW.CREATE", "FLOW.GET", "FLOW.SIGNAL", "FLOW.CANCEL", "FLOW.REWIND"} -> <<"id">>
      [] command = "FLOW.VALUE.PUT" -> <<"value">>
      [] command = "FLOW.RECLAIM" -> <<"type">>
      [] command = "FLOW.TRANSITION" -> <<"id", "from_state", "to_state">>
      [] OTHER -> <<"id", "lease_token">>

SinglePayload(command, args) ==
    Fronted(Heading(command), args,
            ParseFlowOptions(args, Len(Heading(command)) + 1, Len(args), Grammar[command]))

\* Commands the server reads itself, of which only the partition is read here.
FlowCommandExecWithRouting(command, args) ==
    LET start == Len(Heading(command)) + 1
        fields == ParseFlowOptions(args, start, Len(args), Grammar[command])
        hinted == \E i \in start..Len(args) :
                      CommandTokenIs(args[i], "PARTITION") \/ CommandTokenIs(args[i], "PARTITIONS")
    IN Exec(args, IF hinted /\ fields.ok THEN Routing(fields.value) ELSE << >>)

\* protocol-flow-admin.ts: options that are taken as they are, by the table of their fields.
FlowAdminPayload(args, front) ==
    LET Each[i \in 1..(Len(args) + 3)] ==
            IF i > Len(args) THEN <<>>
            ELSE LET token == TextOf(args[i])
                     Take(name, width, adds) ==
                         IF i + width - 1 > Len(args) THEN <<Undefined>>
                         ELSE <<Entry(name, <<SubSeq(args, i + 1, i + width - 1)>>, i + width, adds)>>
                              \o Each[i + width]
                 IN CASE token \in DOMAIN Pairs -> Take(Pairs[token], 3, TRUE)
                      [] token \in {"ATTRIBUTE_DELETE", "DROP_VALUE", "OVERRIDE_VALUE"} ->
                             Take(Repeated[token], 2, TRUE)
                      [] token = "RESERVATION_IDS" ->
                             LET ids == ParseCounted(args, i, Len(args), "reservation_ids")
                             IN <<IF ids.ok /\ ids.entries = <<>> THEN Undefined ELSE ids>>
                                \o (IF ids.ok /\ ids.entries # <<>> THEN Each[ids.next] ELSE <<>>)
                      [] token \in DOMAIN AdminFlags ->
                             IF i < Len(args) /\ IsBoolToken(args[i + 1])
                             THEN <<Entry(AdminFlags[token], One(BoolArg(args[i + 1])), i + 2, FALSE)>> \o Each[i + 2]
                             ELSE <<Undefined>>
                      [] token \in DOMAIN AdminScalars -> Take(AdminScalars[token], 2, FALSE)
                      [] OTHER -> <<Undefined>>
        entries == Each[Len(front) + 1]
    IN IF Len(args) < Len(front) THEN Undefined ELSE Fronted(front, args, FieldsOf(entries, {}))

HistoryScalars ==
    [COUNT |-> "count", PARTITION |-> "partition_key", FROM_EVENT |-> "from_event",
     TO_EVENT |-> "to_event", FROM_MS |-> "from_ms", TO_MS |-> "to_ms",
     FROM_VERSION |-> "from_version", TO_VERSION |-> "to_version", EVENT |-> "event",
     WORKER |-> "worker", PAYLOAD_MAX_BYTES |-> "payload_max_bytes", MAXBYTES |-> "payload_max_bytes"]
HistoryFlags == [REV |-> "rev", INCLUDE_COLD |-> "include_cold",
                 CONSISTENT_PROJECTION |-> "consistent_projection", VALUES |-> "values"]

FlowHistoryPayload(args) ==
    LET Token(k) == TextOf(args[2 * k])
        Value(k) == args[2 * k + 1]
        pairs == 1..((Len(args) - 1) \div 2)
        NameOf(k) == (HistoryScalars @@ HistoryFlags)[Token(k)]
    IN IF \/ Len(args) % 2 = 0
          \/ \E k \in pairs : \/ Token(k) \notin DOMAIN HistoryScalars \cup DOMAIN HistoryFlags
                              \/ Token(k) \in DOMAIN HistoryFlags /\ ~IsBoolToken(Value(k))
       THEN Undefined
       ELSE Good(Typed([id |-> One(args[1])] @@
                       [n \in {NameOf(k) : k \in pairs} |->
                           LET last == CHOOSE k \in pairs : NameOf(k) = n /\ \A j \in pairs : NameOf(j) = n => j <= k
                           IN One(IF n \in Range(HistoryFlags) THEN BoolArg(Value(last)) ELSE Value(last))],
                       <<>>))

\* Only a trailing size is an option of a value read: what looks like one is a reference.
SplitValueMGet(args) ==
    LET sized == /\ Len(args) >= 2 /\ TextOf(args[Len(args) - 1]) \in {"MAX_BYTES", "MAXBYTES"}
                 /\ IsNumber(args[Len(args)])
    IN [refs |-> IF sized THEN SubSeq(args, 1, Len(args) - 2) ELSE args,
        max |-> IF sized THEN [max_bytes |-> One(args[Len(args)])] ELSE << >>]

FlowValueMGetPayload(args, compact) ==
    LET split == SplitValueMGet(args)
        fields == [refs |-> [k \in DOMAIN split.refs |-> <<split.refs[k]>>]] @@ split.max
    IN IF split.refs = <<>> THEN Undefined
       ELSE Good(IF compact THEN Compact("FLOW.VALUE.MGET", fields, <<>>) ELSE Typed(fields, <<>>))
=============================================================================
