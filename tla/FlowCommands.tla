---------------------------- MODULE FlowCommands ----------------------------
(***************************************************************************)
(* The client's Flow commands: how a call becomes the arguments of a       *)
(* command (client-mutations.ts, client-producer.ts, client-claims.ts,     *)
(* client-flow-support.ts, client.ts).  Those of administration are in     *)
(* FlowAdministration.                                                     *)
(***************************************************************************)
EXTENDS FlowAdministration

---------------------------------------------------------------------------
\* The options of a command, in the order they are appended: <<token, name>>.
ValuesOf == <<<<"VALUE", "values">>, <<"VALUE_REF", "value_refs">>>>
NamedValues == ValuesOf \o <<<<"DROP_VALUE", "drop_values">>, <<"OVERRIDE_VALUE", "override_values">>>>
AttributeMutations == <<<<"ATTRIBUTE_MERGE", "attributes_merge">>, <<"ATTRIBUTE_DELETE", "attributes_delete">>>>
Changes == <<<<"STATE_META", "state_meta">>>> \o NamedValues \o AttributeMutations
Described == Attributed \o <<<<"STATE_META", "state_meta">>>>
Fenced == <<<<"FENCING", "fencing_token">>, <<"NOW", "now_ms">>, <<"PARTITION", "partition_key">>>>
Lineage == <<<<"PARENT_FLOW_ID", "parent_flow_id">>, <<"ROOT_FLOW_ID", "root_flow_id">>,
             <<"CORRELATION_ID", "correlation_id">>>>
Read == <<<<"PAYLOAD", "payload">>, <<"VALUE", "values">>, <<"VALUE_MAX_BYTES", "value_max_bytes">>>>

CreateOptions ==
    <<<<"TYPE", "type">>, <<"STATE", "state">>, <<"NOW", "now_ms">>,
      <<"PARTITION", "partition_key">>, <<"PAYLOAD", "payload">>>> \o Lineage
      \o <<<<"RUN_AT", "run_at_ms">>, <<"PRIORITY", "priority">>,
      <<"IDEMPOTENT", "idempotent">>, <<"RETENTION_TTL_MS", "retention_ttl_ms">>,
      <<"MAX_ACTIVE_MS", "max_active_ms">>>> \o Described \o ValuesOf
CreateManyOptions ==
    <<<<"TYPE", "type">>, <<"STATE", "state">>, <<"NOW", "now_ms">>, <<"RUN_AT", "run_at_ms">>,
      <<"PRIORITY", "priority">>, <<"IDEMPOTENT", "idempotent">>,
      <<"INDEPENDENT", "independent">>, <<"RETENTION_TTL_MS", "retention_ttl_ms">>,
      <<"MAX_ACTIVE_MS", "max_active_ms">>>> \o Described \o ValuesOf
TransitionOptions ==
    <<<<"LEASE_TOKEN", "lease_token">>>> \o Fenced \o <<<<"PAYLOAD", "payload">>,
      <<"RUN_AT", "run_at_ms">>, <<"PRIORITY", "priority">>>> \o Changes
CompleteOptions ==
    Fenced \o <<<<"RESULT", "result">>, <<"PAYLOAD", "payload">>, <<"TTL", "ttl_ms">>>>
      \o Changes
RetryOptions ==
    Fenced \o <<<<"ERROR", "error">>, <<"PAYLOAD", "payload">>, <<"RUN_AT", "run_at_ms">>>>
      \o Changes
FailOptions ==
    Fenced \o <<<<"ERROR", "error">>, <<"PAYLOAD", "payload">>, <<"TTL", "ttl_ms">>>>
      \o Changes
CancelOptions ==
    <<<<"FENCING", "fencing_token">>, <<"NOW", "now_ms">>, <<"LEASE_TOKEN", "lease_token">>,
      <<"PARTITION", "partition_key">>, <<"REASON", "reason">>, <<"TTL", "ttl_ms">>>>
      \o Changes
CompleteManyOptions ==
    <<<<"RESULT", "result">>, <<"PAYLOAD", "payload">>, <<"TTL", "ttl_ms">>,
      <<"NOW", "now_ms">>, <<"INDEPENDENT", "independent">>, <<"RETURN", "return">>>>
      \o Changes
RetryManyOptions ==
    <<<<"ERROR", "error">>, <<"PAYLOAD", "payload">>, <<"RUN_AT", "run_at_ms">>,
      <<"NOW", "now_ms">>, <<"INDEPENDENT", "independent">>, <<"RETURN", "return">>>>
      \o Changes
FailManyOptions ==
    <<<<"ERROR", "error">>, <<"PAYLOAD", "payload">>, <<"TTL", "ttl_ms">>, <<"NOW", "now_ms">>,
      <<"INDEPENDENT", "independent">>, <<"RETURN", "return">>>> \o Changes
CancelManyOptions ==
    <<<<"REASON", "reason">>, <<"TTL", "ttl_ms">>, <<"NOW", "now_ms">>,
      <<"INDEPENDENT", "independent">>>> \o Changes
TransitionManyOptions ==
    <<<<"PAYLOAD", "payload">>, <<"RUN_AT", "run_at_ms">>, <<"PRIORITY", "priority">>,
      <<"NOW", "now_ms">>, <<"INDEPENDENT", "independent">>>> \o Changes
SpawnChildrenOptions ==
    <<<<"GROUP", "group_id">>, <<"WAIT", "wait">>, <<"NOW", "now_ms">>,
      <<"PARTITION", "partition_key">>, <<"LEASE_TOKEN", "lease_token">>,
      <<"FENCING", "fencing_token">>, <<"WAIT_STATE", "wait_state">>, <<"SUCCESS", "success">>,
      <<"FAILURE", "failure">>, <<"FROM_STATE", "from_state">>,
      <<"ON_CHILD_FAILED", "on_child_failed">>, <<"ON_PARENT_CLOSED", "on_parent_closed">>,
      <<"MAX_ACTIVE_MS", "max_active_ms">>>> \o ValuesOf
RewindOptions ==
    <<<<"NOW", "now_ms">>, <<"PARTITION", "partition_key">>, <<"TO_EVENT", "to_event">>,
      <<"EXPECT_STATE", "expect_state">>, <<"REASON", "reason">>>>
GetOptions ==
    <<<<"PARTITION", "partition_key">>, <<"FULL", "full">>>> \o Read
HistoryOptions ==
    <<<<"PARTITION", "partition_key">>, <<"COUNT", "count">>, <<"FROM_EVENT", "from_event">>,
      <<"TO_EVENT", "to_event">>, <<"FROM_MS", "from_ms">>, <<"TO_MS", "to_ms">>,
      <<"FROM_VERSION", "from_version">>, <<"TO_VERSION", "to_version">>, <<"REV", "rev">>,
      <<"EVENT", "event">>, <<"WORKER", "worker">>, <<"INCLUDE_COLD", "include_cold">>,
      <<"CONSISTENT_PROJECTION", "consistent_projection">>, <<"VALUES", "values">>,
      <<"PAYLOAD_MAX_BYTES", "payload_max_bytes">>>>
SignalOptions ==
    <<<<"SIGNAL", "signal">>, <<"PARTITION", "partition_key">>,
      <<"IDEMPOTENCY", "idempotency_key">>, <<"IF_STATE", "if_state">>,
      <<"TRANSITION_TO", "transition_to">>, <<"RUN_AT", "run_at_ms">>, <<"NOW", "now_ms">>>>
      \o NamedValues
ValuePutOptions ==
    <<<<"NOW", "now_ms">>, <<"PARTITION", "partition_key">>,
      <<"OWNER_FLOW_ID", "owner_flow_id">>, <<"NAME", "name">>, <<"OVERRIDE", "override">>,
      <<"TTL", "ttl_ms">>>>
ValueMGetOptions ==
    <<<<"MAX_BYTES", "max_bytes">>>>
StartAndClaimOptions ==
    <<<<"TYPE", "type">>, <<"INITIAL_STATE", "initial_state">>, <<"WORKER", "worker">>,
      <<"LEASE_MS", "lease_ms">>, <<"NOW", "now_ms">>, <<"PARTITION", "partition_key">>,
      <<"PAYLOAD", "payload">>>> \o Lineage \o <<<<"PRIORITY", "priority">>,
      <<"RETENTION_TTL_MS", "retention_ttl_ms">>, <<"MAX_ACTIVE_MS", "max_active_ms">>>>
      \o Described \o ValuesOf
StepContinueOptions ==
    <<<<"FENCING", "fencing_token">>, <<"LEASE_MS", "lease_ms">>, <<"NOW", "now_ms">>,
      <<"PARTITION", "partition_key">>, <<"WORKER", "worker">>, <<"PAYLOAD", "payload">>,
      <<"RETURN", "return">>>> \o Changes
ExtendLeaseOptions ==
    <<<<"FENCING", "fencing_token">>, <<"LEASE_MS", "lease_ms">>, <<"NOW", "now_ms">>,
      <<"PARTITION", "partition_key">>, <<"RETURN", "return">>>>
ClaimDueOptions ==
    <<<<"STATE", "state">>, <<"STATES", "states">>, <<"WORKER", "worker">>,
      <<"LEASE_MS", "lease_ms">>, <<"LIMIT", "limit">>, <<"NOW", "now_ms">>,
      <<"PARTITION", "partition_key">>, <<"PARTITIONS", "partition_keys">>,
      <<"PRIORITY", "priority">>, <<"RETURN", "return">>, <<"BLOCK", "block_ms">>>> \o Read
      \o <<<<"RECLAIM_EXPIRED", "reclaim_expired">>, <<"RECLAIM_RATIO", "reclaim_ratio">>>>
ReclaimOptions ==
    <<<<"WORKER", "worker">>, <<"LEASE_MS", "lease_ms">>, <<"LIMIT", "limit">>,
      <<"NOW", "now_ms">>, <<"PARTITION", "partition_key">>,
      <<"PARTITIONS", "partition_keys">>, <<"PRIORITY", "priority">>, <<"RETURN", "return">>>>
      \o Read

Options ==
    ("FLOW.CREATE" :> CreateOptions) @@ ("FLOW.CREATE_MANY" :> CreateManyOptions) @@
    ("FLOW.TRANSITION" :> TransitionOptions) @@ ("FLOW.COMPLETE" :> CompleteOptions) @@
    ("FLOW.RETRY" :> RetryOptions) @@ ("FLOW.FAIL" :> FailOptions) @@
    ("FLOW.CANCEL" :> CancelOptions) @@ ("FLOW.COMPLETE_MANY" :> CompleteManyOptions) @@
    ("FLOW.RETRY_MANY" :> RetryManyOptions) @@ ("FLOW.FAIL_MANY" :> FailManyOptions) @@
    ("FLOW.CANCEL_MANY" :> CancelManyOptions) @@
    ("FLOW.TRANSITION_MANY" :> TransitionManyOptions) @@
    ("FLOW.SPAWN_CHILDREN" :> SpawnChildrenOptions) @@ ("FLOW.REWIND" :> RewindOptions) @@
    ("FLOW.GET" :> GetOptions) @@ ("FLOW.HISTORY" :> HistoryOptions) @@
    ("FLOW.SIGNAL" :> SignalOptions) @@ ("FLOW.VALUE.PUT" :> ValuePutOptions) @@
    ("FLOW.VALUE.MGET" :> ValueMGetOptions) @@
    ("FLOW.START_AND_CLAIM" :> StartAndClaimOptions) @@
    ("FLOW.STEP_CONTINUE" :> StepContinueOptions) @@
    ("FLOW.EXTEND_LEASE" :> ExtendLeaseOptions) @@ ("FLOW.CLAIM_DUE" :> ClaimDueOptions) @@
    ("FLOW.RECLAIM" :> ReclaimOptions) @@ AdminOptions

Claims == {"FLOW.CLAIM_DUE", "FLOW.RECLAIM"}
ClaimedMany == {"FLOW.COMPLETE_MANY", "FLOW.RETRY_MANY", "FLOW.FAIL_MANY"}
FencedMany == {"FLOW.CANCEL_MANY", "FLOW.TRANSITION_MANY"}
Many == ClaimedMany \cup FencedMany \cup {"FLOW.CREATE_MANY"}
WithItems == Many \cup {"FLOW.SPAWN_CHILDREN"}

\* What comes before the options.
Leading(command) ==
    CASE command \in Administration -> AdminFront[command]
      [] command = "FLOW.TRANSITION" -> <<"id", "from_state", "to_state">>
      [] command \in {"FLOW.COMPLETE", "FLOW.RETRY", "FLOW.FAIL", "FLOW.EXTEND_LEASE"} ->
             <<"id", "lease_token">>
      [] command = "FLOW.STEP_CONTINUE" -> <<"id", "lease_token", "from_state", "to_state">>
      [] command = "FLOW.TRANSITION_MANY" -> <<"partition", "from_state", "to_state">>
      [] command \in Many -> <<"partition">>
      [] command \in Claims -> <<"type">>
      [] command = "FLOW.VALUE.PUT" -> <<"value">>
      [] command = "FLOW.VALUE.MGET" -> <<>>
      [] OTHER -> <<"id">>

Appended(token, entries) == FlattenSeq([k \in DOMAIN entries |-> <<Str(token)>> \o entries[k]])

\* Lists that are sent with their length.
Counted(token, entries) == <<Str(token), Num(Len(entries))>> \o FlattenSeq(entries)

PayloadRead(fields) ==
    IF Says(fields, "payload", "false") THEN <<Str("NOPAYLOAD")>>
    ELSE (IF Has(fields, "payload") \/ Has(fields, "payload_max_bytes") THEN <<Str("PAYLOAD")>> ELSE <<>>)
         \o (IF Has(fields, "payload_max_bytes")
             THEN <<Str("MAXBYTES"), The(fields, "payload_max_bytes")>> ELSE <<>>)

EmitOption(command, fields, token, name) ==
    IF token = "PAYLOAD" /\ command \in Claims \cup {"FLOW.GET"} THEN PayloadRead(fields)
    ELSE IF ~Has(fields, name) THEN <<>>
    ELSE IF token \in {"PARTITIONS", "RESERVATION_IDS"} \/ (token = "STATES" /\ ~Says(fields, "return", "RECORDS"))
    THEN Counted(token, fields[name])
    ELSE Appended(IF token = "STATES" THEN "STATE" ELSE token, fields[name])

Emit(command, fields) ==
    LET Each(options) == [k \in DOMAIN options |-> EmitOption(command, fields, options[k][1], options[k][2])]
    IN FlattenSeq(Each(Options[command]))

---------------------------------------------------------------------------
\* What the client fills in.
AtClock == [now_ms |-> One(Num(Clock))]

ClaimDataRequested(fields) ==
    Says(fields, "payload", "true") \/ Has(fields, "payload_max_bytes") \/ Has(fields, "values")

JobOnly(fields) == Says(fields, "job_only", "true") /\ ~ClaimDataRequested(fields)

CompactClaimReturnMode(includeState, includeAttributes) ==
    IF includeState THEN IF includeAttributes THEN "JOBS_COMPACT_STATE_ATTRS" ELSE "JOBS_COMPACT_STATE"
    ELSE IF includeAttributes THEN "JOBS_COMPACT_ATTRS" ELSE "JOBS_COMPACT"

ReturnMode(command, fields) ==
    IF ~JobOnly(fields) THEN "RECORDS"
    ELSE CompactClaimReturnMode(command = "FLOW.RECLAIM" \/ Says(fields, "include_state", "true"),
                                Says(fields, "include_attributes", "true"))

Leased == [lease_ms |-> One(Num(30))]

Defaults(command, fields) ==
    CASE command \in {"FLOW.CREATE", "FLOW.CREATE_MANY"} ->
             [state |-> One(Str("queued")), run_at_ms |-> One(Or(fields, "now_ms", Num(Clock)))] @@ AtClock
      [] command = "FLOW.TRANSITION" -> [run_at_ms |-> One(Or(fields, "now_ms", Num(Clock)))] @@ AtClock
      [] command = "FLOW.SPAWN_CHILDREN" -> [group_id |-> One(Str("default")), wait |-> One(Str("all"))] @@ AtClock
      [] command \in {"FLOW.START_AND_CLAIM", "FLOW.STEP_CONTINUE"} -> Leased @@ AtClock
      [] command \in Claims -> Leased @@ [limit |-> One(Num(1)), return |-> One(Str(ReturnMode(command, fields)))]
                               @@ (IF command = "FLOW.RECLAIM" THEN AtClock ELSE << >>)
      [] command \in {"FLOW.GET", "FLOW.HISTORY", "FLOW.VALUE.MGET"} \cup Administration -> << >>
      [] OTHER -> AtClock

---------------------------------------------------------------------------
\* Items.
Bare(items) == \A i \in DOMAIN items : ~Has(items[i], "partition_key")
PartitionOf(item) == Or(item, "partition_key", Str("-"))

AssertManyPartitionMatches(call) ==
    Has(call.fields, "partition_key") =>
        \A i \in DOMAIN call.items :
            Or(call.items[i], "partition_key", The(call.fields, "partition_key")) = The(call.fields, "partition_key")

\* ATTRIBUTES and STATE_META are shared by the items of a createMany: FALSE when they differ.
Shareable(call, name) ==
    LET having == {i \in DOMAIN call.items : Has(call.items[i], name)}
    IN IF Has(call.fields, name) THEN \A i \in having : call.items[i][name] = call.fields[name]
       ELSE /\ \A i, j \in having : call.items[i][name] = call.items[j][name]
            /\ having \in {{}, DOMAIN call.items}

Shared(call, name) ==
    IF Has(call.fields, name) THEN name :> call.fields[name]
    ELSE IF Has(call.items[1], name) THEN name :> call.items[1][name]
    ELSE << >>

\* One map of names over another.
Named(fields, name) == IF Has(fields, name) THEN fields[name] ELSE <<>>
Over(entries, under) ==
    entries \o SelectSeq(under, LAMBDA e : \A k \in DOMAIN entries : entries[k][1] # e[1])

NamedCounts(values, refs) ==
    <<Num(Len(values))>> \o FlattenSeq(values) \o <<Num(Len(refs))>> \o FlattenSeq(refs)

Extended(items) == \E i \in DOMAIN items : Has(items[i], "values") \/ Has(items[i], "value_refs")

CreateItems(call, mixed) ==
    LET Part(i) == IF mixed THEN <<PartitionOf(call.items[i])>> ELSE <<>>
    IN IF Extended(call.items)
       THEN <<Str("ITEMS_EXT"), Num(Len(call.items))>> \o FlattenSeq([i \in DOMAIN call.items |->
                <<The(call.items[i], "id"), IF mixed THEN PartitionOf(call.items[i]) ELSE Str("-"),
                  The(call.items[i], "payload")>>
                \o NamedCounts(Over(Named(call.items[i], "values"), Named(call.fields, "values")),
                               Over(Named(call.items[i], "value_refs"), Named(call.fields, "value_refs")))])
       ELSE <<Str("ITEMS")>> \o FlattenSeq([i \in DOMAIN call.items |->
                <<The(call.items[i], "id")>> \o Part(i) \o <<The(call.items[i], "payload")>>])

ClaimedItems(call) ==
    <<Str("ITEMS")>> \o FlattenSeq([i \in DOMAIN call.items |->
        <<The(call.items[i], "id")>>
        \o (IF Has(call.fields, "partition_key") THEN <<>> ELSE <<PartitionOf(call.items[i])>>)
        \o <<The(call.items[i], "lease_token"), The(call.items[i], "fencing_token")>>])

FencedItems(call) ==
    <<Str("ITEMS")>> \o FlattenSeq([i \in DOMAIN call.items |->
        <<The(call.items[i], "id")>>
        \o (IF Has(call.fields, "partition_key") THEN <<>> ELSE <<PartitionOf(call.items[i])>>)
        \o <<The(call.items[i], "fencing_token")>>
        \o (IF call.command = "FLOW.TRANSITION_MANY"
            THEN <<Or(call.items[i], "lease_token", Bytes(""))>> ELSE <<>>)])

Child(child) == <<The(child, "type"), The(child, "payload")>>

Children(call) ==
    IF Extended(call.items)
    THEN <<Str("ITEMS_EXT"), Num(Len(call.items))>> \o FlattenSeq([i \in DOMAIN call.items |->
             <<The(call.items[i], "id"), PartitionOf(call.items[i])>> \o Child(call.items[i])
             \o NamedCounts(Named(call.items[i], "values"), Named(call.items[i], "value_refs"))])
    ELSE IF Bare(call.items)
    THEN <<Str("ITEMS")>> \o FlattenSeq([i \in DOMAIN call.items |->
             <<The(call.items[i], "id")>> \o Child(call.items[i])])
    ELSE <<Str("ITEMS"), Str("MIXED")>> \o FlattenSeq([i \in DOMAIN call.items |->
             <<The(call.items[i], "id"), The(call.items[i], "partition_key")>> \o Child(call.items[i])])

---------------------------------------------------------------------------
\* The calls themselves.
CreateMany(call) ==
    LET own == Has(call.fields, "partition_key")
        mixed == ~own /\ ~Bare(call.items)
        fields == call.fields @@ Shared(call, "attributes") @@ Shared(call, "state_meta")
                  @@ Defaults(call.command, call.fields)
        plain == [n \in DOMAIN fields \ {"values", "value_refs"} |-> fields[n]]
    IN IF \/ ~AssertManyPartitionMatches(call)
          \/ mixed /\ \E i \in DOMAIN call.items : ~Has(call.items[i], "partition_key")
          \/ ~Shareable(call, "attributes") \/ ~Shareable(call, "state_meta")
       THEN Refused
       ELSE Args(<<IF own THEN The(call.fields, "partition_key") ELSE Str(IF mixed THEN "MIXED" ELSE "AUTO")>>
                 \o Emit(call.command, IF Extended(call.items) THEN plain ELSE fields)
                 \o CreateItems(call, mixed))

MutateMany(call) ==
    LET fields == call.fields @@ Defaults(call.command, call.fields)
    IN IF ~AssertManyPartitionMatches(call) THEN Refused
       ELSE Args(<<Or(call.fields, "partition_key", Str("MIXED"))>>
                 \o [k \in 1..(Len(Leading(call.command)) - 1) |-> The(fields, Leading(call.command)[k + 1])]
                 \o Emit(call.command, fields)
                 \o (IF call.command \in ClaimedMany THEN ClaimedItems(call) ELSE FencedItems(call)))

SpawnChildren(call) ==
    LET fields == call.fields @@ Defaults(call.command, call.fields)
        mixed == ~Extended(call.items) /\ ~Bare(call.items)
    IN IF mixed /\ \E i \in DOMAIN call.items : ~Has(call.items[i], "partition_key") THEN Refused
       ELSE Args(<<The(fields, "id")>> \o Emit(call.command, fields) \o Children(call))

ClaimDue(call) ==
    LET fields == call.fields @@ Defaults(call.command, call.fields)
    IN IF \/ Has(fields, "state") /\ Has(fields, "states")
          \/ Has(fields, "partition_key") /\ Has(fields, "partition_keys")
          \/ /\ call.command = "FLOW.CLAIM_DUE"
             /\ Says(fields, "include_state", "true") /\ ~Says(fields, "job_only", "true")
       THEN Refused
       ELSE Args(<<The(fields, "type")>> \o Emit(call.command, fields))

ValueMGet(call) == Args(FlattenSeq(call.fields["refs"]) \o Emit(call.command, call.fields))

Single(call) ==
    LET fields == call.fields @@ Defaults(call.command, call.fields)
    IN IF \/ /\ call.command = "FLOW.VALUE.PUT"
             /\ Has(fields, "owner_flow_id") /\ Has(fields, "name") /\ Has(fields, "ttl_ms")
          \/ AdminRefused(call.command, fields)
       THEN Refused
       ELSE Args([k \in DOMAIN Leading(call.command) |-> The(fields, Leading(call.command)[k])]
                 \o Emit(call.command, fields))

Build(call) ==
    CASE call.command = "FLOW.CREATE_MANY" -> CreateMany(call)
      [] call.command \in ClaimedMany \cup FencedMany -> MutateMany(call)
      [] call.command = "FLOW.SPAWN_CHILDREN" -> SpawnChildren(call)
      [] call.command \in Claims -> ClaimDue(call)
      [] call.command = "FLOW.VALUE.MGET" -> ValueMGet(call)
      [] OTHER -> Single(call)
=============================================================================
