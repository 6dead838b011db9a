---------------------------- MODULE FlowPayloads ----------------------------
(***************************************************************************)
(* The requests of the Flow commands that carry items or claim work        *)
(* (protocol-flow.ts, protocol-flow-compact*.ts), and the choice of a      *)
(* command's request (protocol.ts).  The limit on the size of a request is *)
(* that of ProtocolCodec.                                                  *)
(***************************************************************************)
EXTENDS FlowProtocol

NotMixedOrAuto(partition, auto) == TextOf(partition) \notin {"MIXED"} \cup auto
Owned(partition, auto) ==
    IF NotMixedOrAuto(partition, auto) THEN [partition_key |-> One(partition)] ELSE << >>

\* A request of items, compact when that loses nothing: at is where the items begin.
ManyRequest(command, args, at, fields, parts, extra, compact, lossless) ==
    LET items == ParseItems(After(args, at + 1), parts)
    IN IF ~items.ok THEN items
       ELSE Good(IF compact /\ lossless THEN Compact(command, fields @@ extra, items.value)
                 ELSE Typed(fields @@ extra, items.value))

---------------------------------------------------------------------------
CreateManyGrammar ==
    Plain({"TYPE", "STATE", "NOW", "RUN_AT", "PRIORITY", "IDEMPOTENT", "INDEPENDENT", "MAX_ACTIVE_MS",
           "RETENTION_TTL_MS", "ATTRIBUTE", "STATE_META"} \cup ValueTokens)

\* What a compact createMany has no room for.
CompactCreateMany(fields) ==
    /\ Lacks(fields, {"priority", "idempotent", "max_active_ms", "retention_ttl_ms", "attributes",
                      "state_meta", "values", "value_refs"})
    /\ {"type", "states", "now_ms"} \subseteq DOMAIN fields

FlowCreateManyPayload(args, compact) ==
    LET at == FindItemToken(args, 2)
        fields == ParseFlowOptions(args, 2, at - 1, [CreateManyGrammar EXCEPT !.required = {"type"}])
        mixed == TextOf(args[1]) = "MIXED"
        owned == Owned(args[1], {"AUTO", "NONE"})
        packed == compact /\ CompactCreateMany(fields.value)
        runAt == IF packed /\ ~Has(fields.value, "run_at_ms")
                 THEN [run_at_ms |-> fields.value["now_ms"]] ELSE << >>
    IN IF at = 0 THEN Undefined
       ELSE IF ~fields.ok THEN fields
       ELSE IF TextOf(args[at]) = "ITEMS_EXT"
       THEN IF ~IsNumber(args[at + 1]) THEN Thrown
            ELSE LET items == ParseItemsExt(After(args, at + 2), ValueOf(args[at + 1]),
                                            <<"id", "partition_key", "payload">>)
                 IN IF items.ok THEN Good(Typed(fields.value @@ owned, items.value)) ELSE items
       ELSE ManyRequest("FLOW.CREATE_MANY", args, at, fields.value,
                        IF mixed THEN <<"id", "partition_key", "payload">> ELSE <<"id", "payload">>,
                        owned @@ runAt, compact, CompactCreateMany(fields.value))

---------------------------------------------------------------------------
ClaimedManyGrammar(command) ==
    WithPayload({"NOW", "INDEPENDENT", "PAYLOAD", "RETURN"} \cup ChangeTokens
                \cup (CASE command = "FLOW.COMPLETE_MANY" -> {"RESULT", "TTL"}
                        [] command = "FLOW.RETRY_MANY" -> {"ERROR", "RUN_AT"}
                        [] OTHER -> {"ERROR", "TTL"}), {})

\* Slip: the compact form of a batch is built whatever was to change.
CompactUnlessRead(command, fields) ==
    /\ Lacks(fields, {"error", "payload"}) /\ Has(fields, "now_ms") /\ OkOrNothing(fields)
    /\ IF command = "FLOW.RETRY_MANY" THEN Has(fields, "run_at_ms") ELSE Lacks(fields, {"result", "ttl_ms"})

CompactClaimedMany(command, fields) ==
    /\ Lacks(fields, Changed \cup {"error", "payload"})
    /\ Has(fields, "now_ms") /\ OkOrNothing(fields)
    /\ IF command = "FLOW.RETRY_MANY" THEN Has(fields, "run_at_ms")
       ELSE Lacks(fields, {"result", "ttl_ms"})

FlowClaimedManyPayload(command, args, compact) ==
    LET at == FindItemToken(args, 2)
        fields == ParseFlowOptions(args, 2, at - 1, ClaimedManyGrammar(command))
    IN IF at = 0 THEN Undefined
       ELSE IF ~fields.ok THEN fields
       ELSE ManyRequest(command, args, at, fields.value,
                        IF TextOf(args[1]) = "MIXED"
                        THEN <<"id", "partition_key", "lease_token", "fencing_token">>
                        ELSE <<"id", "lease_token", "fencing_token">>,
                        Owned(args[1], {"AUTO"}), compact, CompactClaimedMany(command, fields.value))

\* Only the compact form is built here; the server reads the other.
CompactCancelMany(args) ==
    LET at == FindItemToken(args, 2)
        fields == ParseFlowOptions(args, 2, at - 1,
                                   Plain({"REASON", "TTL", "NOW", "INDEPENDENT", "RETURN"} \cup ChangeTokens))
        mixed == TextOf(args[1]) = "MIXED"
    IN IF at = 0 \/ ~CommandTokenIs(args[at], "ITEMS") THEN Undefined
       ELSE IF ~fields.ok THEN fields
       ELSE IF \/ ~Lacks(fields.value, Changed \cup {"reason", "ttl_ms"})
               \/ ~Has(fields.value, "now_ms") \/ ~OkOrNothing(fields.value)
       THEN Undefined
       ELSE ManyRequest("FLOW.CANCEL_MANY", args, at, fields.value,
                        IF mixed THEN <<"id", "partition_key", "fencing_token">> ELSE <<"id", "fencing_token">>,
                        IF mixed THEN << >> ELSE [partition_key |-> One(args[1])], TRUE, TRUE)

TransitionManyGrammar ==
    WithPayload({"PAYLOAD", "RUN_AT", "PRIORITY", "NOW", "INDEPENDENT", "RETURN"} \cup ChangeTokens, {})

CompactTransitionMany(fields) ==
    Lacks(fields, Changed \cup {"payload", "priority"}) /\ Has(fields, "now_ms") /\ OkOrNothing(fields)

FlowTransitionManyPayload(args, compact) ==
    LET at == FindItemToken(args, 4)
        fields == ParseFlowOptions(args, 4, at - 1, TransitionManyGrammar)
        mixed == TextOf(args[1]) = "MIXED"
        packed == compact /\ CompactTransitionMany(fields.value)
        items == ParseItems(After(args, at + 1),
                            IF mixed THEN <<"id", "partition_key", "fencing_token", "lease_token">>
                            ELSE <<"id", "fencing_token", "lease_token">>)
        \* "-" is no lease
        leased == [i \in DOMAIN items.value |->
                      Keep(items.value[i], DOMAIN items.value[i]
                           \ (IF CommandTokenIs(The(items.value[i], "lease_token"), "-")
                              THEN {"lease_token"} ELSE {}))]
        all == [from_state |-> One(args[2]), to_state |-> One(args[3])] @@ fields.value
               @@ (IF mixed THEN << >> ELSE [partition_key |-> One(args[1])])
    IN IF at = 0 THEN Undefined
       ELSE IF ~fields.ok THEN fields
       ELSE IF ~items.ok THEN items
       ELSE Good(IF packed THEN Compact("FLOW.TRANSITION_MANY", all @@ [run_at_ms |-> all["now_ms"]], leased)
                 ELSE Typed(all, leased))

SpawnGrammar ==
    Plain({"GROUP", "WAIT", "NOW", "PARTITION", "LEASE_TOKEN", "FENCING", "WAIT_STATE", "SUCCESS",
           "FAILURE", "FROM_STATE", "ON_CHILD_FAILED", "ON_PARENT_CLOSED", "MAX_ACTIVE_MS"} \cup ValueTokens)

FlowSpawnChildrenPayload(args) ==
    LET at == FindItemToken(args, 2)
        fields == ParseFlowOptions(args, 2, at - 1, SpawnGrammar)
        mixed == at < Len(args) /\ CommandTokenIs(args[at + 1], "MIXED")
        children == IF TextOf(args[at]) = "ITEMS_EXT"
                    THEN IF ~IsNumber(args[at + 1]) THEN Thrown
                         ELSE ParseItemsExt(After(args, at + 2), ValueOf(args[at + 1]),
                                            <<"id", "partition_key", "type", "payload">>)
                    ELSE ParseItems(After(args, at + (IF mixed THEN 2 ELSE 1)),
                                    IF mixed THEN <<"id", "partition_key", "type", "payload">>
                                    ELSE <<"id", "type", "payload">>)
    IN IF at = 0 THEN Undefined
       ELSE IF ~fields.ok THEN fields
       ELSE IF ~children.ok THEN children
       ELSE Good(Typed([id |-> One(args[1])] @@ fields.value, children.value))

---------------------------------------------------------------------------
\* Claims.
ClaimGrammar ==
    Reading({"STATE", "STATES", "PARTITION", "PARTITIONS", "WORKER", "LEASE_MS", "LIMIT", "PRIORITY", "NOW",
             "BLOCK", "BLOCK_MS", "RECLAIM_EXPIRED", "RECLAIM_RATIO", "RETURN", "INCLUDE_STATE"} \cup ReadTokens)

CompactModes == {"JOBS_COMPACT", "JOBS_COMPACT_STATE", "JOBS_COMPACT_ATTRS", "JOBS_COMPACT_STATE_ATTRS"}

\* Several states, and what is read with a job, have no room in a compact claim.
CompactClaim(fields) ==
    /\ Lacks(fields, {"now_ms", "payload_max_bytes", "value_max_bytes", "values", "include_state"})
    /\ Has(fields, "states") => Len(fields["states"]) = 1 /\ ~Has(fields, "listed")
    /\ ~Says(fields, "payload", "true") /\ {"worker", "lease_ms", "limit"} \subseteq DOMAIN fields

ExpandFlowClaimStates(args) ==
    LET Expanded[i \in 1..(Len(args) + 1)] ==
            IF i > Len(args) THEN <<>>
            ELSE IF CommandTokenIs(args[i], "STATES")
            THEN LET count == ValueOf(args[i + 1])
                 IN FlattenSeq([k \in 1..count |-> <<Str("STATE"), args[i + 1 + k]>>]) \o Expanded[i + 2 + count]
            ELSE <<args[i]>> \o Expanded[i + 1]
    IN Expanded[1]

\* A state given in a list stays one: "listed" stands for a payload with states, not state.
Listed(args, fields) ==
    IF Has(fields, "states") /\ \E i \in 2..Len(args) : CommandTokenIs(args[i], "STATES")
    THEN fields @@ [listed |-> One(Str("true"))] ELSE fields

ReclaimDefaults == [reclaim_expired |-> One(Str("true")), reclaim_ratio |-> One(Num(25))]

FlowClaimDuePayload(args, compact) ==
    LET fields == ParseFlowOptions(args, 2, Len(args), ClaimGrammar)
        several == Has(fields.value, "states") /\ Len(fields.value["states"]) > 1
        listed == Listed(args, fields.value)
        all == [type |-> One(args[1])] @@ fields.value
    IN IF ~fields.ok THEN fields
       ELSE IF ~Has(fields.value, "return") \/ The(fields.value, "return").text \notin CompactModes
       THEN Good(Exec(IF several THEN ExpandFlowClaimStates(args) ELSE args, Routing(fields.value)))
       ELSE IF compact /\ CompactClaim(listed)
       THEN \* the partitions, or else the partition
            Good(Compact("FLOW.CLAIM_DUE",
                         Keep(all @@ ReclaimDefaults,
                              DOMAIN (all @@ ReclaimDefaults)
                              \ (IF Has(all, "partition_keys") THEN {"partition_key"} ELSE {})), <<>>))
       ELSE Good(Typed(all, <<>>))

---------------------------------------------------------------------------
\* protocol.ts: the request of a command.
BuildProtocolCommand(command, args, compact) ==
    Sent(CASE command = "FLOW.HISTORY" -> FlowHistoryPayload(args)
           [] command = "FLOW.VALUE.MGET" -> FlowValueMGetPayload(args, compact)
           [] command = "FLOW.CREATE_MANY" -> FlowCreateManyPayload(args, compact)
           [] command = "FLOW.CLAIM_DUE" -> FlowClaimDuePayload(args, compact)
           [] command \in ClaimedMany -> FlowClaimedManyPayload(command, args, compact)
           [] command = "FLOW.CANCEL_MANY" -> IF compact THEN CompactCancelMany(args) ELSE Undefined
           [] command = "FLOW.TRANSITION_MANY" -> FlowTransitionManyPayload(args, compact)
           [] command = "FLOW.SPAWN_CHILDREN" -> FlowSpawnChildrenPayload(args)
           [] command \in Administration -> FlowAdminPayload(args, AdminFront[command])
           [] command = "FLOW.START_AND_CLAIM" -> FlowAdminPayload(args, <<"id">>)
           [] command = "FLOW.STEP_CONTINUE" ->
                  FlowAdminPayload(args, <<"id", "lease_token", "from_state", "to_state">>)
           [] command \in {"FLOW.CANCEL", "FLOW.EXTEND_LEASE", "FLOW.REWIND"} ->
                  Good(FlowCommandExecWithRouting(command, args))
           [] OTHER -> SinglePayload(command, args), args)
=============================================================================
