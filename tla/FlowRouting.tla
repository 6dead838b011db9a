---------------------------- MODULE FlowRouting ----------------------------
(***************************************************************************)
(* What the client reads from the arguments of a Flow command before it    *)
(* sends it: the key that routes it to a shard (topology-routing.ts), and  *)
(* the resources that keep its order in an automatic batch                 *)
(* (auto-batch-ordering.ts).  Neither knows the call the arguments were    *)
(* built from.                                                             *)
(***************************************************************************)
EXTENDS FlowPayloads

CONSTANTS AutoPartitions,   \* partitions named after a bucket of ids |-> an id of that bucket
          Colliding         \* texts whose keys fall into one slot

\* A key is the bucket of an id, a partition, every partition, or a reference.
NoKey == <<"none", "">>
AutoIdKey(token) == IF token.is = "number" THEN NoKey ELSE <<"auto", token.text>>
PartitionKey(token) ==
    IF token.is = "number" THEN NoKey
    ELSE IF token.text \in DOMAIN AutoPartitions THEN <<"auto", AutoPartitions[token.text]>>
    ELSE <<"partition", token.text>>
ClaimPartitionKey(token) ==
    IF CommandTokenIs(token, "AUTO") \/ CommandTokenIs(token, "ANY") THEN NoKey
    ELSE IF CommandTokenIs(token, "GLOBAL") THEN <<"global", "">>
    ELSE PartitionKey(token)
RefKey(token) == IF token.is = "number" THEN NoKey ELSE <<"ref", token.text>>

Slot(key) == IF key[2] \in Colliding THEN <<key[1], "shared">> ELSE key
SingleShardKey(keys) ==
    IF keys # <<>> /\ NoKey \notin Range(keys) /\ \A k \in DOMAIN keys : Slot(keys[k]) = Slot(keys[1])
    THEN keys[1] ELSE NoKey

FlowStateIdCommands ==
    {"FLOW.CANCEL", "FLOW.COMPLETE", "FLOW.CREATE", "FLOW.EFFECT.COMPENSATE", "FLOW.EFFECT.CONFIRM",
     "FLOW.EFFECT.FAIL", "FLOW.EFFECT.GET", "FLOW.EFFECT.RESERVE", "FLOW.EXTEND_LEASE", "FLOW.FAIL",
     "FLOW.GET", "FLOW.GOVERNANCE.LEDGER", "FLOW.HISTORY", "FLOW.RETRY", "FLOW.REWIND", "FLOW.SIGNAL", "FLOW.SPAWN_CHILDREN",
     "FLOW.START_AND_CLAIM", "FLOW.STEP_CONTINUE", "FLOW.TRANSITION"}

\* Slip: the partition is what follows its word.
PartitionByWord(command, args, request) ==
    LET at == CHOOSE i \in DOMAIN args : /\ CommandTokenIs(args[i], "PARTITION") \/ CommandTokenIs(args[i], "PARTITIONS")
                                         /\ \A j \in 1..(i - 1) : ~CommandTokenIs(args[j], "PARTITION")
    IN IF at < Len(args) THEN PartitionKey(args[at + 1]) ELSE NoKey

\* The partition of a request, or of what was read of one that is sent as it is; none when
\* the grammar does not know the arguments.
PartitionRoutingKey(command, args, request) ==
    LET fields == CASE request.form = "thrown" -> << >>
                    [] request.form = "exec" -> request.routing
                    [] OTHER -> request.fields
        Key(token) == IF command \in Claims THEN ClaimPartitionKey(token) ELSE PartitionKey(token)
        keys == Named(fields, "partition_keys")
    IN IF Has(fields, "partition_key") THEN Key(The(fields, "partition_key"))
       ELSE SingleShardKey([k \in DOMAIN keys |-> Key(keys[k][1])])

\* The key of a command whose request is the one given.
RoutedBy(command, args, request) ==
    LET hinted == \E i \in DOMAIN args :
                      CommandTokenIs(args[i], "PARTITION") \/ CommandTokenIs(args[i], "PARTITIONS")
        refs == SplitValueMGet(args).refs
    IN IF args = <<>> THEN NoKey
       ELSE IF command = "FLOW.VALUE.MGET"
       THEN SingleShardKey([k \in DOMAIN refs |-> RefKey(refs[k])])
       ELSE IF command \in FlowScheduleCommands THEN NoKey
       ELSE IF command \in FlowApprovalIdCommands \cup FlowGovernanceScopeCommands
       THEN PartitionKey(args[1])
       ELSE IF command \in Many
       THEN IF CommandTokenIs(args[1], "AUTO") \/ CommandTokenIs(args[1], "MIXED") THEN NoKey
            ELSE PartitionKey(args[1])
       ELSE IF hinted THEN PartitionRoutingKey(command, args, request)
       ELSE IF command = "FLOW.VALUE.PUT"
       THEN IF request.form = "typed" /\ Has(request.fields, "owner_flow_id") /\ Has(request.fields, "name")
            THEN AutoIdKey(The(request.fields, "owner_flow_id")) ELSE NoKey
       ELSE IF command \in FlowStateIdCommands THEN AutoIdKey(args[1])
       ELSE NoKey

FlowRoutingData(command, args) == RoutedBy(command, args, BuildProtocolCommand(command, args, FALSE))

---------------------------------------------------------------------------
\* The resources a command reads or writes, or Undefined: nothing passes it then.
IsResource(token) == token.is # "number"
FlowAccess(token, access) == <<"flow", token.text, access>>
Accesses(tokens, access) == Good({FlowAccess(tokens[k], access) : k \in DOMAIN tokens})

FlowIdReads == {"FLOW.GET", "FLOW.HISTORY"}
FlowIdWrites == {"FLOW.CANCEL", "FLOW.COMPLETE", "FLOW.CREATE", "FLOW.EXTEND_LEASE", "FLOW.FAIL",
                 "FLOW.RETRY", "FLOW.SIGNAL", "FLOW.START_AND_CLAIM", "FLOW.STEP_CONTINUE",
                 "FLOW.TRANSITION"}

\* The kinds the parts of an item must have.
IsKind(token, kind) ==
    CASE kind = "resource" -> IsResource(token)
      [] kind = "number" -> token.is = "number"
      [] OTHER -> token.is = "bytes"

\* Slip: the first "ITEMS" is taken for the marker when the count fits.
ItemsByCount(args, marker, kinds) ==
    LET count == Len(args) - marker
    IN IF CommandTokenIs(args[marker], "ITEMS") /\ count > 0 /\ count % Len(kinds) = 0
       THEN Good([k \in 1..(count \div Len(kinds)) |-> args[marker + 1 + (k - 1) * Len(kinds)]])
       ELSE Undefined

\* The ids of the items after the marker, if all that follows it are items of these kinds.
ItemsAt(args, marker, kinds) ==
    LET count == Len(args) - marker
        width == Len(kinds)
    IN IF /\ CommandTokenIs(args[marker], "ITEMS")
          /\ count > 0 /\ count % width = 0
          /\ \A i \in 1..count : IsKind(args[marker + i], kinds[((i - 1) % width) + 1])
       THEN Good([k \in 1..(count \div width) |-> args[marker + 1 + (k - 1) * width]])
       ELSE Undefined

\* The first marker that reads as one: any "ITEMS" may be a value.
FirstOf(results) ==
    LET good == {k \in DOMAIN results : results[k].ok}
    IN IF good = {} THEN Undefined ELSE results[CHOOSE k \in good : \A j \in good : k <= j]

FixedFlowItemIds(args, kinds) == FirstOf([m \in DOMAIN args |-> ItemsAt(args, m, kinds)])

SkipExtendedNamedItems(args, at, kind) ==
    IF at > Len(args) \/ args[at].is # "number" THEN 0
    ELSE LET count == ValueOf(args[at])
         IN IF /\ 2 * count <= Len(args) - at
               /\ \A k \in 1..count : IsResource(args[at + 2 * k - 1]) /\ IsKind(args[at + 2 * k], kind)
            THEN at + 1 + 2 * count ELSE 0

ExtendedCreateManyIds(args, marker) ==
    LET count == ValueOf(args[marker + 1])
        From[n \in 0..count] ==     \* the ids of the first n items, and where the next one is, or 0
            IF n = 0 THEN [ids |-> <<>>, next |-> marker + 2]
            ELSE LET before == From[n - 1]
                     at == before.next
                     refs == SkipExtendedNamedItems(args, at + 3, "bytes")
                 IN IF \/ at = 0 \/ at + 2 > Len(args)
                       \/ ~(IsResource(args[at]) /\ IsResource(args[at + 1]) /\ args[at + 2].is = "bytes")
                       \/ refs = 0
                    THEN [ids |-> <<>>, next |-> 0]
                    ELSE [ids |-> Append(before.ids, args[at]),
                          next |-> SkipExtendedNamedItems(args, refs, "resource")]
    IN IF /\ CommandTokenIs(args[marker], "ITEMS_EXT") /\ marker < Len(args)
          /\ args[marker + 1].is = "number" /\ count > 0 /\ From[count].next = Len(args) + 1
       THEN Good(From[count].ids) ELSE Undefined

CreateManyIds(args, mixed) ==
    FirstOf([m \in 1..(Len(args) - 1) |->
        IF CommandTokenIs(args[m + 1], "ITEMS_EXT") THEN ExtendedCreateManyIds(args, m + 1)
        ELSE ItemsAt(args, m + 1, IF mixed THEN <<"resource", "resource", "bytes">> ELSE <<"resource", "bytes">>)])

FlowManyIds(command, args) ==
    LET mixed == CommandTokenIs(args[1], "MIXED")
        front == IF mixed THEN <<"resource", "resource">> ELSE <<"resource">>
    IN CASE command = "FLOW.CREATE_MANY" -> CreateManyIds(args, mixed)
         [] command = "FLOW.CANCEL_MANY" -> FixedFlowItemIds(args, front \o <<"number">>)
         [] command = "FLOW.TRANSITION_MANY" -> FixedFlowItemIds(args, front \o <<"number", "bytes">>)
         [] OTHER -> FixedFlowItemIds(args, front \o <<"bytes", "number">>)

ValuePutTokens == {"NAME", "NOW", "OVERRIDE", "OWNER_FLOW_ID", "PARTITION", "TTL", "TTL_MS"}

FlowValuePutAccess(args) ==
    LET options == {i \in 2..Len(args) : i % 2 = 0}
        owners == {i \in options : CommandTokenIs(args[i], "OWNER_FLOW_ID")}
        read == \A i \in options : i < Len(args) /\ args[i].is # "number" /\ TextOf(args[i]) \in ValuePutTokens
    IN IF args = <<>> THEN Undefined
       ELSE IF read /\ owners # {}
       THEN LET last == CHOOSE i \in owners : \A j \in owners : j <= i
            IN Good({FlowAccess(args[last + 1], "write")})
       ELSE Good({<<"shared", "", "write">>})

FlowOrderingAccesses(command, args) ==
    CASE command = "FLOW.VALUE.MGET" ->
             LET refs == SplitValueMGet(args).refs
             IN IF refs # <<>> /\ \A k \in DOMAIN refs : IsResource(refs[k])
                THEN Good({<<"value", refs[k].text, "read">> : k \in DOMAIN refs}) ELSE Undefined
      [] command = "FLOW.VALUE.PUT" -> FlowValuePutAccess(args)
      [] command \in Many ->
             LET ids == FlowManyIds(command, args)
             IN IF ids.ok THEN Accesses(ids.value, "write") ELSE Undefined
      [] command \in FlowIdReads \cup FlowIdWrites ->
             IF IsResource(args[1])
             THEN Accesses(<<args[1]>>, IF command \in FlowIdReads THEN "read" ELSE "write")
             ELSE Undefined
      [] OTHER -> Undefined
=============================================================================
