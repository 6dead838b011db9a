---------------------------- MODULE FlowRequests ----------------------------
(***************************************************************************)
(* A caller makes up a Flow command: it gives options and items, any of    *)
(* which may say what the words of the grammar say, the client builds the  *)
(* arguments (FlowCommands), and what reads them afterwards has to find    *)
(* the call in them again: the request that is sent (FlowPayloads), its    *)
(* route and its place in a batch (FlowRouting).                           *)
(***************************************************************************)
EXTENDS FlowRouting

CONSTANTS MaxItems,    \* items of a call
          MaxGiven     \* parts of a call that are not as plain as they can be

VARIABLES call,    \* the command, its options and its items
          given    \* how many parts were given since the plain call

vars == <<call, given>>

---------------------------------------------------------------------------
\* What a caller must give, and what it may.
AdminRequired ==
    ("FLOW.EFFECT.RESERVE" :> {"effect_key", "effect_type", "operation_digest"}) @@
    ("FLOW.EFFECT.CONFIRM" :> {"effect_key"}) @@ ("FLOW.EFFECT.FAIL" :> {"effect_key"}) @@
    ("FLOW.EFFECT.COMPENSATE" :> {"effect_key"}) @@ ("FLOW.EFFECT.GET" :> {"effect_key"}) @@
    ("FLOW.APPROVAL.REQUEST" :> {"flow_id", "scope"}) @@ ("FLOW.APPROVAL.APPROVE" :> {"approver"}) @@
    ("FLOW.APPROVAL.REJECT" :> {"approver"}) @@ ("FLOW.BUDGET.RESERVE" :> {"amount"}) @@
    ("FLOW.BUDGET.COMMIT" :> {"reservation_id", "actual_amount"}) @@
    ("FLOW.BUDGET.RELEASE" :> {"reservation_id"}) @@ ("FLOW.LIMIT.LEASE" :> {"shard_id", "amount", "ttl_ms"}) @@
    ("FLOW.LIMIT.SPEND" :> {"shard_id", "amount"}) @@ ("FLOW.LIMIT.RELEASE" :> {"shard_id", "reservation_ids"}) @@
    ("FLOW.SCHEDULE.CREATE" :> {"target"}) @@ [command \in Administration |-> {}]

Required(command) ==
    CASE command \in Administration -> Range(AdminFront[command]) \cup AdminRequired[command]
      [] command \in {"FLOW.TRANSITION", "FLOW.STEP_CONTINUE"} ->
             {"id", "from_state", "to_state", "lease_token", "fencing_token"}
      [] command \in {"FLOW.COMPLETE", "FLOW.RETRY", "FLOW.FAIL", "FLOW.EXTEND_LEASE"} ->
             {"id", "lease_token", "fencing_token"}
      [] command = "FLOW.CREATE" -> {"id", "type"}
      [] command = "FLOW.CREATE_MANY" -> {"type"}
      [] command = "FLOW.TRANSITION_MANY" -> {"from_state", "to_state"}
      [] command = "FLOW.CANCEL" -> {"id", "fencing_token"}
      [] command = "FLOW.SIGNAL" -> {"id", "signal"}
      [] command = "FLOW.START_AND_CLAIM" -> {"id", "type", "initial_state", "worker"}
      [] command = "FLOW.VALUE.PUT" -> {"value"}
      [] command = "FLOW.VALUE.MGET" -> {"refs"}
      [] command \in Claims -> {"type", "worker"}
      [] command \in Many -> {}
      [] OTHER -> {"id"}

Reads == Claims \cup {"FLOW.GET", "FLOW.HISTORY"}

Optional(command) ==
    ({Options[command][k][2] : k \in DOMAIN Options[command]}
     \ (IF command \in Claims THEN {"return", "now_ms"} ELSE {}))
    \cup (IF command \in Many THEN {"partition_key"} ELSE {})
    \cup (IF command \in Claims THEN {"job_only", "include_attributes"} ELSE {})
    \cup (IF command = "FLOW.CLAIM_DUE" THEN {"include_state", "now_ms"} ELSE {})
    \cup (IF command \in Claims \cup {"FLOW.GET"} THEN {"payload_max_bytes"} ELSE {})

ItemParts(command) ==
    CASE command \in ClaimedMany -> {"id", "lease_token", "fencing_token"}
      [] command \in FencedMany -> {"id", "fencing_token"}
      [] command = "FLOW.SPAWN_CHILDREN" -> {"id", "type", "payload"}
      [] OTHER -> {"id", "payload"}

ItemOptions(command) ==
    {"partition_key"} \cup
    (CASE command = "FLOW.CREATE_MANY" -> {"values", "value_refs", "attributes", "state_meta"}
       [] command = "FLOW.SPAWN_CHILDREN" -> {"values", "value_refs"}
       [] command = "FLOW.TRANSITION_MANY" -> {"lease_token"}
       [] OTHER -> {})

---------------------------------------------------------------------------
\* What they may be: plain, or words that the grammar has a use for.
Flagged == {"idempotent", "independent", "override", "full", "rev", "include_cold", "consistent_projection",
            "reclaim_expired", "job_only", "include_state", "include_attributes", "overwrite"}
Counts == {"now_ms", "run_at_ms", "priority", "retention_ttl_ms", "ttl_ms", "fencing_token", "lease_ms",
           "limit", "block_ms", "reclaim_ratio", "payload_max_bytes", "value_max_bytes", "max_bytes",
           "count", "from_ms", "to_ms", "from_version", "to_version"}
AdminCounts == {"latency_ms", "timeout_ms", "expires_at_ms", "open_ms", "failure_threshold", "amount", "window_ms",
                "actual_amount", "shard_id", "at_ms", "delay_ms", "start_at_ms", "every_ms", "overlap_retry_ms",
                "max_fires", "end_at_ms", "fire_at_ms"}
Objects == {"assignees", "usage", "target"}
Encoded == {"payload", "result", "error", "reason", "value", "lease_token"}
Maps == {"value_refs", "attributes", "attributes_merge", "state_meta"}
Gathered == {"drop_values", "override_values", "attributes_delete", "if_state", "states", "partition_keys", "refs"}

Words == {"ITEMS", "PARTITION", "VALUE", "-", "true", "a"}

Plainly(name) ==
    CASE name \in Counts \cup AdminCounts -> One(Num(7))
      [] name \in Objects -> One(Obj("x"))
      [] name = "reservation_ids" -> <<<<Str("r")>>>>
      [] name \in Encoded -> One(Bytes("x"))
      [] name = "refs" -> <<<<Str("r")>>>>
      [] OTHER -> One(Str("p"))

Booleans == {One(Str("true")), One(Str("false"))}
Offers(command, name) ==
    CASE name \in Flagged \/ (name = "payload" /\ command \in Reads) \/ (name = "values" /\ command = "FLOW.HISTORY")
             -> Booleans
      [] command \in Administration /\ name \in Counts \cup AdminCounts -> {One(Num(n)) : n \in {0, 2, 99}}
      [] command \in Administration /\ name \in {"error", "reason"} -> {One(Str(w)) : w \in Words}
      [] name = "target" -> {One(Obj(t)) : t \in {"id", "id_prefix", "id, id_prefix", "reserved"}}
      [] name \in Objects -> {One(Obj("PARTITION"))}
      [] name = "reservation_ids" -> {<<<<Str("ITEMS")>>>>, <<<<Str("a")>>, <<Str("a")>>>>,
                                      <<<<Str("PARTITION")>>, <<Str("a")>>>>}
      [] name = "kind" -> {One(Str(k)) : k \in ScheduleKinds \cup {"a"}}
      [] name = "overlap_policy" -> {One(Str(k)) : k \in {"skip", "queue_after_previous", "a"}}
      [] name = "catchup_policy" -> {One(Str(k)) : k \in {"fire_once", "a"}}
      [] name = "state" /\ command = "FLOW.SCHEDULE.LIST" -> {One(Str(k)) : k \in {"active", "a"}}
      [] name \in Counts -> {One(Num(0))}
      [] name = "max_active_ms" -> {One(Num(1)), One(Str("infinity"))}
      [] name = "return" -> {One(Str(IF command = "FLOW.STEP_CONTINUE" THEN "JOBS_COMPACT" ELSE "OK_ON_SUCCESS"))}
      [] name = "lease_token" -> {One(Bytes("ITEMS")), One(Bytes("VALUE"))}
      [] name \in Encoded -> {One(Bytes(w)) : w \in {"ITEMS", "PARTITION", "-"}}
      [] name = "values" /\ command \in Reads -> {<<<<Str("ITEMS")>>, <<Str("VALUE")>>>>}
      [] name = "values" -> {<<<<Str(w), Bytes("ITEMS")>>>> : w \in {"ITEMS", "PARTITION"}}
                            \cup {<<<<Str("n"), Bytes("x")>>, <<Str("VALUE"), Bytes("TYPE")>>>>}
      [] name \in Maps -> {<<<<Str(w), Str("ITEMS")>>>> : w \in {"ITEMS", "PARTITION"}}
                          \cup {<<<<Str("n"), Str("x")>>, <<Str("VALUE"), Str("TYPE")>>>>}
      [] name = "refs" -> {<<<<Str("a")>>, <<Str("r")>>>>, <<<<Str("MAX_BYTES")>>, <<Str("7")>>, <<Str("r")>>>>,
                           <<<<Str("b")>>, <<Str("a")>>>>}
      [] name \in Gathered -> {<<<<Str("ITEMS")>>>>, <<<<Str("a")>>, <<Str("b")>>>>, <<<<Str("PARTITION")>>, <<Str("a")>>>>}
      [] name = "partition_key" -> {One(Str(w)) : w \in Words \cup DOMAIN AutoPartitions \cup {"ANY", "GLOBAL"}}
      [] OTHER -> {One(Str(w)) : w \in Words}

Init == /\ \E command \in DOMAIN Options :
               call = [command |-> command, fields |-> [n \in Required(command) |-> Plainly(n)], items |-> <<>>]
        /\ given = 0

AddItem(parts) ==
    /\ given = 0 /\ call.command \in WithItems /\ Len(call.items) < MaxItems
    /\ call' = [call EXCEPT !.items = Append(@,
                  [n \in ItemParts(call.command) \cup parts |->
                      IF n = "id" THEN One(Str(<<"i1", "i2", "i3">>[Len(call.items) + 1])) ELSE Plainly(n)])]
    /\ UNCHANGED given

\* A schedule is known by three parts (what it is, when it starts, when it ends), and so is a
\* compact claim by what it has no room for; a call with the most items is given less.
MostGiven ==
    IF call.command \in {"FLOW.SCHEDULE.CREATE", "FLOW.CLAIM_DUE"} THEN MaxGiven + 1
    ELSE IF Len(call.items) = MaxItems THEN MaxGiven - 1 ELSE MaxGiven

Ready == call.command \in WithItems => call.items # <<>>

GiveOption(name, entries) ==
    /\ Ready /\ given < MostGiven
    /\ call' = [call EXCEPT !.fields = (name :> entries) @@ @]
    /\ given' = given + 1

GivePart(i, name, entries) ==
    /\ given < MostGiven
    /\ call' = [call EXCEPT !.items[i] = (name :> entries) @@ @]
    /\ given' = given + 1

Next ==
    \/ \E parts \in {{}, {"partition_key"}} : AddItem(parts)
    \/ \E name \in Required(call.command) \cup Optional(call.command) :
           \E entries \in Offers(call.command, name) : GiveOption(name, entries)
    \/ \E i \in DOMAIN call.items :
           \E name \in ItemParts(call.command) \cup ItemOptions(call.command) :
               \E entries \in Offers(call.command, name) : GivePart(i, name, entries)

Spec == Init /\ [][Next]_vars

---------------------------------------------------------------------------
\* What is asked for, with fields and items as they are in a call or in a request: what the
\* server does when a part is left out, is the same as naming it.
Renamed(name) == IF name = "state" THEN "states" ELSE name
Without(fields, names) == Keep(fields, DOMAIN fields \ names)

Filled(command, fields) ==
    LET named == [n \in {Renamed(m) : m \in DOMAIN fields} |->
                     fields[CHOOSE m \in DOMAIN fields : Renamed(m) = n]]
        unread == Says(named, "payload", "false")
        read == IF ~unread /\ Has(named, "payload_max_bytes") THEN [payload |-> One(Str("true"))] ELSE << >>
    IN CASE command = "FLOW.TRANSITION_MANY" -> named @@ [run_at_ms |-> named["now_ms"]]
         [] command = "FLOW.CLAIM_DUE" ->
                Without(named, IF unread THEN {"payload", "payload_max_bytes"} ELSE {}) @@ read @@ ReclaimDefaults
         [] command \in Reads -> Without(named, IF unread THEN {"payload_max_bytes"} ELSE {}) @@ read
         [] OTHER -> named

\* What the call says of all its items.
Common(command) ==
    CASE command = "FLOW.CREATE_MANY" -> {"partition_key", "attributes", "state_meta", "values", "value_refs"}
      [] command \in Many -> {"partition_key"}
      [] OTHER -> {}

Effective(command, fields, item) ==
    LET own == Without(item, (IF Says(item, "lease_token", "") THEN {"lease_token"} ELSE {})
                             \cup (IF Says(item, "partition_key", "-") THEN {"partition_key"} ELSE {}))
        mapped == {"values", "value_refs"} \cap (DOMAIN own \cup (Common(command) \cap DOMAIN fields))
    IN [n \in mapped |-> Over(Named(own, n), Named(Keep(fields, Common(command)), n))]
       @@ own @@ Keep(fields, Common(command))

Texts(fields) == [n \in DOMAIN fields |-> {[k \in DOMAIN e |-> e[k].text] : e \in Range(fields[n])}]

Effect(command, fields, items) ==
    [fields |-> Texts(Without(Filled(command, fields), Common(command))),
     items |-> [i \in DOMAIN items |-> Texts(Effective(command, fields, items[i]))]]

Meant == Effect(call.command,
                Without(call.fields @@ Defaults(call.command, call.fields),
                        IF call.command \in Claims THEN {"job_only", "include_state", "include_attributes"} ELSE {}),
                call.items)

\* A schedule that says one thing: what each kind is made of, and what it needs.
MadeOf ==
    LET starting == {"at_ms", "start_at_ms"}
        recurring == starting \cup {"overlap_policy", "overlap_retry_ms", "max_fires", "end_at_ms"}
    IN [one_shot |-> starting, delay |-> {"delay_ms"}, interval |-> recurring \cup {"every_ms", "catchup_policy"},
        cron |-> recurring \cup {"cron", "timezone"}]
Needs == [one_shot |-> {}, delay |-> {"delay_ms"}, interval |-> {"every_ms"}, cron |-> {"cron"}]

SaysOneThing(fields) ==
    LET parts == DOMAIN fields \ {"id", "kind", "target", "overwrite", "now_ms"}
        starts == {Amount(fields, n) : n \in {"at_ms", "start_at_ms"} \cap parts}
        first == IF starts = {} /\ Has(fields, "now_ms") THEN {Amount(fields, "now_ms")} ELSE starts
        target == The(fields, "target").text
    IN \E kind \in DOMAIN MadeOf :
           /\ Has(fields, "kind") => Says(fields, "kind", kind)
           /\ Needs[kind] \subseteq parts /\ parts \subseteq MadeOf[kind]
           /\ ~{"at_ms", "start_at_ms"} \subseteq parts
           /\ \A n \in {"every_ms", "overlap_retry_ms", "max_fires"} \cap parts : Amount(fields, n) # 0
           /\ target \in {"x", "id_prefix"} \/ (target = "id" /\ kind \in {"one_shot", "delay"})
           /\ "catchup_policy" \in parts => Says(fields, "catchup_policy", "fire_once")
           /\ "overlap_policy" \in parts => ~Says(fields, "overlap_policy", "a")
           /\ "overlap_retry_ms" \in parts => Says(fields, "overlap_policy", "queue_after_previous")
           /\ {"delay_ms", "now_ms"} \subseteq DOMAIN fields => Amount(fields, "delay_ms") + Amount(fields, "now_ms") <= MaxExact
           /\ "end_at_ms" \in parts => \A n \in first : n <= Amount(fields, "end_at_ms")

\* Every option and every item of a call is in its request, whichever form it takes and
\* whatever the parts say, and nothing else is: none is taken for an option or a marker of the
\* grammar, given to another item, or lost because the compact form has no room for it.  A
\* schedule is sent if it says one thing.
DeliveredWhole ==
    LET Whole(args, request) ==
            CASE request.form = "thrown" -> FALSE
              [] request.form = "exec" -> request.args = args
              [] OTHER -> Effect(call.command, request.fields, request.items) = Meant
        Delivered(built) ==
            /\ call.command = "FLOW.SCHEDULE.CREATE" => (built.refused <=> ~SaysOneThing(call.fields))
            /\ Ready /\ ~built.refused =>
                \A compact \in BOOLEAN :
                    Whole(built.args, BuildProtocolCommand(call.command, built.args, compact))
    IN Delivered(Build(call))

\* What the call reads and writes.
Touched ==
    LET access == IF call.command \in FlowIdReads THEN "read" ELSE "write"
    IN CASE call.command \in Many -> {FlowAccess(The(call.items[i], "id"), "write") : i \in DOMAIN call.items}
         [] call.command = "FLOW.VALUE.MGET" -> {<<"value", e[1].text, "read">> : e \in Range(call.fields["refs"])}
         [] call.command = "FLOW.VALUE.PUT" ->
                {IF Has(call.fields, "owner_flow_id") THEN FlowAccess(The(call.fields, "owner_flow_id"), "write")
                 ELSE <<"shared", "", "write">>}
         [] OTHER -> {FlowAccess(The(call.fields, "id"), access)}

\* In a batch, a call is ordered by the flows and values it is about: those of its items, and
\* not what else in its arguments looks like a list of items.
OrderedByWhatItTouches ==
    LET Ordered(built) == ~built.refused => FlowOrderingAccesses(call.command, built.args) = Good(Touched)
    IN Ready /\ call.command \in Many \cup FlowIdReads \cup FlowIdWrites \cup {"FLOW.VALUE.PUT", "FLOW.VALUE.MGET"}
       => Ordered(Build(call))

\* Where the call belongs.
Partition(token) ==
    CASE call.command \in Claims /\ token.text \in {"AUTO", "ANY"} -> NoKey
      [] call.command \in Claims /\ token.text = "GLOBAL" -> <<"global", "">>
      [] token.text \in DOMAIN AutoPartitions -> <<"auto", AutoPartitions[token.text]>>
      [] OTHER -> <<"partition", token.text>>

OneShard(keys) ==
    IF NoKey \in Range(keys) \/ Cardinality({Slot(key) : key \in Range(keys)}) # 1 THEN NoKey ELSE keys[1]

\* What is asked of every shard.
Scattered == call.command \in Administration /\ "id" \notin Required(call.command)

Home ==
    LET fields == call.fields
        Of(name, Key(_)) == OneShard([k \in DOMAIN fields[name] |-> Key(fields[name][k][1])])
    IN CASE call.command = "FLOW.VALUE.MGET" -> Of("refs", LAMBDA token : <<"ref", token.text>>)
         [] call.command \in FlowScheduleCommands -> NoKey
         [] call.command \in FlowApprovalIdCommands -> Partition(The(fields, "id"))
         [] call.command \in FlowGovernanceScopeCommands -> Partition(The(fields, "scope"))
         [] Has(fields, "partition_key") -> Partition(The(fields, "partition_key"))
         [] Has(fields, "partition_keys") -> Of("partition_keys", Partition)
         [] call.command = "FLOW.VALUE.PUT" /\ {"owner_flow_id", "name"} \subseteq DOMAIN fields ->
                <<"auto", The(fields, "owner_flow_id").text>>
         [] Scattered -> NoKey
         [] call.command \notin WithItems \cup Claims \cup {"FLOW.VALUE.PUT"} \/ call.command = "FLOW.SPAWN_CHILDREN" ->
                <<"auto", The(fields, "id").text>>
         [] OTHER -> NoKey

\* A call goes to the shard its partition, or else its flow, is on.  Where no partition is
\* given but something reads like one, the server may be left to find it, and never a guess.
RoutedHome ==
    LET Misleading(args) == /\ ~Has(call.fields, "partition_key") /\ ~Has(call.fields, "partition_keys")
                            /\ \E i \in DOMAIN args : CommandTokenIs(args[i], "PARTITION")
        AtHome(route, args) == route = Home \/ (route = NoKey /\ Misleading(args))
        Routed(built) == ~built.refused => AtHome(FlowRoutingData(call.command, built.args), built.args)
    IN Ready => Routed(Build(call))
=============================================================================
