-------------------------- MODULE FlowAdministration --------------------------
(***************************************************************************)
(* Schedules, effects, approvals, circuits, budgets and limits: the        *)
(* options of their commands, what a command starts with, which calls are  *)
(* refused, and the fields their options are sent as (client-schedules.ts, *)
(* client-management.ts, schedule-request.ts, protocol-flow-admin.ts).     *)
(***************************************************************************)
EXTENDS FlowCalls

\* The options of a command, in the order they are appended: <<token, name>>.
AtNow == <<<<"NOW", "now_ms">>>>
InPartition == <<<<"PARTITION", "partition_key">>>>
Attributed == <<<<"ATTRIBUTE", "attributes">>>>
Projected == <<<<"CONSISTENT_PROJECTION", "consistent_projection">>>>

StatsOptions ==
    <<<<"STATE", "state">>, <<"COUNT", "count">>>> \o InPartition \o Attributed \o Projected
AttributeQueryOptions == <<<<"STATE", "state">>>> \o InPartition \o <<<<"COUNT", "count">>>> \o Projected
EffectHeld == InPartition \o <<<<"LEASE_TOKEN", "lease_token">>, <<"FENCING", "fencing_token">>>>
EffectReserveOptions ==
    <<<<"EFFECT_KEY", "effect_key">>, <<"EFFECT_TYPE", "effect_type">>>> \o EffectHeld
      \o <<<<"OPERATION_DIGEST", "operation_digest">>, <<"IDEMPOTENCY_KEY", "idempotency_key">>,
           <<"GOVERNANCE_SCOPE", "governance_scope">>>> \o AtNow
EffectStatusOptions ==
    <<<<"EFFECT_KEY", "effect_key">>>> \o EffectHeld
      \o <<<<"EXTERNAL_ID", "external_id">>, <<"ERROR", "error">>, <<"REASON", "reason">>,
           <<"LATENCY_MS", "latency_ms">>>> \o AtNow
EffectGetOptions == <<<<"EFFECT_KEY", "effect_key">>>> \o InPartition
ApprovalRequestOptions ==
    <<<<"FLOW_ID", "flow_id">>, <<"SCOPE", "scope">>, <<"REASON", "reason">>,
      <<"REQUESTED_BY", "requested_by">>, <<"ASSIGNEES", "assignees">>,
      <<"POLICY_HASH", "policy_hash">>, <<"POLICY_VERSION", "policy_version">>,
      <<"TIMEOUT_MS", "timeout_ms">>, <<"EXPIRES_AT_MS", "expires_at_ms">>>> \o AtNow
ApprovalStatusOptions == <<<<"APPROVER", "approver">>, <<"REASON", "reason">>>> \o AtNow
ApprovalListOptions ==
    <<<<"STATUS", "status">>, <<"SCOPE", "scope">>>> \o InPartition
      \o <<<<"FLOW_ID", "flow_id">>, <<"LIMIT", "limit">>>>
CircuitOpenOptions == <<<<"OPEN_MS", "open_ms">>, <<"FAILURE_THRESHOLD", "failure_threshold">>>> \o AtNow
BudgetReserveOptions ==
    <<<<"AMOUNT", "amount">>, <<"LIMIT", "limit">>, <<"WINDOW_MS", "window_ms">>,
      <<"RESERVATION_ID", "reservation_id">>>> \o AtNow
BudgetCommitOptions ==
    <<<<"RESERVATION_ID", "reservation_id">>, <<"ACTUAL_AMOUNT", "actual_amount">>, <<"USAGE", "usage">>>> \o AtNow
BudgetReleaseOptions == <<<<"RESERVATION_ID", "reservation_id">>>> \o AtNow
AdminListOptions == <<<<"SCOPE", "scope">>>> \o InPartition \o <<<<"LIMIT", "limit">>>> \o AtNow
LimitSpendOptions == <<<<"SHARD_ID", "shard_id">>, <<"AMOUNT", "amount">>>> \o AtNow
LimitLeaseOptions ==
    <<<<"SHARD_ID", "shard_id">>, <<"AMOUNT", "amount">>, <<"TTL_MS", "ttl_ms">>, <<"LIMIT", "limit">>>> \o AtNow
LimitReleaseOptions ==
    <<<<"SHARD_ID", "shard_id">>, <<"AMOUNT", "amount">>, <<"RESERVATION_IDS", "reservation_ids">>>>
LedgerOptions ==
    InPartition \o <<<<"LIMIT", "limit">>, <<"FROM_MS", "from_ms">>, <<"TO_MS", "to_ms">>, <<"REV", "rev">>>>
ScheduleCreateOptions ==
    <<<<"KIND", "kind">>, <<"AT_MS", "at_ms">>, <<"DELAY_MS", "delay_ms">>, <<"START_AT_MS", "start_at_ms">>,
      <<"EVERY_MS", "every_ms">>, <<"CRON", "cron">>, <<"TIMEZONE", "timezone">>, <<"TARGET", "target">>,
      <<"CATCHUP_POLICY", "catchup_policy">>, <<"OVERLAP_POLICY", "overlap_policy">>,
      <<"OVERLAP_RETRY_MS", "overlap_retry_ms">>, <<"MAX_FIRES", "max_fires">>,
      <<"END_AT_MS", "end_at_ms">>, <<"OVERWRITE", "overwrite">>>> \o AtNow
ScheduleFireOptions == <<<<"FIRE_AT_MS", "fire_at_ms">>>> \o AtNow
ScheduleFireDueOptions ==
    AtNow \o <<<<"WORKER", "worker">>, <<"LEASE_MS", "lease_ms">>, <<"BLOCK", "block_ms">>, <<"LIMIT", "limit">>>>
ScheduleListOptions ==
    <<<<"KIND", "kind">>, <<"STATE", "state">>, <<"TIMEZONE", "timezone">>, <<"TARGET_TYPE", "target_type">>,
      <<"FROM_MS", "from_ms">>, <<"TO_MS", "to_ms">>, <<"COUNT", "count">>, <<"REV", "rev">>>>

AdminOptions ==
    ("FLOW.STATS" :> StatsOptions) @@ ("FLOW.ATTRIBUTES" :> AttributeQueryOptions) @@
    ("FLOW.ATTRIBUTE_VALUES" :> AttributeQueryOptions) @@
    ("FLOW.EFFECT.RESERVE" :> EffectReserveOptions) @@ ("FLOW.EFFECT.CONFIRM" :> EffectStatusOptions) @@
    ("FLOW.EFFECT.FAIL" :> EffectStatusOptions) @@ ("FLOW.EFFECT.COMPENSATE" :> EffectStatusOptions) @@
    ("FLOW.EFFECT.GET" :> EffectGetOptions) @@ ("FLOW.GOVERNANCE.LEDGER" :> LedgerOptions) @@
    ("FLOW.APPROVAL.REQUEST" :> ApprovalRequestOptions) @@ ("FLOW.APPROVAL.APPROVE" :> ApprovalStatusOptions) @@
    ("FLOW.APPROVAL.REJECT" :> ApprovalStatusOptions) @@ ("FLOW.APPROVAL.GET" :> <<>>) @@
    ("FLOW.APPROVAL.LIST" :> ApprovalListOptions) @@ ("FLOW.GOVERNANCE.OVERVIEW" :> ApprovalListOptions) @@
    ("FLOW.CIRCUIT.OPEN" :> CircuitOpenOptions) @@ ("FLOW.CIRCUIT.CLOSE" :> AtNow) @@
    ("FLOW.CIRCUIT.GET" :> <<>>) @@ ("FLOW.BUDGET.RESERVE" :> BudgetReserveOptions) @@
    ("FLOW.BUDGET.COMMIT" :> BudgetCommitOptions) @@ ("FLOW.BUDGET.RELEASE" :> BudgetReleaseOptions) @@
    ("FLOW.BUDGET.GET" :> <<>>) @@ ("FLOW.BUDGET.LIST" :> AdminListOptions) @@
    ("FLOW.LIMIT.LEASE" :> LimitLeaseOptions) @@ ("FLOW.LIMIT.SPEND" :> LimitSpendOptions) @@
    ("FLOW.LIMIT.RELEASE" :> LimitReleaseOptions) @@ ("FLOW.LIMIT.GET" :> AtNow) @@
    ("FLOW.LIMIT.LIST" :> AdminListOptions) @@
    ("FLOW.SCHEDULE.CREATE" :> ScheduleCreateOptions) @@ ("FLOW.SCHEDULE.GET" :> <<>>) @@
    ("FLOW.SCHEDULE.FIRE" :> ScheduleFireOptions) @@ ("FLOW.SCHEDULE.PAUSE" :> AtNow) @@
    ("FLOW.SCHEDULE.RESUME" :> AtNow) @@ ("FLOW.SCHEDULE.DELETE" :> AtNow) @@
    ("FLOW.SCHEDULE.FIRE_DUE" :> ScheduleFireDueOptions) @@ ("FLOW.SCHEDULE.LIST" :> ScheduleListOptions)

Administration == DOMAIN AdminOptions

FlowApprovalIdCommands == {"FLOW.APPROVAL.REQUEST", "FLOW.APPROVAL.APPROVE", "FLOW.APPROVAL.REJECT", "FLOW.APPROVAL.GET"}
FlowGovernanceScopeCommands ==
    {"FLOW.BUDGET.COMMIT", "FLOW.BUDGET.GET", "FLOW.BUDGET.RELEASE", "FLOW.BUDGET.RESERVE",
     "FLOW.CIRCUIT.CLOSE", "FLOW.CIRCUIT.GET", "FLOW.CIRCUIT.OPEN",
     "FLOW.LIMIT.GET", "FLOW.LIMIT.LEASE", "FLOW.LIMIT.RELEASE", "FLOW.LIMIT.SPEND"}
FlowScheduleCommands ==
    {"FLOW.SCHEDULE.CREATE", "FLOW.SCHEDULE.DELETE", "FLOW.SCHEDULE.FIRE", "FLOW.SCHEDULE.FIRE_DUE",
     "FLOW.SCHEDULE.GET", "FLOW.SCHEDULE.LIST", "FLOW.SCHEDULE.PAUSE", "FLOW.SCHEDULE.RESUME"}
Listings == {"FLOW.SCHEDULE.FIRE_DUE", "FLOW.SCHEDULE.LIST", "FLOW.APPROVAL.LIST", "FLOW.GOVERNANCE.OVERVIEW",
             "FLOW.BUDGET.LIST", "FLOW.LIMIT.LIST"}

\* The fields a command starts with.
AdminFront ==
    [command \in Administration |->
        CASE command \in Listings -> <<>>
          [] command \in {"FLOW.STATS", "FLOW.ATTRIBUTES"} -> <<"type">>
          [] command = "FLOW.ATTRIBUTE_VALUES" -> <<"type", "attribute">>
          [] command \in FlowGovernanceScopeCommands -> <<"scope">>
          [] OTHER -> <<"id">>]

---------------------------------------------------------------------------
\* Schedules (schedule-request.ts).
ScheduleKinds == {"one_shot", "delay", "interval", "cron"}
RecurringKinds == {"interval", "cron"}
OverlapPolicies == {"allow", "skip", "queue_after_previous", "fail_schedule"}
ScheduleStates == {"active", "paused", "running", "completed", "failed", "cancelled", "all"}

Amount(fields, name) == ValueOf(The(fields, name))
Positive(fields, names) == \A n \in names \cap DOMAIN fields : Amount(fields, n) > 0

EffectiveKind(fields) ==
    CASE Has(fields, "kind") -> The(fields, "kind").text
      [] Has(fields, "cron") -> "cron"
      [] Has(fields, "every_ms") -> "interval"
      [] Has(fields, "delay_ms") -> "delay"
      [] OTHER -> "one_shot"

ValidTiming(kind, fields) ==
    /\ ~(Has(fields, "at_ms") /\ Has(fields, "start_at_ms"))
    /\ Has(fields, "delay_ms") => kind = "delay"
    /\ Has(fields, "every_ms") => kind = "interval"
    /\ Has(fields, "cron") => kind = "cron"
    /\ kind = "delay" => ~Has(fields, "at_ms") /\ ~Has(fields, "start_at_ms")

\* A target by what matters of it: the names it gives, or that it is one of the server's own.
ValidTarget(target, recurring) ==
    /\ target.text \notin {"id, id_prefix", "reserved"}
    /\ recurring => target.text # "id"

\* The fields that are given, of those that say when a recurrence starts, by precedence.
KnownFirstRun(kind, fields) ==
    SelectSeq(IF kind = "cron" THEN <<"start_at_ms", "at_ms", "now_ms">> ELSE <<"at_ms", "start_at_ms", "now_ms">>,
              LAMBDA n : Has(fields, n))

ValidRecurrence(kind, fields) ==
    LET first == KnownFirstRun(kind, fields)
    IN /\ Has(fields, "overlap_policy") => The(fields, "overlap_policy").text \in OverlapPolicies
       /\ Has(fields, "overlap_retry_ms") => Says(fields, "overlap_policy", "queue_after_previous")
       /\ Has(fields, "end_at_ms") /\ first # <<>> => Amount(fields, "end_at_ms") >= Amount(fields, Head(first))

ValidScheduleCreate(fields) ==
    LET kind == EffectiveKind(fields)
        recurring == kind \in RecurringKinds
    IN /\ kind \in ScheduleKinds
       /\ ValidTiming(kind, fields)
       /\ ValidTarget(The(fields, "target"), recurring)
       /\ Positive(fields, {"every_ms", "overlap_retry_ms", "max_fires"})
       /\ kind = "delay" =>
              /\ Has(fields, "delay_ms")
              /\ Has(fields, "now_ms") => Amount(fields, "now_ms") <= MaxExact - Amount(fields, "delay_ms")
       /\ kind = "interval" => Has(fields, "every_ms")
       /\ kind = "cron" => Has(fields, "cron")
       /\ Has(fields, "timezone") => kind = "cron"
       /\ Has(fields, "catchup_policy") => kind = "interval" /\ Says(fields, "catchup_policy", "fire_once")
       /\ IF recurring THEN ValidRecurrence(kind, fields)
          ELSE {"overlap_policy", "overlap_retry_ms", "max_fires", "end_at_ms"} \cap DOMAIN fields = {}

ValidScheduleFireDue(fields) ==
    /\ Positive(fields, {"lease_ms", "limit"})
    /\ Has(fields, "now_ms") =>
           Amount(fields, "now_ms") <= MaxExact - (IF Has(fields, "lease_ms") THEN Amount(fields, "lease_ms") ELSE 30)

ValidScheduleList(fields) ==
    /\ Has(fields, "kind") => The(fields, "kind").text \in ScheduleKinds
    /\ Has(fields, "state") => The(fields, "state").text \in ScheduleStates
    /\ Has(fields, "from_ms") /\ Has(fields, "to_ms") => Amount(fields, "from_ms") <= Amount(fields, "to_ms")
    /\ Positive(fields, {"count"})

\* One id for each credit that is released.
ValidRelease(fields) ==
    LET ids == fields["reservation_ids"]
    IN /\ IsInjective(ids)
       /\ Has(fields, "amount") => Amount(fields, "amount") = Len(ids)

AdminRefused(command, fields) ==
    ~CASE command = "FLOW.SCHEDULE.CREATE" -> ValidScheduleCreate(fields)
       [] command = "FLOW.SCHEDULE.FIRE_DUE" -> ValidScheduleFireDue(fields)
       [] command = "FLOW.SCHEDULE.LIST" -> ValidScheduleList(fields)
       [] command = "FLOW.LIMIT.RELEASE" -> ValidRelease(fields)
       [] OTHER -> TRUE

---------------------------------------------------------------------------
\* The field an option is sent as (FLOW_ADMIN_FIELDS).
AdminFlags ==
    [CONSISTENT_PROJECTION |-> "consistent_projection", INCLUDE_COLD |-> "include_cold",
     OVERWRITE |-> "overwrite", REV |-> "rev", TERMINAL_ONLY |-> "terminal_only", VALUES |-> "values"]

AdminScalars ==
    ("STATE" :> "state") @@
    [ACTUAL_AMOUNT |-> "actual_amount", AMOUNT |-> "amount", APPROVER |-> "approver",
     ASSIGNEES |-> "assignees", AT_MS |-> "at_ms", BLOCK |-> "block_ms", BLOCK_MS |-> "block_ms",
     CATCHUP_POLICY |-> "catchup_policy", CORRELATION_ID |-> "correlation_id", COUNT |-> "count",
     CRON |-> "cron", DEADLINE_MS |-> "deadline_ms", DELAY_MS |-> "delay_ms",
     EFFECT_KEY |-> "effect_key", EFFECT_TYPE |-> "effect_type", END_AT_MS |-> "end_at_ms",
     ERROR |-> "error", EVENT |-> "event", EVERY_MS |-> "every_ms", EXPIRES_AT_MS |-> "expires_at_ms",
     EXTERNAL_ID |-> "external_id", FAILURE_THRESHOLD |-> "failure_threshold",
     FENCING |-> "fencing_token", FENCING_TOKEN |-> "fencing_token", FLOW_ID |-> "flow_id",
     FROM_EVENT |-> "from_event", FROM_MS |-> "from_ms", FROM_VERSION |-> "from_version",
     GOVERNANCE_SCOPE |-> "governance_scope", IDEMPOTENCY_KEY |-> "idempotency_key",
     INITIAL_STATE |-> "initial_state", ITEMS |-> "items", KIND |-> "kind",
     LATENCY_MS |-> "latency_ms", LEASE_MS |-> "lease_ms", LEASE_TOKEN |-> "lease_token",
     LIMIT |-> "limit", MAX_ACTIVE_MS |-> "max_active_ms", MAX_FIRES |-> "max_fires",
     MAXBYTES |-> "payload_max_bytes", NOW |-> "now_ms", OPEN_MS |-> "open_ms",
     OPERATION_DIGEST |-> "operation_digest", OVERLAP_POLICY |-> "overlap_policy",
     OVERLAP_RETRY_MS |-> "overlap_retry_ms", PARENT_FLOW_ID |-> "parent_flow_id",
     PARTITION |-> "partition_key", PAYLOAD |-> "payload", PAYLOAD_MAX_BYTES |-> "payload_max_bytes",
     POLICY_HASH |-> "policy_hash", POLICY_VERSION |-> "policy_version", PRIORITY |-> "priority",
     REASON |-> "reason", REQUESTED_BY |-> "requested_by", RESERVATION_ID |-> "reservation_id",
     RESULT |-> "result", RETENTION_TTL_MS |-> "retention_ttl_ms", RETURN |-> "return",
     ROOT_FLOW_ID |-> "root_flow_id", SCOPE |-> "scope", SHARD_ID |-> "shard_id",
     START_AT_MS |-> "start_at_ms", STATUS |-> "status", STATES |-> "states",
     STEPS |-> "steps", TARGET |-> "target", TARGET_TYPE |-> "target_type", TIMEOUT_MS |-> "timeout_ms",
     TIMEZONE |-> "timezone", TO_EVENT |-> "to_event", TO_MS |-> "to_ms", TO_VERSION |-> "to_version",
     TTL_MS |-> "ttl_ms", TYPE |-> "type", USAGE |-> "usage", WINDOW_MS |-> "window_ms",
     WORKER |-> "worker"]
=============================================================================
