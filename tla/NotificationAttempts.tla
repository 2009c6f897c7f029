------------------------ MODULE NotificationAttempts ------------------------
(***************************************************************************)
(* The audit log of the notifications: a NotificationAttempt               *)
(* (src/notifications/types.rs), the row it becomes in SQLite and the      *)
(* repository over those rows                                              *)
(* (src/storage/sqlite/notification_attempt_repository.rs), and its        *)
(* in-memory twin (src/storage/memory/notification_attempt_repository.rs). *)
(*                                                                         *)
(* The incident and the redacted summary of the target travel along and    *)
(* are left out; an outcome is its variant and the message it refers to.   *)
(* JSON columns hold what was serialised.                                  *)
(***************************************************************************)
EXTENDS Integers, FiniteSets

NoTime    == -1
NoOutcome == [kind |-> "none", ref |-> "none"]

AttemptStatus == {"Pending", "Succeeded", "FailedTransient", "FailedPermanent", "Suppressed"}
LifecycleKind == {"Opened", "Escalated", "Resolved"}
AttemptTarget == {"Telegram", "Discord", "Webhook"}

(* The outcomes the sender of a target reports: Telegram and Discord refer  *)
(* to the message they created, a webhook does not.                         *)
DeliveryOutcomes(sink) ==
    {[kind |-> "Delivered", ref |-> IF sink = "Webhook" THEN "none" ELSE sink],
     [kind |-> "Transient", ref |-> "none"], [kind |-> "Permanent", ref |-> "none"]}

(* The attempt dispatch_lifecycle writes before it dispatches. *)
pending_attempt(id, rule, lifecycle, sink, at) ==
    [id |-> id, rule_id |-> rule, lifecycle_kind |-> lifecycle, target_kind |-> sink,
     status |-> "Pending", attempt_number |-> 1, next_retry_at |-> NoTime,
     outcome |-> NoOutcome, external_ref |-> "none",
     attempted_at |-> at, completed_at |-> NoTime]

(* Slip: every Transient outcome waits for a retry. *)
TransientWaits(o, will_retry) ==
    CASE o = "Delivered" -> "Succeeded"
      [] o = "Transient" -> "FailedTransient"
      [] o = "Permanent" -> "FailedPermanent"

(* A Transient outcome with no retry to come is a permanent failure. *)
status_for_outcome(o, will_retry) ==
    CASE o = "Delivered"               -> "Succeeded"
      [] o = "Transient" /\ will_retry -> "FailedTransient"
      [] OTHER                         -> "FailedPermanent"

(* Only a delivery refers to a message. *)
ref_of(outcome) == IF outcome.kind = "Delivered" THEN outcome.ref ELSE "none"

-----------------------------------------------------------------------------
(* The text columns: what each variant is written as, and what each text is *)
(* read as.                                                                 *)
lifecycle_kind_str ==
    [Opened |-> "Opened", Escalated |-> "Escalated", Resolved |-> "Resolved"]
lifecycle_kind_from_str ==
    [Opened |-> "Opened", Escalated |-> "Escalated", Resolved |-> "Resolved"]

target_kind_str == [Telegram |-> "telegram", Discord |-> "discord", Webhook |-> "webhook"]
target_kind_from_str == [telegram |-> "Telegram", discord |-> "Discord", webhook |-> "Webhook"]

status_str ==
    [Pending |-> "Pending", Succeeded |-> "Succeeded", FailedTransient |-> "FailedTransient",
     FailedPermanent |-> "FailedPermanent", Suppressed |-> "Suppressed"]
status_from_str ==
    [Pending |-> "Pending", Succeeded |-> "Succeeded", FailedTransient |-> "FailedTransient",
     FailedPermanent |-> "FailedPermanent", Suppressed |-> "Suppressed"]

(* serialize_outcome: the variant in a column of its own, next to the JSON. *)
serialize_outcome(outcome) ==
    [kind |-> CASE outcome = NoOutcome           -> "NULL"
                [] outcome.kind = "Delivered"    -> "Delivered"
                [] outcome.kind = "Transient"    -> "Transient"
                [] outcome.kind = "Permanent"    -> "Permanent",
     json |-> outcome]

(* The values insert_pending binds. *)
attempt_row(a) ==
    [id |-> a.id, rule_id |-> a.rule_id,
     lifecycle_kind |-> lifecycle_kind_str[a.lifecycle_kind],
     target_kind |-> target_kind_str[a.target_kind],
     status |-> status_str[a.status], attempt_number |-> a.attempt_number,
     next_retry_at |-> a.next_retry_at, outcome |-> serialize_outcome(a.outcome),
     external_ref |-> a.external_ref,
     attempted_at |-> a.attempted_at, completed_at |-> a.completed_at]

(* The column outcome_kind is not read back. *)
row_to_attempt(r) ==
    [id |-> r.id, rule_id |-> r.rule_id,
     lifecycle_kind |-> lifecycle_kind_from_str[r.lifecycle_kind],
     target_kind |-> target_kind_from_str[r.target_kind],
     status |-> status_from_str[r.status], attempt_number |-> r.attempt_number,
     next_retry_at |-> r.next_retry_at, outcome |-> r.outcome.json,
     external_ref |-> r.external_ref,
     attempted_at |-> r.attempted_at, completed_at |-> r.completed_at]

-----------------------------------------------------------------------------
(* SqliteNotificationAttemptRepository: the table by its primary key. *)

HasAttempt(log, id)  == id \in DOMAIN log
Insert(log, id, row) == [x \in DOMAIN log \cup {id} |-> IF x = id THEN row ELSE log[x]]

(* A second row with the same id is a Conflict. *)
insert_pending(table, a) ==
    IF HasAttempt(table, a.id) THEN table ELSE Insert(table, a.id, attempt_row(a))

(* An UPDATE that affects no row is NotFound. *)
complete(table, id, outcome, next_retry_at, at) ==
    IF ~HasAttempt(table, id) THEN table
    ELSE [table EXCEPT ![id] = [@ EXCEPT
              !.status        = status_str[status_for_outcome(outcome.kind, next_retry_at # NoTime)],
              !.outcome       = serialize_outcome(outcome),
              !.external_ref  = ref_of(outcome),
              !.next_retry_at = next_retry_at,
              !.completed_at  = at]]

(* The ids of a log in the orders a query may return them in: by            *)
(* attempted_at, newest first, where equal values come in any order.        *)
NewestFirst(log) ==
    {s \in [1..Cardinality(DOMAIN log) -> DOMAIN log] :
        /\ \A id \in DOMAIN log : \E i \in DOMAIN s : s[i] = id
        /\ \A i, j \in DOMAIN s : i < j => log[s[i]].attempted_at >= log[s[j]].attempted_at}

Retryable(a, now) == a.next_retry_at # NoTime /\ a.next_retry_at =< now

(* WHERE status = 'FailedTransient' AND next_retry_at <= now *)
list_retryable(table, now) ==
    {id \in DOMAIN table : /\ table[id].status = status_str["FailedTransient"]
                           /\ Retryable(table[id], now)}

(* ORDER BY attempted_at DESC *)
list_for_incident(table) ==
    {[i \in DOMAIN s |-> row_to_attempt(table[s[i]])] : s \in NewestFirst(table)}

-----------------------------------------------------------------------------
(* MemoryNotificationAttemptRepository: a map of the attempts themselves. *)

memory_insert_pending(log, a) == IF HasAttempt(log, a.id) THEN log ELSE Insert(log, a.id, a)

memory_complete(log, id, outcome, next_retry_at, at) ==
    IF ~HasAttempt(log, id) THEN log
    ELSE [log EXCEPT ![id] = [@ EXCEPT
              !.status        = status_for_outcome(outcome.kind, next_retry_at # NoTime),
              !.outcome       = outcome,
              !.external_ref  = ref_of(outcome),
              !.next_retry_at = next_retry_at,
              !.completed_at  = at]]

memory_list_retryable(log, now) ==
    {id \in DOMAIN log : log[id].status = "FailedTransient" /\ Retryable(log[id], now)}

memory_list_for_incident(log) ==
    {[i \in DOMAIN s |-> log[s[i]]] : s \in NewestFirst(log)}
=============================================================================
