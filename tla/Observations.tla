---------------------------- MODULE Observations ----------------------------
(***************************************************************************)
(* Observations (src/observations/types.rs and the types under it): the    *)
(* ten kinds of payload, the constructors that wrap one into an            *)
(* observation, and what the serde attributes demand of a payload that is  *)
(* read back from its JSON.                                                *)
(*                                                                         *)
(* Of a payload the model keeps its kind, its name and the values some     *)
(* reader tells apart; units, messages, latencies, attributes and the like *)
(* travel along unread.                                                    *)
(***************************************************************************)
EXTENDS Identifiers

Origin          == {"Collected", "Computed", "Imported", "UserReported"}
HealthStatus    == {"Ok", "Warning", "Critical", "Unknown"}
HeartbeatStatus == {"Alive", "Degraded"}
SignalStatus    == {"Active", "Cleared"}

(* The variants of StateObservation. *)
StateVariant == {"BitcoinBlockchain", "BitcoinMempool", "BitcoinNetwork", "BitcoinPeerSummary",
                 "LndNode", "LndWallet", "LndChannelSummary", "LndChannel", "Host"}

PayloadKind == {"state", "health", "capability", "incident_signal", "metric", "heartbeat",
                "event", "inventory", "transition", "diagnosis"}

---------------------------------------------------------------------------
(* ObservationContext, and the constructors Observation::metric and so on.  *)
(* The id and the time are stamped when the observation is made.            *)

Context(subject, origin) == [subject |-> subject, origin |-> origin]

Wrap(ctx, payload) == [subject |-> ctx.subject, origin |-> ctx.origin, payload |-> payload]

metric(ctx, name, value)      == Wrap(ctx, [kind |-> "metric", name |-> name, value |-> value])
capability(ctx, name, status) == Wrap(ctx, [kind |-> "capability", name |-> name, status |-> status])
event(ctx, name)              == Wrap(ctx, [kind |-> "event", name |-> name])
heartbeat(ctx, status)        == Wrap(ctx, [kind |-> "heartbeat", status |-> status])
health(ctx, target, status)   == Wrap(ctx, [kind |-> "health", name |-> target, status |-> status])
inventory(ctx, name)          == Wrap(ctx, [kind |-> "inventory", name |-> name])
state(ctx, variant)           == Wrap(ctx, [kind |-> "state", variant |-> variant])
transition(ctx, name)         == Wrap(ctx, [kind |-> "transition", name |-> name])
diagnosis(ctx, name)          == Wrap(ctx, [kind |-> "diagnosis", name |-> name])

(* SignalName::for_incident_kind: the kind's name and ".signal", unparsed. *)
SignalSuffix            == <<Dot, Letter>>
for_incident_kind(kind) == kind \o SignalSuffix

incident_signal(ctx, kind, status) ==
    Wrap(ctx, [kind |-> "incident_signal", name |-> for_incident_kind(kind),
               incident_kind |-> kind, status |-> status])

---------------------------------------------------------------------------
(* Every name type is #[serde(try_from = "String")]: deserialising goes     *)
(* through parse_dotted_name, serialising does not.                         *)

Parses(s) == parse_dotted_name(s).ok

MetricName(s)     == Parses(s)
HealthTargetId(s) == Parses(s)
CapabilityName(s) == Parses(s)
EventName(s)      == Parses(s)
InventoryName(s)  == Parses(s)
TransitionName(s) == Parses(s)
DiagnosisName(s)  == Parses(s)
SignalName(s)     == Parses(s)
IncidentKind(s)   == Parses(s)

(* A state is stored under its variant, a heartbeat has no name. *)
deserializes(payload) ==
    CASE payload.kind = "metric"          -> MetricName(payload.name)
      [] payload.kind = "health"          -> HealthTargetId(payload.name)
      [] payload.kind = "capability"      -> CapabilityName(payload.name)
      [] payload.kind = "event"           -> EventName(payload.name)
      [] payload.kind = "inventory"       -> InventoryName(payload.name)
      [] payload.kind = "transition"      -> TransitionName(payload.name)
      [] payload.kind = "diagnosis"       -> DiagnosisName(payload.name)
      [] payload.kind = "incident_signal" -> /\ SignalName(payload.name)
                                             /\ IncidentKind(payload.incident_kind)
      [] OTHER                            -> TRUE

(* Names come out of parse_dotted_name, but for that of a signal, and enums *)
(* have the values they have.                                               *)
WellFormed(f) ==
    /\ f.origin \in Origin /\ f.payload.kind \in PayloadKind
    /\ f.payload.kind \notin {"state", "heartbeat", "incident_signal"} =>
          f.payload.name \in Seq(Char) /\ Parses(f.payload.name)
    /\ f.payload.kind = "state" => f.payload.variant \in StateVariant
    /\ f.payload.kind = "health" => f.payload.status \in HealthStatus
    /\ f.payload.kind = "heartbeat" => f.payload.status \in HeartbeatStatus
    /\ f.payload.kind = "incident_signal" =>
          /\ f.payload.incident_kind \in Seq(Char) /\ Parses(f.payload.incident_kind)
          /\ f.payload.name = for_incident_kind(f.payload.incident_kind)
          /\ f.payload.status \in SignalStatus
=============================================================================
