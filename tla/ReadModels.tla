----------------------------- MODULE ReadModels -----------------------------
(***************************************************************************)
(* The in-memory read models: ReadModelStore (src/read_models/store.rs),   *)
(* its six projections (src/read_models/projections) and the queries the   *)
(* rules ask of them (src/read_models/traits).  Operators only; the value  *)
(* of the store is the record the modules that use it keep.                *)
(*                                                                         *)
(* Four projections keep the latest observation per key, by observed_at;   *)
(* metrics and heartbeats are rings that keep the last ones to arrive.     *)
(***************************************************************************)
EXTENDS Observations

CONSTANTS
    MetricCapacity,     \* DEFAULT_METRIC_SERIES_CAPACITY, 1000 in the code
    HeartbeatCapacity,  \* DEFAULT_HEARTBEAT_CAPACITY, 256 in the code
    Nothing             \* None of an Option

(* MetricProjection::with_capacity and HeartbeatProjection::with_capacity  *)
(* assert what is assumed here.                                            *)
ASSUME CapacityAssumption ==
    /\ MetricCapacity \in Nat \ {0}
    /\ HeartbeatCapacity \in Nat \ {0}

(* Payloads of which the latest per key is kept; metrics and heartbeats go  *)
(* to rings, and the store ignores the others.                              *)
Latest == {"state", "health", "capability", "incident_signal"}

(* All variants but the channel's have a typed accessor. *)
TypedVariant == StateVariant \ {"LndChannel"}

(* state::well_known: the canonical name of each variant, two segments. *)
well_known(variant) ==
    CASE variant = "BitcoinBlockchain"  -> <<"bitcoin", "blockchain">>
      [] variant = "BitcoinMempool"     -> <<"bitcoin", "mempool">>
      [] variant = "BitcoinNetwork"     -> <<"bitcoin", "network">>
      [] variant = "BitcoinPeerSummary" -> <<"bitcoin", "peer_summary">>
      [] variant = "LndNode"            -> <<"lnd", "node">>
      [] variant = "LndWallet"          -> <<"lnd", "wallet">>
      [] variant = "LndChannelSummary"  -> <<"lnd", "channel_summary">>
      [] variant = "LndChannel"         -> <<"lnd", "channel_detail">>
      [] variant = "Host"               -> <<"host", "system">>

state_name(variant) == well_known(variant)

(* The name a payload is keyed by next to its subject. *)
name_of(payload) ==
    IF payload.kind = "state" THEN state_name(payload.variant) ELSE payload.name

Projected(obs) == [value |-> obs.payload, id |-> obs.id, observed_at |-> obs.observed_at]

Put(map, key, p) == [k \in DOMAIN map \cup {key} |-> IF k = key THEN p ELSE map[k]]

EmptyMap == [k \in {} |-> Nothing]

NewStore ==
    [state |-> EmptyMap, health |-> EmptyMap, capability |-> EmptyMap,
     incident_signal |-> EmptyMap, metric |-> EmptyMap, heartbeat |-> <<>>]

---------------------------------------------------------------------------
(* Projection::apply of the four latest-value projections: an observation  *)
(* that is not newer than the one held is dropped.                         *)

(* Slip: the observation that arrives last wins, however old it is. *)
LatestArrival(map, obs) == Put(map, <<obs.subject, name_of(obs.payload)>>, Projected(obs))

latest_write_wins(map, obs) ==
    LET key == <<obs.subject, name_of(obs.payload)>>
    IN  IF key \in DOMAIN map /\ map[key].observed_at >= obs.observed_at
          THEN map
          ELSE Put(map, key, Projected(obs))

StateProjection_apply(map, obs)          == latest_write_wins(map, obs)
HealthProjection_apply(map, obs)         == latest_write_wins(map, obs)
CapabilityProjection_apply(map, obs)     == latest_write_wins(map, obs)
IncidentSignalProjection_apply(map, obs) == latest_write_wins(map, obs)

push_bounded(ring, p, capacity) ==
    LET pushed == Append(ring, p)
    IN  IF Len(pushed) > capacity THEN Tail(pushed) ELSE pushed

series(map, key) == IF key \in DOMAIN map THEN map[key] ELSE <<>>

MetricProjection_apply(map, obs) ==
    LET key == <<obs.subject, obs.payload.name>>
    IN  Put(map, key, push_bounded(series(map, key), Projected(obs), MetricCapacity))

HeartbeatProjection_apply(ring, obs) == push_bounded(ring, Projected(obs), HeartbeatCapacity)

(* ReadModelStore::apply *)
apply(store, obs) ==
    CASE obs.payload.kind = "state"      -> [store EXCEPT !.state = StateProjection_apply(@, obs)]
      [] obs.payload.kind = "metric"     -> [store EXCEPT !.metric = MetricProjection_apply(@, obs)]
      [] obs.payload.kind = "health"     -> [store EXCEPT !.health = HealthProjection_apply(@, obs)]
      [] obs.payload.kind = "capability" ->
             [store EXCEPT !.capability = CapabilityProjection_apply(@, obs)]
      [] obs.payload.kind = "heartbeat"  ->
             [store EXCEPT !.heartbeat = HeartbeatProjection_apply(@, obs)]
      [] obs.payload.kind = "incident_signal" ->
             [store EXCEPT !.incident_signal = IncidentSignalProjection_apply(@, obs)]
      [] OTHER -> store

---------------------------------------------------------------------------
(* The queries. *)

current(map, subject, name) ==
    IF <<subject, name>> \in DOMAIN map THEN map[<<subject, name>>] ELSE Nothing

latest_state(store, subject, name)       == current(store.state, subject, name)
current_health(store, subject, name)     == current(store.health, subject, name)
current_capability(store, subject, name) == current(store.capability, subject, name)
current_signal(store, subject, name)     == current(store.incident_signal, subject, name)

for_subject(map, subject) == {map[k] : k \in {q \in DOMAIN map : q[1] = subject}}

active_signals_for(store, subject) ==
    {p \in for_subject(store.incident_signal, subject) : p.value.status = "Active"}

active_signals_for_incident_kind(store, subject, kind) ==
    {p \in active_signals_for(store, subject) : p.value.incident_kind = kind}

latest_of(ring) == IF ring = <<>> THEN Nothing ELSE ring[Len(ring)]

latest_metric(store, subject, name) == latest_of(series(store.metric, <<subject, name>>))
latest_heartbeat(store)             == latest_of(store.heartbeat)

(* Iterator::filter: the elements of seq at the places keep, in their order. *)
Filtered(seq, keep) ==
    LET n     == Cardinality(keep)
        place == CHOOSE f \in [1..n -> keep] : \A i, j \in 1..n : i < j => f[i] < f[j]
    IN  [i \in 1..n |-> seq[place[i]]]

newer_than(ring, since) == Filtered(ring, {i \in DOMAIN ring : ring[i].observed_at > since})

metric_samples_since(store, subject, name, since) ==
    newer_than(series(store.metric, <<subject, name>>), since)
heartbeats_since(store, since) == newer_than(store.heartbeat, since)

(* unchanged_for: the trailing run of samples that equal the latest one. *)
trailing_run(ring) ==
    LET last   == Len(ring)
        breaks == {i \in 1..last : ring[i].value.value # ring[last].value.value}
        from   == IF breaks = {} THEN 1 ELSE 1 + CHOOSE i \in breaks : \A j \in breaks : j =< i
    IN  SubSeq(ring, from, last)

unchanged_for(store, subject, name) ==
    LET ring == series(store.metric, <<subject, name>>)
    IN  IF ring = <<>> THEN Nothing ELSE trailing_run(ring)

(* StateReadModelExt: the typed accessor of a variant asks for the name     *)
(* well_known gives it and yields nothing when it finds another one.        *)
unwrap_state(projected, variant) ==
    IF projected = Nothing \/ projected.value.variant # variant THEN Nothing ELSE projected

typed_state(store, subject, variant) ==
    unwrap_state(latest_state(store, subject, well_known(variant)), variant)
=============================================================================
