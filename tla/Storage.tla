------------------------------ MODULE Storage ------------------------------
(***************************************************************************)
(* What is kept of the observations and who reads it: the SQLite           *)
(* observation store and its in-memory twin (src/storage/sqlite, memory),  *)
(* the read models the consumer feeds next to it, the retention sweep      *)
(* (src/storage/retention.rs), the two audit logs of the notifications,    *)
(* and the operator API's reads of incidents and their evidence (src/api). *)
(*                                                                         *)
(* The consumer appends one observation at a time; the sweep deletes table *)
(* by table; a request for evidence looks up one observation at a time.    *)
(* The three interleave at every await.  Texts, payload contents and the   *)
(* JSON around them are abstracted; the columns that decide what is found, *)
(* in which order, and under which subject, are not.                       *)
(***************************************************************************)
EXTENDS ReadModels, NotificationAttempts, Functions

CONSTANTS
    Deployments,  \* what a behaviour may be about, see Deployment
    MaxObs,       \* bound: observations
    MaxTime,      \* bound: the wall clock
    MaxLag        \* how late after observed_at an observation may arrive

Id   == 1..MaxObs
Time == 0..MaxTime
Age  == Nat \cup {Nothing}   \* Nothing: the table is not swept

(* A deployment: the observations made in it, [subject, origin, payload],   *)
(* and how many; whether incidents come of them; the notifications that     *)
(* go out for the incident, [rule, lifecycle, sink], how many, and what     *)
(* comes of them; the endpoints that are asked; the ages of the retention   *)
(* configuration; and whether retention::run is spawned, which main does    *)
(* not do: a deployment with spawned = TRUE is one of the library's.        *)
Endpoint == {"health", "open", "detail", "evidence"}
Notice   == [rule : STRING, lifecycle : LifecycleKind, sink : AttemptTarget]

IsDeployment(d) ==
    /\ \A f \in d.facts : WellFormed(f) /\ f.subject \in EntityRef
    /\ d.limit \in 0..MaxObs /\ d.incidents \in BOOLEAN /\ d.spawned \in BOOLEAN
    /\ d.notices \subseteq Notice /\ d.sends \in Nat /\ d.asked \subseteq Endpoint
    /\ d.outcomes \subseteq {"Delivered", "Transient", "Permanent"}
    /\ d.observations \in Age /\ d.resolved \in Age /\ d.attempts \in Age

ASSUME StorageAssumption ==
    /\ \A d \in Deployments : IsDeployment(d)
    /\ MaxObs \in Nat /\ MaxTime \in Nat /\ MaxLag \in Nat

VARIABLES
    deployed,   \* the deployment of this behaviour
    now,        \* Utc::now
    rows,       \* table observations, by its primary key
    memory,     \* what MemoryObservationStore would hold after the same calls
    store,      \* ReadModelStore
    applied,    \* history: what the read models were given
    issued,     \* observation ids issued
    incident,   \* the row of table incidents: status, resolved_at, evidence
    attempts,   \* table notification_attempts, by its primary key
    audit,      \* what MemoryNotificationAttemptRepository would hold
    owed,       \* attempts the worker still has to complete
    sweep,      \* the sweep at work: its next table and the time it read
    request,    \* the evidence request at work: ids to look up, ids found
    answer      \* the last answer of the API

observed  == <<rows, memory, store, applied, issued>>
notices   == <<attempts, audit, owed>>
tables    == <<incident, notices>>
api       == <<request, answer>>
vars      == <<deployed, now, observed, tables, sweep, api>>

NoSweep    == [table |-> "none", now |-> 0]
NoIncident == [status |-> "none", resolved_at |-> 0, evidence |-> <<>>]

(* The row was written and not deleted. *)
HasRow == incident.status \notin {"none", "swept"}

(* ApiError::into_response, 200 where a handler succeeds, and what the      *)
(* health handler makes of a store that does not answer.                    *)
status_of(result) ==
    CASE result = "Ok"          -> 200
      [] result = "NotFound"    -> 404
      [] result = "BadRequest"  -> 400
      [] result = "Storage"     -> 500
      [] result = "Unreachable" -> 503

Init ==
    /\ deployed \in Deployments
    /\ now = 0
    /\ rows = EmptyMap /\ memory = <<>>
    /\ store = NewStore /\ applied = <<>> /\ issued = 0
    /\ incident = NoIncident
    /\ attempts = EmptyMap /\ audit = EmptyMap /\ owed = {}
    /\ sweep = NoSweep
    /\ request = Nothing /\ answer = Nothing

Clock == now < MaxTime /\ now' = now + 1 /\ UNCHANGED <<deployed, observed, tables, sweep, api>>

---------------------------------------------------------------------------
(* Rows.  The subject is split over two columns and the origin is a word.  *)

Observation(f, lag) ==
    [id |-> issued + 1, observed_at |-> now - lag, subject |-> f.subject,
     origin |-> f.origin, payload |-> f.payload]

origin_str(o) ==
    CASE o = "Collected" -> "collected" [] o = "Computed"     -> "computed"
      [] o = "Imported"  -> "imported"  [] o = "UserReported" -> "user_reported"

origin_from_str(s) ==
    CASE s = "collected" -> "Collected" [] s = "computed"      -> "Computed"
      [] s = "imported"  -> "Imported"  [] s = "user_reported" -> "UserReported"

to_row(obs) ==
    [id |-> obs.id, observed_at |-> obs.observed_at,
     subject_kind |-> obs.subject.kind, subject_id |-> subject_id_str(obs.subject),
     origin |-> origin_str(obs.origin), payload |-> obs.payload]

(* The payload goes to a JSON column as it is and is validated on the way back. *)
row_to_observation(row) ==
    [id |-> row.id, observed_at |-> row.observed_at,
     subject |-> subject_from_pair(row.subject_kind, row.subject_id),
     origin |-> origin_from_str(row.origin), payload |-> row.payload]

readable(row) ==
    deserializes(row.payload) /\ subject_from_pair(row.subject_kind, row.subject_id) # Corrupt

(* Whether there is a row; it may be unreadable. *)
get_by_id(id) == id \in DOMAIN rows

Orderings(S) ==
    {s \in [1..Cardinality(S) -> S] : \A x \in S : \E i \in DOMAIN s : s[i] = x}

(* The orders in which a query may stream observations or rows. *)
Orders(S) ==
    {s \in Orderings(S) :
        \A i, j \in DOMAIN s : i < j => s[i].observed_at =< s[j].observed_at}

(* iter_since of the memory store: a stable sort of a snapshot. *)
memory_iter_since(since) ==
    LET snapshot == {memory[i] : i \in {j \in DOMAIN memory : memory[j].observed_at >= since}}
    IN  CHOOSE s \in Orders(snapshot) :
            \A i, j \in DOMAIN s :
                i < j /\ s[i].observed_at = s[j].observed_at => s[i].id < s[j].id

(* iter_since of SQLite: ORDER BY observed_at leaves the order of equals open. *)
iter_since(since) ==
    Orders({rows[id] : id \in {x \in DOMAIN rows : rows[x].observed_at >= since}})

---------------------------------------------------------------------------
(* The consumer. *)

(* process_batch, one observation: append, and apply what was appended. *)
AppendObservation(f, lag) ==
    LET obs == Observation(f, lag) IN
    /\ issued < deployed.limit /\ lag =< now
    /\ f.payload.kind # "incident_signal"
    /\ rows' = Put(rows, obs.id, to_row(obs))
    /\ memory' = Append(memory, obs)
    /\ store' = apply(store, obs)
    /\ applied' = Append(applied, obs)
    /\ issued' = issued + 1
    /\ UNCHANGED <<deployed, now, tables, sweep, api>>

(* An append that fails is rolled back, and the rest of the batch is skipped, *)
(* read models included.                                                      *)
AppendFails == UNCHANGED vars

(* SignalRecorded: the read models get the signal whether or not the store did. *)
RecordSignal(f, stored) ==
    LET obs == Observation(f, 0) IN
    /\ issued < deployed.limit
    /\ f.payload.kind = "incident_signal"
    /\ rows' = IF stored THEN Put(rows, obs.id, to_row(obs)) ELSE rows
    /\ memory' = IF stored THEN Append(memory, obs) ELSE memory
    /\ store' = apply(store, obs)
    /\ applied' = Append(applied, obs)
    /\ issued' = issued + 1
    /\ UNCHANGED <<deployed, now, tables, sweep, api>>

(* What a replay of a stream into empty read models yields. *)
Replay(stream) ==
    LET upTo[n \in 0..Len(stream)] ==
            IF n = 0 THEN NewStore ELSE apply(upTo[n-1], stream[n])
    IN  upTo[Len(stream)]

(* Incidents are saved with the observations they cite as evidence, here    *)
(* all but the signals and in any order...                                  *)
Citable == {applied[i].id : i \in {j \in DOMAIN applied : applied[j].payload.kind # "incident_signal"}}

SaveOpened ==
    /\ deployed.incidents /\ incident.status = "none" /\ applied # <<>>
    /\ \E cited \in Orderings(Citable) :
          incident' = [status |-> "Open", resolved_at |-> 0, evidence |-> cited]
    /\ UNCHANGED <<deployed, now, observed, notices, sweep, api>>

(* ...and saved again when they are resolved. *)
SaveResolved ==
    /\ incident.status = "Open"
    /\ incident' = [incident EXCEPT !.status = "Resolved", !.resolved_at = now]
    /\ UNCHANGED <<deployed, now, observed, notices, sweep, api>>

(* The consumer inserts an attempt as Pending, with the time its batch came *)
(* at, before the worker gets it...                                         *)
InsertPending(n, lag) ==
    LET sends == Cardinality(DOMAIN audit)
        a     == pending_attempt(sends + 1, n.rule, n.lifecycle, n.sink, now - lag) IN
    /\ lag =< now /\ HasRow /\ sends < deployed.sends
    /\ attempts' = insert_pending(attempts, a)
    /\ audit' = memory_insert_pending(audit, a)
    /\ owed' = owed \cup {a.id}
    /\ UNCHANGED <<deployed, now, observed, incident, sweep, api>>

(* ...which completes it, never with a time to try again. *)
CompleteAttempt(id) ==
    /\ \E o \in DeliveryOutcomes(audit[id].target_kind) :
          /\ o.kind \in deployed.outcomes
          /\ attempts' = complete(attempts, id, o, NoTime, now)
          /\ audit' = memory_complete(audit, id, o, NoTime, now)
    /\ owed' = owed \ {id}
    /\ UNCHANGED <<deployed, now, observed, incident, sweep, api>>

---------------------------------------------------------------------------
(* The retention task.  The time is read once, before the first table, and  *)
(* the tables follow, each in a statement of its own that may fail.  The    *)
(* suppression rules, which nothing writes, and VACUUM are left out.        *)

Expired(at, age) == age # Nothing /\ at < sweep.now - age

(* DELETE FROM observations WHERE observed_at < cutoff *)
YoungRows ==
    Restrict(rows, {id \in DOMAIN rows : ~Expired(rows[id].observed_at, deployed.observations)})

(* DELETE FROM incidents WHERE resolved_at IS NOT NULL AND resolved_at < cutoff *)
OldIncident == incident.status = "Resolved" /\ Expired(incident.resolved_at, deployed.resolved)

(* Slip: the guard on the status is forgotten. *)
RecentAttempts ==
    Restrict(attempts, {id \in DOMAIN attempts : ~Expired(attempts[id].attempted_at, deployed.attempts)})

(* DELETE FROM notification_attempts WHERE attempted_at < cutoff AND status != 'Pending' *)
KeptAttempts ==
    Restrict(attempts, {id \in DOMAIN attempts :
                           \/ ~Expired(attempts[id].attempted_at, deployed.attempts)
                           \/ attempts[id].status = status_str["Pending"]})

(* The ticker of retention::run fires.  Nothing under src/ spawns that task: *)
(* as main starts the program, deployed.spawned is FALSE.                    *)
SweepStarts ==
    /\ deployed.spawned /\ sweep.table = "none"
    /\ sweep' = [table |-> "observations", now |-> now]
    /\ UNCHANGED <<deployed, now, observed, tables, api>>

After(table) == CASE table = "observations" -> "incidents"
                  [] table = "incidents"    -> "attempts"
                  [] table = "attempts"     -> "none"

NextTable == sweep' = IF After(sweep.table) = "none" THEN NoSweep
                      ELSE [sweep EXCEPT !.table = After(@)]

SweepObservations ==
    /\ sweep.table = "observations" /\ NextTable
    /\ rows' = YoungRows
    /\ UNCHANGED <<deployed, now, memory, store, applied, issued, tables, api>>

SweepIncidents ==
    /\ sweep.table = "incidents" /\ NextTable
    /\ incident' = IF OldIncident THEN [NoIncident EXCEPT !.status = "swept"] ELSE incident
    /\ UNCHANGED <<deployed, now, observed, notices, api>>

SweepAttempts ==
    /\ sweep.table = "attempts" /\ NextTable
    /\ attempts' = KeptAttempts
    /\ UNCHANGED <<deployed, now, observed, incident, audit, owed, api>>

(* A statement fails: a warning is logged and the next table follows. *)
StatementFails ==
    /\ sweep.table # "none" /\ NextTable
    /\ UNCHANGED <<deployed, now, observed, tables, api>>

---------------------------------------------------------------------------
(* The operator API. *)

(* What was asked for is kept for the properties; the operator gets the rest. *)
Answer(path, result, asked, found) ==
    answer' = [path |-> path, status |-> status_of(result), asked |-> asked, found |-> found]

(* A request comes in: one in a behaviour, at any point of it. *)
Asked(path) == path \in deployed.asked /\ request = Nothing /\ answer = Nothing

IncidentSummaryDto == [status |-> incident.status]
IncidentDetailDto  == [status |-> incident.status, resolved_at |-> incident.resolved_at,
                       evidence |-> incident.evidence]

(* Both ids of a peer, channel or invoice. *)
SubjectDto(e) ==
    IF e.kind \in Scoped THEN [type |-> e.kind, node_id |-> e.node, id |-> e.sub]
    ELSE [type |-> e.kind, id |-> e.id]

EvidenceObservationDto(obs) ==
    [id |-> obs.id, observed_at |-> obs.observed_at, subject |-> SubjectDto(obs.subject),
     origin |-> origin_str(obs.origin)]

(* GET /health probes the store with load_open. *)
health_handler ==
    /\ Asked("health")
    /\ \E result \in {"Ok", "Unreachable"} : Answer("health", result, <<>>, <<>>)
    /\ UNCHANGED <<deployed, now, observed, tables, sweep, request>>

(* GET /incidents/open *)
list_open ==
    /\ Asked("open")
    /\ \/ Answer("open", "Ok", <<>>, IF incident.status = "Open" THEN <<IncidentSummaryDto>> ELSE <<>>)
       \/ Answer("open", "Storage", <<>>, <<>>)
    /\ UNCHANGED <<deployed, now, observed, tables, sweep, request>>

(* GET /incidents/:id *)
detail ==
    /\ Asked("detail")
    /\ \/ Answer("detail", "BadRequest", <<>>, <<>>)
       \/ HasRow /\ Answer("detail", "Ok", <<>>, <<IncidentDetailDto>>)
       \/ ~HasRow /\ Answer("detail", "NotFound", <<>>, <<>>)
       \/ Answer("detail", "Storage", <<>>, <<>>)
    /\ UNCHANGED <<deployed, now, observed, tables, sweep, request>>

(* GET /incidents/:id/evidence reads the incident first... *)
evidence ==
    /\ Asked("evidence")
    /\ \/ Answer("evidence", "BadRequest", <<>>, <<>>) /\ UNCHANGED request
       \/ ~HasRow /\ Answer("evidence", "NotFound", <<>>, <<>>) /\ UNCHANGED request
       \/ /\ HasRow /\ UNCHANGED answer
          /\ request' = [asked |-> incident.evidence, rest |-> incident.evidence, found |-> <<>>]
    /\ UNCHANGED <<deployed, now, observed, tables, sweep>>

EvidenceOf(id) == EvidenceObservationDto(row_to_observation(rows[id]))

(* Slip: the lookups end at the first observation that is gone. *)
LookUpUntilGone ==
    /\ request # Nothing /\ request.rest # <<>>
    /\ LET id == Head(request.rest)
       IN  request' = IF get_by_id(id)
                        THEN [request EXCEPT !.rest = Tail(@), !.found = Append(@, EvidenceOf(id))]
                        ELSE [request EXCEPT !.rest = <<>>]
    /\ UNCHANGED <<deployed, now, observed, tables, sweep, answer>>

(* ...then one observation after the other, skipping what is gone... *)
LookUp ==
    /\ request # Nothing /\ request.rest # <<>>
    /\ LET id == Head(request.rest)
       IN  /\ get_by_id(id) => readable(rows[id])
           /\ request' = [request EXCEPT
                             !.rest  = Tail(@),
                             !.found = IF get_by_id(id) THEN Append(@, EvidenceOf(id)) ELSE @]
    /\ UNCHANGED <<deployed, now, observed, tables, sweep, answer>>

(* ...and answers with what it found, unless the store fails on the way. *)
Respond ==
    /\ request # Nothing
    /\ \/ request.rest = <<>> /\ Answer("evidence", "Ok", request.asked, request.found)
       \/ Answer("evidence", "Storage", request.asked, <<>>)
    /\ request' = Nothing
    /\ UNCHANGED <<deployed, now, observed, tables, sweep>>

---------------------------------------------------------------------------
Consumer ==
    \/ \E f \in deployed.facts, lag \in 0..MaxLag : AppendObservation(f, lag)
    \/ AppendFails
    \/ \E f \in deployed.facts, stored \in BOOLEAN : RecordSignal(f, stored)
    \/ SaveOpened \/ SaveResolved \/ \E n \in deployed.notices, lag \in 0..MaxLag : InsertPending(n, lag)

Sweep == SweepStarts \/ SweepObservations \/ SweepIncidents \/ SweepAttempts \/ StatementFails
Worker == \E id \in owed : CompleteAttempt(id)
Api   == health_handler \/ list_open \/ detail \/ evidence \/ LookUp \/ Respond

Next == Clock \/ Consumer \/ Worker \/ Sweep \/ Api

Spec == Init /\ [][Next]_vars

---------------------------------------------------------------------------
(* Properties. *)

Key(obs) == <<obs.subject, name_of(obs.payload)>>

(* Where the observations of a kind, and those of one key, are in a log. *)
OfKind(log, kind)     == {i \in DOMAIN log : log[i].payload.kind = kind}
OfKey(log, kind, key) == {i \in OfKind(log, kind) : Key(log[i]) = key}

(* The newest observation of log at the places own, the first to arrive     *)
(* when several are as new.                                                 *)
IsNewest(log, own, i) ==
    \A j \in own : \/ log[j].observed_at < log[i].observed_at
                   \/ log[j].observed_at = log[i].observed_at /\ i =< j

NewestOf(log, own) == log[CHOOSE i \in own : IsNewest(log, own, i)]

View(kind, subject, name) ==
    CASE kind = "state"           -> latest_state(store, subject, name)
      [] kind = "health"          -> current_health(store, subject, name)
      [] kind = "capability"      -> current_capability(store, subject, name)
      [] kind = "incident_signal" -> current_signal(store, subject, name)

(* The latest-value projections answer, for every key, with exactly the     *)
(* newest observation they were given since the boot, whatever order the    *)
(* observations arrived in; and an incident kind has an active signal on a  *)
(* subject exactly when its newest signal there is Active.                  *)
ViewsAreLatest ==
    /\ \A kind \in Latest :
          /\ DOMAIN store[kind] = {Key(applied[i]) : i \in OfKind(applied, kind)}
          /\ \A key \in DOMAIN store[kind] :
                View(kind, key[1], key[2]) = Projected(NewestOf(applied, OfKey(applied, kind, key)))
    /\ \A i \in OfKind(applied, "incident_signal") :
          LET obs    == applied[i]
              active == active_signals_for_incident_kind(store, obs.subject, obs.payload.incident_kind)
          IN  (active # {}) <=>
                 NewestOf(applied, OfKey(applied, "incident_signal", Key(obs))).payload.status = "Active"

(* The ring holds, in their order, what arrived last of the observations of *)
(* log at the places own: what it lacks is older, and it lacks it because   *)
(* it is full.                                                              *)
IsTail(log, ring, own, capacity) ==
    /\ Len(ring) =< capacity
    /\ \E f \in [DOMAIN ring -> own] :
          /\ \A i, j \in DOMAIN ring : i < j => f[i] < f[j]
          /\ \A i \in DOMAIN ring : ring[i] = Projected(log[f[i]])
          /\ \A n \in own : \/ \E i \in DOMAIN ring : f[i] = n
                            \/ Len(ring) = capacity /\ \A i \in DOMAIN ring : n < f[i]

(* The rings hold the samples that arrived last, up to their capacity. *)
RingsAreTails ==
    /\ DOMAIN store.metric = {Key(applied[i]) : i \in OfKind(applied, "metric")}
    /\ \A key \in DOMAIN store.metric :
          IsTail(applied, store.metric[key], OfKey(applied, "metric", key), MetricCapacity)
    /\ IsTail(applied, store.heartbeat, OfKind(applied, "heartbeat"), HeartbeatCapacity)

LastOf(ring, n) == SubSeq(ring, Len(ring) - n + 1, Len(ring))

(* What a ring is to answer when it is asked for what came after since. *)
AllNewer(samples, ring, since) ==
    {samples[j] : j \in DOMAIN samples} =
        {ring[i] : i \in {k \in DOMAIN ring : ring[k].observed_at > since}}

(* Asked since a time, a ring yields the samples it holds that are newer,   *)
(* and all of them; unchanged_for is the longest run of equal samples at    *)
(* its end.                                                                 *)
RingsAnswer ==
    /\ \A key \in DOMAIN store.metric :
          LET ring == store.metric[key]
              last == latest_metric(store, key[1], key[2])
              run  == unchanged_for(store, key[1], key[2])
          IN  /\ run # <<>> /\ run = LastOf(ring, Len(run))
              /\ \A i \in DOMAIN run : run[i].value.value = last.value.value
              /\ Len(run) < Len(ring) => ring[Len(ring) - Len(run)].value.value # last.value.value
              /\ \A since \in Time :
                    AllNewer(metric_samples_since(store, key[1], key[2], since), ring, since)
    /\ store.heartbeat # <<>> => latest_heartbeat(store) = store.heartbeat[Len(store.heartbeat)]
    /\ \A since \in Time : AllNewer(heartbeats_since(store, since), store.heartbeat, since)

(* The typed accessor of a variant answers with the newest state of that    *)
(* variant observed on the subject, and with nothing only when there is     *)
(* none: no two variants share a name and hide each other.                  *)
TypedAccessorsAnswer ==
    \A f \in deployed.facts : \A variant \in TypedVariant :
        LET own == {i \in OfKind(applied, "state") : /\ applied[i].payload.variant = variant
                                                     /\ applied[i].subject = f.subject}
        IN  typed_state(store, f.subject, variant) =
                IF own = {} THEN Nothing ELSE Projected(NewestOf(applied, own))

(* The read models hold what was observed, in whatever order it arrived:    *)
(* views, rings and what is asked of them, and typed accessors.             *)
ReadModelsAnswer == ViewsAreLatest /\ RingsAreTails /\ RingsAnswer /\ TypedAccessorsAnswer

(* Nothing comes in as old as what the sweep has deleted, and no two        *)
(* subjects read back from their columns as one.                            *)
AgeCoversLag == deployed.observations = Nothing \/ MaxLag =< deployed.observations

read_back(e) == subject_from_pair(e.kind, subject_id_str(e))

SubjectsStayApart ==
    \A f, g \in deployed.facts : read_back(f.subject) = read_back(g.subject) => f.subject = g.subject

(* Whatever the sweep has deleted, and whatever order SQLite yields equal   *)
(* times in, a replay of the store shows of no key an observation older     *)
(* than the newest one stored, and shows a key whose newest one is there:   *)
(* old values never come back, where the retention age covers the lag of    *)
(* the observations and their subjects stay apart.                          *)
ReplayIsCurrent ==
    AgeCoversLag /\ SubjectsStayApart =>
        \A stream \in iter_since(0) :
            LET replayed == Replay([i \in DOMAIN stream |-> row_to_observation(stream[i])])
            IN  \A kind \in Latest : \A i \in OfKind(memory, kind) :
                    LET obs    == row_to_observation(to_row(memory[i]))
                        newest == NewestOf(memory, OfKey(memory, kind, Key(memory[i])))
                    IN  IF Key(obs) \in DOMAIN replayed[kind]
                          THEN replayed[kind][Key(obs)].observed_at = newest.observed_at
                          ELSE ~get_by_id(memory[i].id)

(* SQLite and the memory store stream the same observations from any time   *)
(* on, but for those swept.                                                 *)
StreamsAgree ==
    \A since \in Time :
        LET stream == memory_iter_since(since)
            kept   == Filtered(stream, {i \in DOMAIN stream : get_by_id(stream[i].id)})
        IN  [i \in DOMAIN kept |-> to_row(kept[i])] \in iter_since(since)

(* Each row reads back under the two columns it was stored under, and as    *)
(* the observation itself unless the node's id contains a slash; and a row  *)
(* is unreadable only when it is the signal of a kind whose name leaves no  *)
(* room for the suffix.                                                     *)
RowsReadBack ==
    \A id \in DOMAIN rows, j \in DOMAIN memory :
        memory[j].id = id =>
            LET back == row_to_observation(rows[id])
            IN  /\ \/ readable(rows[id])
                   \/ /\ rows[id].payload.kind = "incident_signal"
                      /\ Len(rows[id].payload.incident_kind) + Len(SignalSuffix) > MaxNameLen
                /\ back.subject.kind = rows[id].subject_kind
                /\ subject_id_str(back.subject) = rows[id].subject_id
                /\ \/ back = memory[j]
                   \/ back.subject.kind \in Scoped /\ HasSlash(memory[j].subject.node)

(* The SQLite store holds what the memory store holds, but for what was     *)
(* swept: it streams the same, its rows read back, and a replay of them is  *)
(* current.                                                                 *)
StoresAgree == StreamsAgree /\ ReplayIsCurrent /\ RowsReadBack

IsSubSeq(s, t) ==
    \E f \in [DOMAIN s -> DOMAIN t] :
        \A i \in DOMAIN s : s[i] = t[f[i]] /\ \A j \in DOMAIN s : i < j => f[i] < f[j]

(* obs is shown as it is, unless a slash in the id of its node misleads the *)
(* reader of its row.                                                       *)
ShownAs(dto, obs) ==
    /\ dto.id = obs.id
    /\ \/ dto = EvidenceObservationDto(obs)
       \/ obs.subject.kind \in Scoped /\ HasSlash(obs.subject.node)

(* A successful answer lists the incident's evidence in its order and as it *)
(* was observed, and what it leaves out is really gone, although the sweep  *)
(* ran between the lookups.                                                 *)
EvidenceIsHonest ==
    answer # Nothing /\ answer.path = "evidence" /\ answer.status = 200 =>
        /\ IsSubSeq([i \in DOMAIN answer.found |-> answer.found[i].id], answer.asked)
        /\ \A i \in DOMAIN answer.found : \E j \in DOMAIN memory :
              ShownAs(answer.found[i], memory[j])
        /\ \A i \in DOMAIN answer.asked :
              get_by_id(answer.asked[i]) => \E j \in DOMAIN answer.found :
                                               answer.found[j].id = answer.asked[i]

(* "In V0 the result is always empty (no attempt ever lands in              *)
(* FailedTransient)": nothing is left for a scheduler that does not exist,  *)
(* and nothing in a status only that scheduler would find without the time  *)
(* it needs.                                                                *)
NoRetryIsOwed ==
    /\ list_retryable(attempts, now) = {} /\ memory_list_retryable(audit, now) = {}
    /\ \A id \in DOMAIN attempts :
          attempts[id].status = "FailedTransient" <=> attempts[id].next_retry_at # NoTime

(* The two audit logs list the same attempts of the incident, but for those *)
(* swept, newest first: variants, outcomes and message references survive   *)
(* their way through the columns, and neither log owes a retry.             *)
AuditLogsAgree ==
    /\ NoRetryIsOwed
    /\ list_for_incident(attempts) =
          memory_list_for_incident(Restrict(audit, {id \in DOMAIN audit : HasAttempt(attempts, id)}))

Due(at, age) == age # Nothing /\ at + age < now

(* Nothing is deleted before its age is up by the clock of that moment,     *)
(* although the sweep goes by the time it read when it began; and of the    *)
(* incidents only resolved ones, of the attempts only completed ones.       *)
NothingGoesEarly ==
    [][/\ \A id \in DOMAIN rows \ DOMAIN rows' : Due(rows[id].observed_at, deployed.observations)
       /\ HasRow /\ ~HasRow' =>
             incident.status = "Resolved" /\ Due(incident.resolved_at, deployed.resolved)
       /\ \A id \in DOMAIN attempts \ DOMAIN attempts' :
             /\ attempts[id].status # "Pending"
             /\ Due(attempts[id].attempted_at, deployed.attempts)]_vars
=============================================================================
