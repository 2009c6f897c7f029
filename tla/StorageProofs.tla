--------------------------- MODULE StorageProofs ---------------------------
(***************************************************************************)
(* Proofs about Storage: what the read models hold, what the sweep may     *)
(* delete and a replay of the rest shows, what the operator is shown as    *)
(* evidence, and that the two audit logs list the same attempts.           *)
(***************************************************************************)
EXTENDS Storage, IdentifierProofs, FiniteSetTheorems, TLAPS

---------------------------------------------------------------------------
(* The inductive invariant. *)

SweepTable == {"none", "observations", "incidents", "attempts"}

(* The sweep goes by a time that has been. *)
ClockInv ==
    /\ deployed \in Deployments
    /\ now \in Nat /\ issued \in Nat
    /\ sweep \in [table : SweepTable, now : Nat] /\ sweep.now =< now

(* Every observation appended or applied has an id issued and the parts of *)
(* an observation that is well formed.                                      *)
IsObservation(o) ==
    /\ o = [id |-> o.id, observed_at |-> o.observed_at, subject |-> o.subject,
            origin |-> o.origin, payload |-> o.payload]
    /\ o.id \in 1..issued /\ o.observed_at \in Nat
    /\ o.subject \in EntityRef /\ WellFormed(o)

LogInv ==
    /\ DOMAIN memory = 1..Len(memory) /\ Len(memory) \in Nat
    /\ DOMAIN applied = 1..Len(applied) /\ Len(applied) \in Nat
    /\ \A i \in DOMAIN memory  : IsObservation(memory[i])
    /\ \A i \in DOMAIN applied : IsObservation(applied[i])
    /\ \A i, j \in DOMAIN memory : memory[i].id = memory[j].id => i = j

(* A row is the row of an observation the memory store holds. *)
RowInv ==
    /\ DOMAIN rows \subseteq 1..issued
    /\ \A id \in DOMAIN rows : \E j \in DOMAIN memory :
          memory[j].id = id /\ rows[id] = to_row(memory[j])

(* What was observed is what the deployment has to observe, and in the past. *)
FactInv ==
    \A j \in DOMAIN memory : /\ memory[j].observed_at =< now
                             /\ \E f \in deployed.facts : memory[j].subject = f.subject

(* What is stored no more is overdue, and older than whatever is stored: the *)
(* sweep leaves nothing behind, and what comes late is not that late.       *)
SweptInv ==
    \A j \in DOMAIN memory : memory[j].id \notin DOMAIN rows =>
        /\ Due(memory[j].observed_at, deployed.observations)
        /\ AgeCoversLag => \A id \in DOMAIN rows : memory[j].observed_at < rows[id].observed_at

(* Each latest-value projection holds, of every key it was given, the newest *)
(* observation; each ring holds what arrived last.                           *)
ViewOf(log, kind, map) ==
    /\ DOMAIN map = {Key(log[i]) : i \in OfKind(log, kind)}
    /\ \A key \in DOMAIN map : \E i \in OfKey(log, kind, key) :
          map[key] = Projected(log[i]) /\ IsNewest(log, OfKey(log, kind, key), i)

Projections(log) == {Projected(log[i]) : i \in DOMAIN log}

RingOf(log, ring, own, capacity) ==
    ring \in Seq(Projections(log)) /\ IsTail(log, ring, own, capacity)

SeriesOf(log, map) ==
    /\ DOMAIN map = {Key(log[i]) : i \in OfKind(log, "metric")}
    /\ \A key \in DOMAIN map :
          RingOf(log, map[key], OfKey(log, "metric", key), MetricCapacity)

ProjectionNames == Latest \cup {"metric", "heartbeat"}

StoreOf(log, st) ==
    /\ DOMAIN st = ProjectionNames
    /\ \A kind \in Latest : ViewOf(log, kind, st[kind])
    /\ SeriesOf(log, st.metric)
    /\ RingOf(log, st.heartbeat, OfKind(log, "heartbeat"), HeartbeatCapacity)

StoreInv == StoreOf(applied, store)

IncidentInv ==
    /\ DOMAIN incident = {"status", "resolved_at", "evidence"}
    /\ incident.resolved_at \in Nat /\ incident.evidence \in Seq(1..issued)

(* What the operator is shown of an observation: what its row reads as. *)
Shown(o) == EvidenceObservationDto(row_to_observation(to_row(o)))

(* The first n of the ids asked for have been looked up. *)
LookedUp(asked, found, n) ==
    /\ asked \in Seq(1..issued) /\ n \in 0..Len(asked)
    /\ found \in Seq({Shown(memory[j]) : j \in DOMAIN memory})
    /\ \E f \in [DOMAIN found -> 1..n] :
          \A i \in DOMAIN found :
              found[i].id = asked[f[i]] /\ \A j \in DOMAIN found : i < j => f[i] < f[j]
    /\ \A i \in 1..n : get_by_id(asked[i]) => \E j \in DOMAIN found : found[j].id = asked[i]

(* A request at work: the rest is what remains to be looked up. *)
AtWork(rq) ==
    /\ DOMAIN rq = {"asked", "rest", "found"}
    /\ rq.rest \in Seq(1..issued) /\ Len(rq.rest) =< Len(rq.asked)
    /\ \A i \in 1..Len(rq.rest) : rq.rest[i] = rq.asked[Len(rq.asked) - Len(rq.rest) + i]
    /\ LookedUp(rq.asked, rq.found, Len(rq.asked) - Len(rq.rest))

RequestInv == request = Nothing \/ AtWork(request)

AnswerInv ==
    \/ answer = Nothing
    \/ ~(answer.path = "evidence" /\ answer.status = 200)
    \/ LookedUp(answer.asked, answer.found, Len(answer.asked))

(* The attempts the logs may hold: completed with no retry to come, none is *)
(* FailedTransient.                                                         *)
Outcome == [kind : {"none", "Delivered", "Transient", "Permanent"},
            ref  : AttemptTarget \cup {"none"}]

Attempt == [id : Nat, rule_id : STRING, lifecycle_kind : LifecycleKind,
            target_kind : AttemptTarget, status : {"Pending", "Succeeded", "FailedPermanent"},
            attempt_number : {1}, next_retry_at : {NoTime}, outcome : Outcome,
            external_ref : AttemptTarget \cup {"none"}, attempted_at : Nat,
            completed_at : Nat \cup {NoTime}]

(* The ids of the attempts are 1, 2, ...; a row is the row of the attempt   *)
(* of its id, for as long as it is not swept.                               *)
AuditInv ==
    /\ \E n \in Nat : DOMAIN audit = 1..n
    /\ audit \in [DOMAIN audit -> Attempt]
    /\ owed \subseteq DOMAIN audit
    /\ DOMAIN attempts \subseteq DOMAIN audit
    /\ attempts = [id \in DOMAIN attempts |-> attempt_row(audit[id])]

Inv ==
    /\ ClockInv /\ LogInv /\ RowInv /\ FactInv /\ SweptInv /\ StoreInv
    /\ IncidentInv /\ RequestInv /\ AnswerInv /\ AuditInv

---------------------------------------------------------------------------
(* Columns and back. *)

(* No two origins are written as the same word. *)
LEMMA OriginReadsBack ==
    ASSUME NEW o \in Origin
    PROVE  origin_from_str(origin_str(o)) = o
<1>1. o \in {"Collected", "Computed", "Imported", "UserReported"}
  BY DEF Origin
<1>2. CASE o = "Collected"
  <2>1. origin_str(o) = "collected"
    BY <1>2, Zenon DEF origin_str
  <2> QED
    BY <1>2, <2>1, Zenon DEF origin_from_str
<1>3. CASE o = "Computed"
  <2>1. origin_str(o) = "computed"
    BY <1>3, Zenon DEF origin_str
  <2> QED
    BY <1>3, <2>1, Zenon DEF origin_from_str
<1>4. CASE o = "Imported"
  <2>1. origin_str(o) = "imported"
    BY <1>4, Zenon DEF origin_str
  <2> QED
    BY <1>4, <2>1, Zenon DEF origin_from_str
<1>5. CASE o = "UserReported"
  <2>1. origin_str(o) = "user_reported"
    BY <1>5, Zenon DEF origin_str
  <2> QED
    BY <1>5, <2>1, Zenon DEF origin_from_str
<1> QED
  BY <1>1, <1>2, <1>3, <1>4, <1>5

(* What the operator is shown of an observation has its id, and is the      *)
(* observation unless the id of its node contains a slash.                  *)
LEMMA ShownIsHonest ==
    ASSUME NEW o, o.subject \in EntityRef, o.origin \in Origin
    PROVE  ShownAs(Shown(o), o)
<1>1. PICK back : back = row_to_observation(to_row(o))
  OBVIOUS
<1>2. /\ back.id = o.id /\ back.observed_at = o.observed_at
      /\ back.subject = subject_from_pair(o.subject.kind, subject_id_str(o.subject))
      /\ back.origin = origin_from_str(origin_str(o.origin))
  BY <1>1 DEF row_to_observation, to_row
<1>3. Shown(o) = EvidenceObservationDto(back)
  BY <1>1 DEF Shown
<1>4. back.origin = o.origin
  BY <1>2, OriginReadsBack
<1>5. back.subject = o.subject \/ (o.subject.kind \in Scoped /\ HasSlash(o.subject.node))
  BY <1>2, SubjectReadsBack
<1>6. Shown(o).id = o.id
  BY <1>2, <1>3 DEF EvidenceObservationDto
<1>7. back.subject = o.subject => Shown(o) = EvidenceObservationDto(o)
  BY <1>2, <1>3, <1>4 DEF EvidenceObservationDto
<1> QED
  BY <1>5, <1>6, <1>7 DEF ShownAs

(* A signal's name, character by character. *)
LEMMA SignalNameText ==
    ASSUME NEW kind \in Seq(Char)
    PROVE  LET name == for_incident_kind(kind)
           IN  /\ name \in Seq(Char) /\ Len(name) = Len(kind) + 2
               /\ \A i \in 1..Len(kind) : name[i] = kind[i]
               /\ name[Len(kind) + 1] = Dot /\ name[Len(kind) + 2] = Letter
<1>1. PICK suffix : suffix = SignalSuffix
  OBVIOUS
<1>2. suffix \in Seq(Char) /\ Len(suffix) = 2 /\ suffix[1] = Dot /\ suffix[2] = Letter
  BY <1>1 DEF SignalSuffix, Char, Body, Letter
<1>3. PICK name : name = kind \o suffix
  OBVIOUS
<1>4. /\ name \in Seq(Char) /\ Len(name) = Len(kind) + Len(suffix)
      /\ \A i \in 1..(Len(kind) + Len(suffix)) :
            name[i] = IF i =< Len(kind) THEN kind[i] ELSE suffix[i - Len(kind)]
  BY <1>2, <1>3, ConcatProperties
<1>5. Len(kind) \in Nat
  OBVIOUS
<1>6. name[Len(kind) + 1] = Dot /\ name[Len(kind) + 2] = Letter
  BY <1>2, <1>4, <1>5
<1>7. \A i \in 1..Len(kind) : name[i] = kind[i]
  BY <1>2, <1>4, <1>5
<1> QED
  BY <1>1, <1>2, <1>3, <1>4, <1>6, <1>7 DEF for_incident_kind

(* The name of a signal parses when it is short enough. *)
LEMMA SignalNameParses ==
    ASSUME NEW kind \in Seq(Char), Parses(kind), Len(kind) + Len(SignalSuffix) =< MaxNameLen
    PROVE  Parses(for_incident_kind(kind))
<1>1. PICK name : name = for_incident_kind(kind)
  OBVIOUS
<1>2. PICK n : n = Len(kind)
  OBVIOUS
<1>3. /\ name \in Seq(Char) /\ Len(name) = n + 2
      /\ \A i \in 1..n : name[i] = kind[i]
      /\ name[n + 1] = Dot /\ name[n + 2] = Letter
  BY <1>1, <1>2, SignalNameText
<1>4. Accepts(kind)
  BY ParserFacts DEF Parses
<1>5. n \in Nat /\ n >= 1 /\ n + 2 =< MaxNameLen
  <2>1. Len(SignalSuffix) = 2
    BY DEF SignalSuffix
  <2> QED
    BY <1>2, <1>4, <2>1, EmptySeq DEF Accepts
<1>6. /\ kind[n] # Dot /\ \E i \in 1..n : kind[i] = Dot
      /\ \A i \in 1..n : IF kind[i] = Dot THEN ~StartsSegment(kind, i)
                         ELSE kind[i] \in Body /\ (StartsSegment(kind, i) => kind[i] = Letter)
  BY <1>2, <1>4 DEF Accepts
<1>7. ASSUME NEW i \in 1..(n + 2)
      PROVE  IF name[i] = Dot THEN ~StartsSegment(name, i)
             ELSE name[i] \in Body /\ (StartsSegment(name, i) => name[i] = Letter)
  <2>1. CASE i \in 1..n
    <3>1. StartsSegment(name, i) <=> StartsSegment(kind, i)
      <4>1. i = 1 \/ i - 1 \in 1..n
        BY <1>5, <2>1
      <4> QED
        BY <1>3, <4>1 DEF StartsSegment
    <3>2. name[i] = kind[i]
      BY <1>3, <2>1
    <3> QED
      BY <1>6, <2>1, <3>1, <3>2
  <2>2. CASE i = n + 1
    <3>1. ~StartsSegment(name, i)
      <4>1. i # 1 /\ i - 1 = n /\ name[n] = kind[n]
        BY <1>3, <1>5, <2>2
      <4> QED
        BY <1>6, <4>1 DEF StartsSegment
    <3> QED
      BY <1>3, <2>2, <3>1
  <2>3. CASE i = n + 2
    BY <1>3, <2>3 DEF Letter, Dot, Body
  <2> QED
    BY <1>5, <2>1, <2>2, <2>3
<1>8. name # <<>> /\ name[Len(name)] # Dot
  BY <1>3, <1>5 DEF Letter, Dot
<1>9. \E i \in 1..Len(name) : name[i] = Dot
  BY <1>3, <1>5
<1>10. Accepts(name)
  BY <1>3, <1>5, <1>7, <1>8, <1>9 DEF Accepts
<1> QED
  BY <1>1, <1>3, <1>10, ParserFacts DEF Parses

(* A payload reads back unless it is a signal whose name is too long. *)
LEMMA PayloadReadsBack ==
    ASSUME NEW o, WellFormed(o)
    PROVE  \/ deserializes(o.payload)
           \/ /\ o.payload.kind = "incident_signal"
              /\ Len(o.payload.incident_kind) + Len(SignalSuffix) > MaxNameLen
<1>1. PICK payload : payload = o.payload
  OBVIOUS
<1>2. CASE payload.kind = "incident_signal"
  <2>1. /\ payload.incident_kind \in Seq(Char) /\ Parses(payload.incident_kind)
        /\ payload.name = for_incident_kind(payload.incident_kind)
    BY <1>1, <1>2 DEF WellFormed
  <2>2. CASE Len(payload.incident_kind) + Len(SignalSuffix) =< MaxNameLen
    <3>1. Parses(payload.name)
      BY <2>1, <2>2, SignalNameParses
    <3>2. deserializes(payload)
      BY <1>2, <2>1, <3>1, Zenon DEF deserializes, SignalName, IncidentKind
    <3> QED
      BY <1>1, <3>2
  <2>3. CASE ~(Len(payload.incident_kind) + Len(SignalSuffix) =< MaxNameLen)
    <3>1. Len(payload.incident_kind) \in Nat /\ Len(SignalSuffix) = 2 /\ MaxNameLen \in Nat
      BY <2>1, IdentifierAssumption DEF SignalSuffix
    <3> QED
      BY <1>1, <1>2, <2>3, <3>1
  <2> QED
    BY <2>2, <2>3
<1>3. CASE payload.kind \in {"state", "heartbeat"}
  <2>1. deserializes(payload)
    BY <1>3, Zenon DEF deserializes
  <2> QED
    BY <1>1, <2>1
<1>4. CASE payload.kind \notin {"state", "heartbeat", "incident_signal"}
  <2>1. Parses(payload.name)
    BY <1>1, <1>4 DEF WellFormed
  <2>2. deserializes(payload)
    BY <1>4, <2>1, Zenon DEF deserializes, MetricName, HealthTargetId, CapabilityName,
                             EventName, InventoryName, TransitionName, DiagnosisName
  <2> QED
    BY <1>1, <2>2
<1> QED
  BY <1>2, <1>3, <1>4

---------------------------------------------------------------------------
(* The audit logs. *)

(* An attempt survives its way through the columns. *)
LEMMA AttemptReadsBack ==
    ASSUME NEW a \in Attempt
    PROVE  row_to_attempt(attempt_row(a)) = a
<1>1. lifecycle_kind_from_str[lifecycle_kind_str[a.lifecycle_kind]] = a.lifecycle_kind
  BY DEF Attempt, LifecycleKind, lifecycle_kind_str, lifecycle_kind_from_str
<1>2. target_kind_from_str[target_kind_str[a.target_kind]] = a.target_kind
  BY DEF Attempt, AttemptTarget, target_kind_str, target_kind_from_str
<1>3. status_from_str[status_str[a.status]] = a.status
  BY DEF Attempt, status_str, status_from_str
<1>4. serialize_outcome(a.outcome).json = a.outcome
  BY DEF serialize_outcome
<1>5. PICK r : r = attempt_row(a)
  OBVIOUS
<1>6. /\ r.id = a.id /\ r.rule_id = a.rule_id
      /\ r.lifecycle_kind = lifecycle_kind_str[a.lifecycle_kind]
      /\ r.target_kind = target_kind_str[a.target_kind]
      /\ r.status = status_str[a.status] /\ r.attempt_number = a.attempt_number
      /\ r.next_retry_at = a.next_retry_at /\ r.outcome = serialize_outcome(a.outcome)
      /\ r.external_ref = a.external_ref
      /\ r.attempted_at = a.attempted_at /\ r.completed_at = a.completed_at
  BY <1>5 DEF attempt_row
<1>7. row_to_attempt(r) =
          [id |-> a.id, rule_id |-> a.rule_id, lifecycle_kind |-> a.lifecycle_kind,
           target_kind |-> a.target_kind, status |-> a.status,
           attempt_number |-> a.attempt_number, next_retry_at |-> a.next_retry_at,
           outcome |-> a.outcome, external_ref |-> a.external_ref,
           attempted_at |-> a.attempted_at, completed_at |-> a.completed_at]
  BY <1>1, <1>2, <1>3, <1>4, <1>6 DEF row_to_attempt
<1> QED
  BY <1>5, <1>7 DEF Attempt

(* The outcome of a delivery decides the status; none waits for a retry. *)
LEMMA OutcomeFacts ==
    ASSUME NEW sink \in AttemptTarget, NEW o \in DeliveryOutcomes(sink)
    PROVE  /\ o \in Outcome
           /\ status_for_outcome(o.kind, NoTime # NoTime) \in {"Succeeded", "FailedPermanent"}
           /\ ref_of(o) \in AttemptTarget \cup {"none"}
<1>1. o \in Outcome
  BY DEF DeliveryOutcomes, Outcome
<1>2. status_for_outcome(o.kind, NoTime # NoTime) \in {"Succeeded", "FailedPermanent"}
  <2>1. CASE o.kind = "Delivered"
    BY <2>1, Zenon DEF status_for_outcome
  <2>2. CASE o.kind # "Delivered"
    BY <2>2, Zenon DEF status_for_outcome
  <2> QED
    BY <2>1, <2>2
<1>3. ref_of(o) \in AttemptTarget \cup {"none"}
  BY <1>1 DEF ref_of, Outcome
<1> QED
  BY <1>1, <1>2, <1>3

(* What memory_complete makes of an attempt, and complete of a row. *)
Completed(a, o, at) ==
    [a EXCEPT !.status = status_for_outcome(o.kind, NoTime # NoTime),
              !.outcome = o, !.external_ref = ref_of(o),
              !.next_retry_at = NoTime, !.completed_at = at]

CompletedRow(r, o, at) ==
    [r EXCEPT !.status = status_str[status_for_outcome(o.kind, NoTime # NoTime)],
              !.outcome = serialize_outcome(o), !.external_ref = ref_of(o),
              !.next_retry_at = NoTime, !.completed_at = at]

(* complete does to the row what memory_complete does to the attempt. *)
LEMMA CompletedAlike ==
    ASSUME NEW a \in Attempt, NEW o \in DeliveryOutcomes(a.target_kind), NEW at \in Nat
    PROVE  /\ Completed(a, o, at) \in Attempt
           /\ CompletedRow(attempt_row(a), o, at) = attempt_row(Completed(a, o, at))
<1>0. PICK b, r : b = Completed(a, o, at) /\ r = CompletedRow(attempt_row(a), o, at)
  OBVIOUS
<1>1. PICK st : st = status_for_outcome(o.kind, NoTime # NoTime)
  OBVIOUS
<1>2. PICK rf : rf = ref_of(o)
  OBVIOUS
<1>3. PICK so : so = serialize_outcome(o)
  OBVIOUS
<1>4. o \in Outcome /\ st \in {"Succeeded", "FailedPermanent"} /\ rf \in AttemptTarget \cup {"none"}
  <2>1. a.target_kind \in AttemptTarget
    BY DEF Attempt
  <2> QED
    BY <1>1, <1>2, <2>1, OutcomeFacts
<1>5. b = [id |-> a.id, rule_id |-> a.rule_id, lifecycle_kind |-> a.lifecycle_kind,
           target_kind |-> a.target_kind, status |-> st,
           attempt_number |-> a.attempt_number, next_retry_at |-> NoTime,
           outcome |-> o, external_ref |-> rf,
           attempted_at |-> a.attempted_at, completed_at |-> at]
  <2>1. a = [id |-> a.id, rule_id |-> a.rule_id, lifecycle_kind |-> a.lifecycle_kind,
             target_kind |-> a.target_kind, status |-> a.status,
             attempt_number |-> a.attempt_number, next_retry_at |-> a.next_retry_at,
             outcome |-> a.outcome, external_ref |-> a.external_ref,
             attempted_at |-> a.attempted_at, completed_at |-> a.completed_at]
    BY DEF Attempt
  <2> QED
    BY <1>0, <1>1, <1>2, <2>1 DEF Completed
<1>6. b \in Attempt
  BY <1>4, <1>5 DEF Attempt
<1>7. r = [id |-> a.id, rule_id |-> a.rule_id,
           lifecycle_kind |-> lifecycle_kind_str[a.lifecycle_kind],
           target_kind |-> target_kind_str[a.target_kind],
           status |-> status_str[st], attempt_number |-> a.attempt_number,
           next_retry_at |-> NoTime, outcome |-> so, external_ref |-> rf,
           attempted_at |-> a.attempted_at, completed_at |-> at]
  BY <1>0, <1>1, <1>2, <1>3 DEF attempt_row, CompletedRow
<1>8. /\ b.id = a.id /\ b.rule_id = a.rule_id /\ b.lifecycle_kind = a.lifecycle_kind
      /\ b.target_kind = a.target_kind /\ b.status = st
      /\ b.attempt_number = a.attempt_number /\ b.next_retry_at = NoTime
      /\ b.outcome = o /\ b.external_ref = rf
      /\ b.attempted_at = a.attempted_at /\ b.completed_at = at
  BY <1>5
<1>9. attempt_row(b) = r
  BY <1>3, <1>7, <1>8 DEF attempt_row
<1> QED
  BY <1>0, <1>6, <1>9

(* The invariant says enough: what is left in the table lists, in the same  *)
(* orders, as the attempts of the memory log.                               *)
LEMMA LogsAgree == AuditInv => AuditLogsAgree
<1> SUFFICES ASSUME AuditInv PROVE AuditLogsAgree
  OBVIOUS
<1> DEFINE kept == {id \in DOMAIN audit : HasAttempt(attempts, id)}
           left == Restrict(audit, kept)
<1>1. ASSUME NEW id \in DOMAIN audit
      PROVE  audit[id] \in Attempt
  BY DEF AuditInv
<1>2. ASSUME NEW id \in DOMAIN attempts
      PROVE  id \in DOMAIN audit /\ attempts[id] = attempt_row(audit[id])
  BY DEF AuditInv
<1>3. ASSUME NEW id \in DOMAIN attempts
      PROVE  /\ attempts[id].status # "FailedTransient" /\ attempts[id].next_retry_at = NoTime
             /\ attempts[id].attempted_at = audit[id].attempted_at
             /\ row_to_attempt(attempts[id]) = audit[id]
  <2>1. audit[id] \in Attempt /\ attempts[id] = attempt_row(audit[id])
    BY <1>1, <1>2
  <2>2. row_to_attempt(attempts[id]) = audit[id]
    BY <2>1, AttemptReadsBack
  <2>3. /\ attempts[id].next_retry_at = audit[id].next_retry_at
        /\ attempts[id].attempted_at = audit[id].attempted_at
        /\ attempts[id].status = status_str[audit[id].status]
    BY <2>1 DEF attempt_row
  <2>4. audit[id].next_retry_at = NoTime /\ status_str[audit[id].status] # "FailedTransient"
    BY <2>1 DEF Attempt, status_str
  <2> QED
    BY <2>2, <2>3, <2>4
<1>4. NoRetryIsOwed
  <2>1. list_retryable(attempts, now) = {}
    BY <1>3 DEF list_retryable, status_str
  <2>2. memory_list_retryable(audit, now) = {}
    <3>1. \A id \in DOMAIN audit : audit[id].status # "FailedTransient"
      BY <1>1 DEF Attempt
    <3> QED
      BY <3>1 DEF memory_list_retryable
  <2> QED
    BY <1>3, <2>1, <2>2 DEF NoRetryIsOwed
<1>5. kept = DOMAIN attempts
  BY <1>2 DEF HasAttempt
<1>6. DOMAIN left = DOMAIN attempts /\ \A id \in DOMAIN attempts : left[id] = audit[id]
  BY <1>5 DEF Restrict
<1> HIDE DEF left, kept
<1>7. NewestFirst(attempts) = NewestFirst(left)
  <2>1. ASSUME NEW q \in [1..Cardinality(DOMAIN attempts) -> DOMAIN attempts],
               NEW i \in DOMAIN q
        PROVE  attempts[q[i]].attempted_at = left[q[i]].attempted_at
    <3>1. q[i] \in DOMAIN attempts
      OBVIOUS
    <3> QED
      BY <1>3, <1>6, <3>1
  <2> QED
    BY <1>6, <2>1 DEF NewestFirst
<1>8. ASSUME NEW q \in NewestFirst(attempts)
      PROVE  [i \in DOMAIN q |-> row_to_attempt(attempts[q[i]])] = [i \in DOMAIN q |-> left[q[i]]]
  <2>1. ASSUME NEW i \in DOMAIN q PROVE q[i] \in DOMAIN attempts
    BY DEF NewestFirst
  <2>2. ASSUME NEW i \in DOMAIN q PROVE row_to_attempt(attempts[q[i]]) = left[q[i]]
    BY <1>3, <1>6, <2>1
  <2> QED
    BY <2>2
<1>9. list_for_incident(attempts) = memory_list_for_incident(left)
  BY <1>7, <1>8 DEF list_for_incident, memory_list_for_incident
<1> QED
  BY <1>4, <1>9 DEF AuditLogsAgree, left, kept

---------------------------------------------------------------------------
(* The read models. *)

(* obs was appended to log, which had n of them. *)
Grown(log, n, obs, more) ==
    /\ n \in Nat /\ DOMAIN log = 1..n /\ DOMAIN more = 1..(n + 1) /\ more[n + 1] = obs
    /\ \A i \in 1..n : more[i] = log[i]

(* Where things are in the longer log. *)
LEMMA Extended ==
    ASSUME NEW log, NEW n, NEW obs, NEW more, Grown(log, n, obs, more),
           NEW kind
    PROVE  /\ OfKind(log, kind) \subseteq 1..n
           /\ OfKind(more, kind) = IF obs.payload.kind = kind THEN OfKind(log, kind) \cup {n + 1}
                                   ELSE OfKind(log, kind)
           /\ \A key : OfKey(more, kind, key) =
                 IF obs.payload.kind = kind /\ Key(obs) = key THEN OfKey(log, kind, key) \cup {n + 1}
                 ELSE OfKey(log, kind, key)
<1>0. /\ n \in Nat /\ DOMAIN log = 1..n /\ DOMAIN more = 1..(n + 1) /\ more[n + 1] = obs
      /\ \A i \in 1..n : more[i] = log[i]
  BY DEF Grown
<1> USE <1>0
<1>1. OfKind(log, kind) \subseteq 1..n /\ OfKind(more, kind) \subseteq 1..(n + 1)
  BY DEF OfKind
<1>2. ASSUME NEW i \in 1..n PROVE i \in OfKind(more, kind) <=> i \in OfKind(log, kind)
  BY DEF OfKind
<1>3. n + 1 \in OfKind(more, kind) <=> obs.payload.kind = kind
  BY DEF OfKind
<1>4. \A i \in 1..(n + 1) : i \in 1..n \/ i = n + 1
  OBVIOUS
<1>5. OfKind(more, kind) = IF obs.payload.kind = kind THEN OfKind(log, kind) \cup {n + 1}
                           ELSE OfKind(log, kind)
  <2>0. n + 1 \notin OfKind(log, kind)
    BY <1>1
  <2>1. CASE obs.payload.kind = kind
    <3>1. \A i : i \in OfKind(more, kind) <=> i \in OfKind(log, kind) \cup {n + 1}
      BY <1>1, <1>2, <1>3, <1>4, <2>0, <2>1, Zenon
    <3> QED
      BY <2>1, <3>1, Zenon
  <2>2. CASE obs.payload.kind # kind
    <3>1. \A i : i \in OfKind(more, kind) <=> i \in OfKind(log, kind)
      BY <1>1, <1>2, <1>3, <1>4, <2>0, <2>2, Zenon
    <3> QED
      BY <2>2, <3>1, Zenon
  <2> QED
    BY <2>1, <2>2
<1>6. ASSUME NEW key
      PROVE  OfKey(more, kind, key) =
                 IF obs.payload.kind = kind /\ Key(obs) = key THEN OfKey(log, kind, key) \cup {n + 1}
                 ELSE OfKey(log, kind, key)
  <2>1. \A i \in OfKind(log, kind) : Key(more[i]) = Key(log[i])
    BY <1>1
  <2>2. n + 1 \notin OfKind(log, kind) /\ Key(more[n + 1]) = Key(obs)
    BY <1>1
  <2> QED
    BY <1>5, <2>1, <2>2 DEF OfKey
<1> QED
  BY <1>1, <1>5, <1>6

(* A projection that is given an observation of its kind holds the newest   *)
(* of every key again, however late the observation comes.                  *)
LEMMA WriteKeepsView ==
    ASSUME NEW log, NEW n, NEW obs, NEW more, Grown(log, n, obs, more),
           \A i \in 1..n : log[i].observed_at \in Nat, obs.observed_at \in Nat,
           NEW kind, obs.payload.kind = kind, NEW map, ViewOf(log, kind, map)
    PROVE  ViewOf(more, kind, latest_write_wins(map, obs))
<1>0. /\ n \in Nat /\ DOMAIN log = 1..n /\ DOMAIN more = 1..(n + 1) /\ more[n + 1] = obs
      /\ \A i \in 1..n : more[i] = log[i]
  BY DEF Grown
<1> USE <1>0
<1>1. /\ OfKind(log, kind) \subseteq 1..n /\ OfKind(more, kind) = OfKind(log, kind) \cup {n + 1}
      /\ \A key : key # Key(obs) => OfKey(more, kind, key) = OfKey(log, kind, key)
      /\ OfKey(more, kind, Key(obs)) = OfKey(log, kind, Key(obs)) \cup {n + 1}
  BY Extended
<1>2. /\ DOMAIN map = {Key(log[i]) : i \in OfKind(log, kind)}
      /\ \A key \in DOMAIN map : \E i \in OfKey(log, kind, key) :
            map[key] = Projected(log[i]) /\ IsNewest(log, OfKey(log, kind, key), i)
  BY DEF ViewOf
<1>3. \A key : OfKey(log, kind, key) \subseteq 1..n
  BY <1>1 DEF OfKey
<1>4. {Key(more[i]) : i \in OfKind(more, kind)} = DOMAIN map \cup {Key(obs)}
  BY <1>1, <1>2
<1>5. ASSUME NEW key \in DOMAIN map, key # Key(obs)
      PROVE  \E i \in OfKey(more, kind, key) :
                map[key] = Projected(more[i]) /\ IsNewest(more, OfKey(more, kind, key), i)
  <2>1. PICK i \in OfKey(log, kind, key) :
            map[key] = Projected(log[i]) /\ IsNewest(log, OfKey(log, kind, key), i)
    BY <1>2
  <2>2. OfKey(more, kind, key) = OfKey(log, kind, key)
    BY <1>1, <1>5
  <2>3. \A j \in OfKey(log, kind, key) : more[j] = log[j]
    BY <1>3
  <2>4. IsNewest(more, OfKey(log, kind, key), i)
    BY <2>1, <2>3 DEF IsNewest
  <2> QED
    BY <2>1, <2>2, <2>3, <2>4
<1>6. CASE Key(obs) \in DOMAIN map /\ map[Key(obs)].observed_at >= obs.observed_at
  <2>1. latest_write_wins(map, obs) = map
    BY <1>6 DEF latest_write_wins, Key
  <2>2. PICK i \in OfKey(log, kind, Key(obs)) :
            map[Key(obs)] = Projected(log[i]) /\ IsNewest(log, OfKey(log, kind, Key(obs)), i)
    BY <1>2, <1>6
  <2>3. log[i].observed_at >= obs.observed_at /\ i \in 1..n /\ log[i].observed_at \in Nat
    BY <1>3, <1>6, <2>2 DEF Projected
  <2>4. IsNewest(more, OfKey(more, kind, Key(obs)), i)
    <3>1. ASSUME NEW j \in OfKey(log, kind, Key(obs))
          PROVE  \/ more[j].observed_at < more[i].observed_at
                 \/ more[j].observed_at = more[i].observed_at /\ i =< j
      BY <1>3, <2>2, <2>3 DEF IsNewest
    <3>2. \/ more[n + 1].observed_at < more[i].observed_at
          \/ more[n + 1].observed_at = more[i].observed_at /\ i =< n + 1
      BY <2>3
    <3> QED
      BY <1>1, <3>1, <3>2 DEF IsNewest
  <2>5. i \in OfKey(more, kind, Key(obs)) /\ map[Key(obs)] = Projected(more[i])
    BY <1>1, <2>2, <2>3
  <2>6. \A key \in DOMAIN map : \E k \in OfKey(more, kind, key) :
            map[key] = Projected(more[k]) /\ IsNewest(more, OfKey(more, kind, key), k)
    BY <1>5, <2>4, <2>5
  <2>7. DOMAIN map = {Key(more[k]) : k \in OfKind(more, kind)}
    BY <1>4, <1>6
  <2> QED
    BY <2>1, <2>6, <2>7 DEF ViewOf
<1>7. CASE ~(Key(obs) \in DOMAIN map /\ map[Key(obs)].observed_at >= obs.observed_at)
  <2>1. PICK after : after = Put(map, Key(obs), Projected(obs))
    OBVIOUS
  <2>2. latest_write_wins(map, obs) = after
    BY <1>7, <2>1 DEF latest_write_wins, Key
  <2>3. /\ DOMAIN after = DOMAIN map \cup {Key(obs)} /\ after[Key(obs)] = Projected(obs)
        /\ \A key \in DOMAIN map : key # Key(obs) => after[key] = map[key]
    BY <2>1 DEF Put
  <2>4. IsNewest(more, OfKey(more, kind, Key(obs)), n + 1)
    <3>1. ASSUME NEW j \in OfKey(log, kind, Key(obs))
          PROVE  more[j].observed_at < more[n + 1].observed_at
      <4>1. Key(obs) \in DOMAIN map
        BY <1>2 DEF OfKey
      <4>2. PICK i \in OfKey(log, kind, Key(obs)) :
                map[Key(obs)] = Projected(log[i]) /\ IsNewest(log, OfKey(log, kind, Key(obs)), i)
        BY <1>2, <4>1
      <4>3. i \in 1..n /\ j \in 1..n /\ log[i].observed_at \in Nat /\ log[j].observed_at \in Nat
        BY <1>3
      <4>4. log[i].observed_at < obs.observed_at
        BY <1>7, <4>1, <4>2, <4>3 DEF Projected
      <4>5. log[j].observed_at =< log[i].observed_at
        BY <4>2, <4>3 DEF IsNewest
      <4> QED
        BY <4>3, <4>4, <4>5
    <3> QED
      BY <1>1, <3>1 DEF IsNewest
  <2>5. n + 1 \in OfKey(more, kind, Key(obs)) /\ after[Key(obs)] = Projected(more[n + 1])
    BY <1>1, <2>3
  <2>6. \A key \in DOMAIN after : \E k \in OfKey(more, kind, key) :
            after[key] = Projected(more[k]) /\ IsNewest(more, OfKey(more, kind, key), k)
    BY <1>5, <2>3, <2>4, <2>5
  <2>7. DOMAIN after = {Key(more[k]) : k \in OfKind(more, kind)}
    BY <1>4, <2>3
  <2> QED
    BY <2>2, <2>6, <2>7 DEF ViewOf
<1> QED
  BY <1>6, <1>7

(* An observation of another kind is nothing to it. *)
LEMMA OtherKeepsView ==
    ASSUME NEW log, NEW n, NEW obs, NEW more, Grown(log, n, obs, more),
           NEW kind, obs.payload.kind # kind, NEW map, ViewOf(log, kind, map)
    PROVE  ViewOf(more, kind, map)
<1>0. /\ n \in Nat /\ DOMAIN log = 1..n /\ DOMAIN more = 1..(n + 1) /\ more[n + 1] = obs
      /\ \A i \in 1..n : more[i] = log[i]
  BY DEF Grown
<1> USE <1>0
<1>1. /\ OfKind(log, kind) \subseteq 1..n /\ OfKind(more, kind) = OfKind(log, kind)
      /\ \A key : OfKey(more, kind, key) = OfKey(log, kind, key)
  BY Extended
<1>2. \A key : OfKey(log, kind, key) \subseteq 1..n
  BY <1>1 DEF OfKey
<1>3. DOMAIN map = {Key(more[i]) : i \in OfKind(more, kind)}
  BY <1>1 DEF ViewOf
<1>4. ASSUME NEW key \in DOMAIN map
      PROVE  \E i \in OfKey(more, kind, key) :
                map[key] = Projected(more[i]) /\ IsNewest(more, OfKey(more, kind, key), i)
  <2>1. PICK i \in OfKey(log, kind, key) :
            map[key] = Projected(log[i]) /\ IsNewest(log, OfKey(log, kind, key), i)
    BY DEF ViewOf
  <2>2. \A j \in OfKey(log, kind, key) : more[j] = log[j]
    BY <1>2
  <2>3. IsNewest(more, OfKey(log, kind, key), i)
    BY <2>1, <2>2 DEF IsNewest
  <2> QED
    BY <1>1, <2>1, <2>2, <2>3
<1> QED
  BY <1>3, <1>4 DEF ViewOf

(* What push_bounded makes of a ring. *)
LEMMA Pushed ==
    ASSUME NEW S, NEW ring \in Seq(S), NEW p \in S, NEW capacity \in Nat \ {0},
           Len(ring) =< capacity
    PROVE  /\ push_bounded(ring, p, capacity) \in Seq(S)
           /\ Len(ring) < capacity =>
                 /\ Len(push_bounded(ring, p, capacity)) = Len(ring) + 1
                 /\ push_bounded(ring, p, capacity)[Len(ring) + 1] = p
                 /\ \A i \in 1..Len(ring) : push_bounded(ring, p, capacity)[i] = ring[i]
           /\ Len(ring) = capacity =>
                 /\ Len(push_bounded(ring, p, capacity)) = capacity
                 /\ push_bounded(ring, p, capacity)[capacity] = p
                 /\ \A i \in 1..(capacity - 1) : push_bounded(ring, p, capacity)[i] = ring[i + 1]
<1>1. PICK pushed : pushed = Append(ring, p)
  OBVIOUS
<1>2. PICK len \in Nat : len = Len(ring)
  OBVIOUS
<1>3. /\ pushed \in Seq(S) /\ Len(pushed) = len + 1 /\ pushed[len + 1] = p
      /\ \A i \in 1..len : pushed[i] = ring[i]
  BY <1>1, <1>2
<1>4. push_bounded(ring, p, capacity) = IF len + 1 > capacity THEN Tail(pushed) ELSE pushed
  BY <1>1, <1>3 DEF push_bounded
<1>5. CASE len < capacity
  BY <1>2, <1>3, <1>4, <1>5
<1>6. CASE len = capacity
  <2>1. pushed # <<>>
    BY <1>3
  <2>2. /\ Tail(pushed) \in Seq(S) /\ Len(Tail(pushed)) = Len(pushed) - 1
        /\ \A i \in 1..(Len(pushed) - 1) : Tail(pushed)[i] = pushed[i + 1]
    BY <1>3, <2>1, HeadTailProperties
  <2>3. PICK rest : rest = Tail(pushed)
    OBVIOUS
  <2>4. push_bounded(ring, p, capacity) = rest
    BY <1>4, <1>6, <2>3
  <2>5. rest \in Seq(S) /\ Len(rest) = capacity
    BY <1>3, <1>6, <2>2, <2>3
  <2>6. rest[capacity] = p
    BY <1>3, <1>6, <2>2, <2>3
  <2>7. \A i \in 1..(capacity - 1) : rest[i] = ring[i + 1]
    BY <1>3, <1>6, <2>2, <2>3
  <2> QED
    BY <1>2, <1>6, <2>4, <2>5, <2>6, <2>7
<1> QED
  BY <1>2, <1>5, <1>6

(* A ring that is given what arrives last holds what arrived last, and what *)
(* falls out of it is the oldest.                                           *)
LEMMA PushKeepsTail ==
    ASSUME NEW log, NEW n \in Nat, NEW more, \A i \in 1..n : more[i] = log[i],
           NEW S, NEW ring \in Seq(S), Projected(more[n + 1]) \in S,
           NEW capacity \in Nat \ {0}, NEW own, own \subseteq 1..n,
           IsTail(log, ring, own, capacity)
    PROVE  IsTail(more, push_bounded(ring, Projected(more[n + 1]), capacity),
                  own \cup {n + 1}, capacity)
<1>0. PICK p \in S : p = Projected(more[n + 1])
  OBVIOUS
<1>1. PICK after : after = push_bounded(ring, p, capacity)
  OBVIOUS
<1>2. PICK len \in Nat : len = Len(ring)
  OBVIOUS
<1>3. DOMAIN ring = 1..len /\ len =< capacity
  BY <1>2 DEF IsTail
<1>4. PICK f \in [1..len -> own] :
          /\ \A i, j \in 1..len : i < j => f[i] < f[j]
          /\ \A i \in 1..len : ring[i] = Projected(log[f[i]])
          /\ \A m \in own : \/ \E i \in 1..len : f[i] = m
                            \/ len = capacity /\ \A i \in 1..len : m < f[i]
  BY <1>2, <1>3 DEF IsTail
<1>5. \A i \in 1..len : f[i] \in own /\ f[i] \in 1..n /\ ring[i] = Projected(more[f[i]])
  <2>1. \A i \in 1..len : f[i] \in own
    BY <1>4
  <2> QED
    BY <1>4, <2>1
<1>6. CASE len < capacity
  <2>1. /\ after \in Seq(S) /\ Len(after) = len + 1 /\ after[len + 1] = Projected(more[n + 1])
        /\ \A i \in 1..len : after[i] = ring[i]
    <3>1. Len(ring) =< capacity /\ Len(ring) < capacity
      BY <1>2, <1>3, <1>6
    <3>2. /\ after \in Seq(S) /\ Len(after) = Len(ring) + 1 /\ after[Len(ring) + 1] = p
          /\ \A i \in 1..Len(ring) : after[i] = ring[i]
      BY <1>1, <3>1, Pushed
    <3> QED
      BY <1>0, <1>2, <3>2
  <2>2. DOMAIN after = 1..(len + 1)
    BY <2>1
  <2>3. PICK g : g = [i \in 1..(len + 1) |-> IF i = len + 1 THEN n + 1 ELSE f[i]]
    OBVIOUS
  <2>4. g[len + 1] = n + 1 /\ \A i \in 1..len : g[i] = f[i]
    BY <2>3
  <2>5. \A i \in 1..(len + 1) : i \in 1..len \/ i = len + 1
    OBVIOUS
  <2>6. g \in [1..(len + 1) -> own \cup {n + 1}]
    BY <1>5, <2>3
  <2>7. \A i, j \in 1..(len + 1) : i < j => g[i] < g[j]
    <3>1. ASSUME NEW i \in 1..(len + 1), NEW j \in 1..(len + 1), i < j PROVE g[i] < g[j]
      <4>1. i \in 1..len
        BY <3>1
      <4>2. CASE j \in 1..len
        BY <1>4, <2>4, <3>1, <4>1, <4>2
      <4>3. CASE j = len + 1
        BY <1>5, <2>4, <4>1, <4>3
      <4> QED
        BY <2>5, <4>2, <4>3
    <3> QED
      BY <3>1
  <2>8. \A i \in 1..(len + 1) : after[i] = Projected(more[g[i]])
    BY <1>5, <2>1, <2>4, <2>5
  <2>9. \A m \in own \cup {n + 1} : \E i \in 1..(len + 1) : g[i] = m
    <3>1. ASSUME NEW m \in own PROVE \E i \in 1..(len + 1) : g[i] = m
      <4>1. PICK i \in 1..len : f[i] = m
        BY <1>4, <1>6
      <4> QED
        BY <2>4, <4>1
    <3>2. len + 1 \in 1..(len + 1)
      OBVIOUS
    <3> QED
      BY <2>4, <3>1, <3>2
  <2>10. Len(after) =< capacity
    BY <1>6, <2>1
  <2>11. IsTail(more, after, own \cup {n + 1}, capacity)
    <3>1. /\ g \in [DOMAIN after -> own \cup {n + 1}]
          /\ \A i, j \in DOMAIN after : i < j => g[i] < g[j]
          /\ \A i \in DOMAIN after : after[i] = Projected(more[g[i]])
          /\ \A m \in own \cup {n + 1} : \E i \in DOMAIN after : g[i] = m
      BY <2>2, <2>6, <2>7, <2>8, <2>9, Zenon
    <3> QED
      BY <2>10, <3>1, Zenon DEF IsTail
  <2> QED
    BY <1>0, <1>1, <2>11
<1>7. CASE len = capacity
  <2>1. /\ after \in Seq(S) /\ Len(after) = len /\ after[len] = Projected(more[n + 1])
        /\ \A i \in 1..(len - 1) : after[i] = ring[i + 1]
    <3>1. Len(ring) =< capacity /\ Len(ring) = capacity
      BY <1>2, <1>3, <1>7
    <3>2. /\ push_bounded(ring, p, capacity) \in Seq(S)
          /\ Len(ring) = capacity =>
                 /\ Len(push_bounded(ring, p, capacity)) = capacity
                 /\ push_bounded(ring, p, capacity)[capacity] = p
                 /\ \A i \in 1..(capacity - 1) : push_bounded(ring, p, capacity)[i] = ring[i + 1]
      BY <3>1, Pushed
    <3> QED
      BY <1>0, <1>1, <1>7, <3>1, <3>2
  <2>2. DOMAIN after = 1..len /\ len \in 1..len
    BY <1>7, <2>1
  <2>3. PICK g : g = [i \in 1..len |-> IF i = len THEN n + 1 ELSE f[i + 1]]
    OBVIOUS
  <2>4. /\ \A i \in 1..(len - 1) : g[i] = f[i + 1] /\ i + 1 \in 1..len
        /\ g[len] = n + 1
    BY <2>2, <2>3
  <2>5. \A i \in 1..len : i \in 1..(len - 1) \/ i = len
    OBVIOUS
  <2>6. g \in [1..len -> own \cup {n + 1}]
    <3>1. \A i \in 1..len : i # len => f[i + 1] \in own
      BY <1>5
    <3> QED
      BY <2>3, <3>1
  <2>7. \A i, j \in 1..len : i < j => g[i] < g[j]
    <3>1. ASSUME NEW i \in 1..len, NEW j \in 1..len, i < j PROVE g[i] < g[j]
      <4>1. i \in 1..(len - 1) /\ g[i] = f[i + 1] /\ i + 1 \in 1..len
        BY <2>4, <3>1
      <4>2. CASE j \in 1..(len - 1)
        <5>1. g[j] = f[j + 1] /\ j + 1 \in 1..len /\ i + 1 < j + 1
          BY <2>4, <3>1, <4>2
        <5> QED
          BY <1>4, <4>1, <5>1
      <4>3. CASE j = len
        BY <1>5, <2>4, <4>1, <4>3
      <4> QED
        BY <2>5, <4>2, <4>3
    <3> QED
      BY <3>1
  <2>8. \A i \in 1..len : after[i] = Projected(more[g[i]])
    BY <1>5, <2>1, <2>4, <2>5
  <2>9. ASSUME NEW m \in own \cup {n + 1}
        PROVE  (\E i \in 1..len : g[i] = m) \/ (\A i \in 1..len : m < g[i])
    <3>1. CASE m = n + 1
      BY <2>2, <2>4, <3>1
    <3>2. CASE m \in own /\ \E k \in 1..len : f[k] = m
      <4>1. PICK k \in 1..len : f[k] = m
        BY <3>2
      <4>2. CASE k = 1
        <5>1. \A i \in 1..(len - 1) : m < g[i]
          <6>1. ASSUME NEW i \in 1..(len - 1) PROVE m < g[i]
            <7>1. g[i] = f[i + 1] /\ i + 1 \in 1..len /\ k < i + 1
              BY <2>4, <4>2
            <7> QED
              BY <1>4, <4>1, <7>1
          <6> QED
            BY <6>1
        <5>2. m < g[len]
          BY <2>4, <3>2
        <5> QED
          BY <2>5, <5>1, <5>2
      <4>3. CASE k # 1
        <5>1. k - 1 \in 1..(len - 1) /\ (k - 1) + 1 = k
          BY <4>3
        <5>2. g[k - 1] = m /\ k - 1 \in 1..len
          BY <2>4, <4>1, <5>1
        <5> QED
          BY <5>2
      <4> QED
        BY <4>2, <4>3
    <3>3. CASE m \in own /\ \A i \in 1..len : m < f[i]
      <4>1. \A i \in 1..(len - 1) : m < g[i]
        BY <2>4, <3>3
      <4>2. m < g[len]
        BY <2>4, <3>3
      <4> QED
        BY <2>5, <4>1, <4>2
    <3> QED
      BY <1>4, <3>1, <3>2, <3>3
  <2>10. Len(after) =< capacity /\ Len(after) = capacity
    BY <1>7, <2>1
  <2>11. IsTail(more, after, own \cup {n + 1}, capacity)
    BY <2>2, <2>6, <2>7, <2>8, <2>9, <2>10 DEF IsTail
  <2> QED
    BY <1>0, <1>1, <2>11
<1> QED
  BY <1>3, <1>6, <1>7

(* A ring that is given nothing keeps its part of a log that grows. *)
LEMMA TailStays ==
    ASSUME NEW log, NEW n \in Nat, NEW more, \A i \in 1..n : more[i] = log[i],
           NEW ring, NEW capacity, NEW own, own \subseteq 1..n, IsTail(log, ring, own, capacity)
    PROVE  IsTail(more, ring, own, capacity)
<1>1. PICK f \in [DOMAIN ring -> own] :
          /\ \A i, j \in DOMAIN ring : i < j => f[i] < f[j]
          /\ \A i \in DOMAIN ring : ring[i] = Projected(log[f[i]])
          /\ \A m \in own : \/ \E i \in DOMAIN ring : f[i] = m
                            \/ Len(ring) = capacity /\ \A i \in DOMAIN ring : m < f[i]
  BY DEF IsTail
<1>2. \A i \in DOMAIN ring : ring[i] = Projected(more[f[i]])
  <2>1. \A i \in DOMAIN ring : f[i] \in 1..n
    BY <1>1
  <2> QED
    BY <1>1, <2>1
<1> QED
  BY <1>1, <1>2 DEF IsTail

(* ReadModelStore::apply hands an observation to the projection of its kind *)
(* and to no other.                                                         *)
HandedTo(st, obs, after) ==
    /\ DOMAIN after = ProjectionNames
    /\ \A kind \in ProjectionNames : kind # obs.payload.kind => after[kind] = st[kind]
    /\ obs.payload.kind \in Latest =>
          after[obs.payload.kind] = latest_write_wins(st[obs.payload.kind], obs)
    /\ obs.payload.kind = "metric" => after.metric = MetricProjection_apply(st.metric, obs)
    /\ obs.payload.kind = "heartbeat" =>
          after.heartbeat = HeartbeatProjection_apply(st.heartbeat, obs)

LEMMA ApplyFacts ==
    ASSUME NEW st, DOMAIN st = ProjectionNames, NEW obs
    PROVE  HandedTo(st, obs, apply(st, obs))
<1>1. PICK after : after = apply(st, obs)
  OBVIOUS
<1>2. PICK k : k = obs.payload.kind
  OBVIOUS
<1>3. CASE k = "state"
  <2>1. after = [st EXCEPT !.state = StateProjection_apply(@, obs)]
    BY <1>1, <1>2, <1>3, Zenon DEF apply
  <2>2. DOMAIN after = ProjectionNames /\ after.state = latest_write_wins(st.state, obs)
    BY <2>1 DEF Latest, ProjectionNames, StateProjection_apply
  <2>3. \A kind \in ProjectionNames : kind # "state" => after[kind] = st[kind]
    BY <2>1 DEF ProjectionNames, Latest
  <2> QED
    BY <1>1, <1>2, <1>3, <2>2, <2>3 DEF HandedTo, Latest
<1>4. CASE k = "metric"
  <2>1. after = [st EXCEPT !.metric = MetricProjection_apply(@, obs)]
    BY <1>1, <1>2, <1>4, Zenon DEF apply
  <2>2. DOMAIN after = ProjectionNames /\ after.metric = MetricProjection_apply(st.metric, obs)
    BY <2>1 DEF Latest, ProjectionNames
  <2>3. \A kind \in ProjectionNames : kind # "metric" => after[kind] = st[kind]
    BY <2>1 DEF ProjectionNames, Latest
  <2> QED
    BY <1>1, <1>2, <1>4, <2>2, <2>3 DEF HandedTo, Latest
<1>5. CASE k = "health"
  <2>1. after = [st EXCEPT !.health = HealthProjection_apply(@, obs)]
    BY <1>1, <1>2, <1>5, Zenon DEF apply
  <2>2. DOMAIN after = ProjectionNames /\ after.health = latest_write_wins(st.health, obs)
    BY <2>1 DEF Latest, ProjectionNames, HealthProjection_apply
  <2>3. \A kind \in ProjectionNames : kind # "health" => after[kind] = st[kind]
    BY <2>1 DEF ProjectionNames, Latest
  <2> QED
    BY <1>1, <1>2, <1>5, <2>2, <2>3 DEF HandedTo, Latest
<1>6. CASE k = "capability"
  <2>1. after = [st EXCEPT !.capability = CapabilityProjection_apply(@, obs)]
    BY <1>1, <1>2, <1>6, Zenon DEF apply
  <2>2. DOMAIN after = ProjectionNames /\ after.capability = latest_write_wins(st.capability, obs)
    BY <2>1 DEF Latest, ProjectionNames, CapabilityProjection_apply
  <2>3. \A kind \in ProjectionNames : kind # "capability" => after[kind] = st[kind]
    BY <2>1 DEF ProjectionNames, Latest
  <2> QED
    BY <1>1, <1>2, <1>6, <2>2, <2>3 DEF HandedTo, Latest
<1>7. CASE k = "heartbeat"
  <2>1. after = [st EXCEPT !.heartbeat = HeartbeatProjection_apply(@, obs)]
    BY <1>1, <1>2, <1>7, Zenon DEF apply
  <2>2. DOMAIN after = ProjectionNames /\ after.heartbeat = HeartbeatProjection_apply(st.heartbeat, obs)
    BY <2>1 DEF Latest, ProjectionNames
  <2>3. \A kind \in ProjectionNames : kind # "heartbeat" => after[kind] = st[kind]
    BY <2>1 DEF ProjectionNames, Latest
  <2> QED
    BY <1>1, <1>2, <1>7, <2>2, <2>3 DEF HandedTo, Latest
<1>8. CASE k = "incident_signal"
  <2>1. after = [st EXCEPT !.incident_signal = IncidentSignalProjection_apply(@, obs)]
    BY <1>1, <1>2, <1>8, Zenon DEF apply
  <2>2. DOMAIN after = ProjectionNames /\ after.incident_signal = latest_write_wins(st.incident_signal, obs)
    BY <2>1 DEF Latest, ProjectionNames, IncidentSignalProjection_apply
  <2>3. \A kind \in ProjectionNames : kind # "incident_signal" => after[kind] = st[kind]
    BY <2>1 DEF ProjectionNames, Latest
  <2> QED
    BY <1>1, <1>2, <1>8, <2>2, <2>3 DEF HandedTo, Latest
<1>9. CASE k \notin ProjectionNames
  <2>1. after = st
    BY <1>1, <1>2, <1>9, Zenon DEF apply, ProjectionNames, Latest
  <2> QED
    BY <1>1, <1>2, <1>9, <2>1 DEF HandedTo, ProjectionNames, Latest
<1> QED
  BY <1>3, <1>4, <1>5, <1>6, <1>7, <1>8, <1>9 DEF ProjectionNames, Latest

(* A ring that was given nothing is empty. *)
LEMMA EmptyRing ==
    ASSUME NEW log, NEW capacity \in Nat
    PROVE  RingOf(log, <<>>, {}, capacity)
<1>1. PICK ring : ring = <<>>
  OBVIOUS
<1>2. DOMAIN ring = {} /\ Len(ring) =< capacity /\ ring \in Seq(Projections(log))
  BY <1>1
<1>3. PICK f : f = [i \in {} |-> i]
  OBVIOUS
<1>4. f \in [{} -> {}]
  BY <1>3
<1>5. IsTail(log, ring, {}, capacity)
  BY <1>2, <1>4, Zenon DEF IsTail
<1> QED
  BY <1>1, <1>2, <1>5 DEF RingOf

(* A ring of a log that grows is a ring of the longer one. *)
LEMMA RingStays ==
    ASSUME NEW log, NEW n, NEW obs, NEW more, Grown(log, n, obs, more),
           NEW ring, NEW own, own \subseteq 1..n, NEW capacity, RingOf(log, ring, own, capacity)
    PROVE  RingOf(more, ring, own, capacity)
<1>0. /\ n \in Nat /\ DOMAIN log = 1..n /\ DOMAIN more = 1..(n + 1) /\ more[n + 1] = obs
      /\ \A i \in 1..n : more[i] = log[i]
  BY DEF Grown
<1> USE <1>0
<1>1. Projections(log) \subseteq Projections(more)
  BY DEF Projections
<1>2. ring \in Seq(Projections(more))
  BY <1>1, SeqMonotonic DEF RingOf
<1>3. IsTail(more, ring, own, capacity)
  BY TailStays DEF RingOf
<1> QED
  BY <1>2, <1>3 DEF RingOf

(* A ring that is given what was observed last is one, too. *)
LEMMA RingGrows ==
    ASSUME NEW log, NEW n, NEW obs, NEW more, Grown(log, n, obs, more),
           NEW ring, NEW own, own \subseteq 1..n, NEW capacity \in Nat \ {0},
           RingOf(log, ring, own, capacity)
    PROVE  RingOf(more, push_bounded(ring, Projected(obs), capacity), own \cup {n + 1}, capacity)
<1>0. /\ n \in Nat /\ DOMAIN log = 1..n /\ DOMAIN more = 1..(n + 1) /\ more[n + 1] = obs
      /\ \A i \in 1..n : more[i] = log[i]
  BY DEF Grown
<1> USE <1>0
<1>1. Projections(log) \subseteq Projections(more) /\ Projected(obs) \in Projections(more)
  <2>1. n + 1 \in DOMAIN more
    OBVIOUS
  <2> QED
    BY <2>1 DEF Projections
<1>2. ring \in Seq(Projections(more)) /\ IsTail(log, ring, own, capacity)
  BY <1>1, SeqMonotonic DEF RingOf
<1>3. Len(ring) =< capacity
  BY <1>2 DEF IsTail
<1>4. push_bounded(ring, Projected(obs), capacity) \in Seq(Projections(more))
  BY <1>1, <1>2, <1>3, Pushed
<1>5. IsTail(more, push_bounded(ring, Projected(obs), capacity), own \cup {n + 1}, capacity)
  BY <1>1, <1>2, PushKeepsTail
<1> QED
  BY <1>4, <1>5 DEF RingOf

(* The series of the metrics, given a sample of one of them. *)
LEMMA SampleKeepsSeries ==
    ASSUME NEW log, NEW n, NEW obs, NEW more, Grown(log, n, obs, more),
           obs.payload.kind = "metric", NEW map, SeriesOf(log, map)
    PROVE  SeriesOf(more, MetricProjection_apply(map, obs))
<1>0. /\ n \in Nat /\ DOMAIN log = 1..n /\ DOMAIN more = 1..(n + 1) /\ more[n + 1] = obs
      /\ \A i \in 1..n : more[i] = log[i]
  BY DEF Grown
<1> USE <1>0
<1>1. /\ OfKind(log, "metric") \subseteq 1..n
      /\ OfKind(more, "metric") = OfKind(log, "metric") \cup {n + 1}
      /\ \A key : key # Key(obs) => OfKey(more, "metric", key) = OfKey(log, "metric", key)
      /\ OfKey(more, "metric", Key(obs)) = OfKey(log, "metric", Key(obs)) \cup {n + 1}
  BY Extended
<1>2. \A key : OfKey(log, "metric", key) \subseteq 1..n
  BY <1>1 DEF OfKey
<1>3. PICK ring : ring = series(map, Key(obs))
  OBVIOUS
<1>4. PICK pushed : pushed = push_bounded(ring, Projected(obs), MetricCapacity)
  OBVIOUS
<1>5. PICK after : after = Put(map, Key(obs), pushed)
  OBVIOUS
<1>6. MetricProjection_apply(map, obs) = after
  <2>1. Key(obs) = <<obs.subject, obs.payload.name>>
    BY DEF Key, name_of
  <2> QED
    BY <1>3, <1>4, <1>5, <2>1 DEF MetricProjection_apply
<1>7. /\ DOMAIN after = DOMAIN map \cup {Key(obs)} /\ after[Key(obs)] = pushed
      /\ \A key \in DOMAIN map : key # Key(obs) => after[key] = map[key]
  BY <1>5 DEF Put
<1>8. DOMAIN map = {Key(log[i]) : i \in OfKind(log, "metric")}
  BY DEF SeriesOf
<1>9. DOMAIN after = {Key(more[i]) : i \in OfKind(more, "metric")}
  BY <1>1, <1>7, <1>8
<1>10. RingOf(log, ring, OfKey(log, "metric", Key(obs)), MetricCapacity)
  <2>1. CASE Key(obs) \in DOMAIN map
    BY <1>3, <2>1 DEF SeriesOf, series
  <2>2. CASE Key(obs) \notin DOMAIN map
    <3>1. ring = <<>>
      BY <1>3, <2>2 DEF series
    <3>2. OfKey(log, "metric", Key(obs)) = {}
      BY <1>8, <2>2 DEF OfKey
    <3> QED
      BY <3>1, <3>2, EmptyRing, CapacityAssumption
  <2> QED
    BY <2>1, <2>2
<1>11. RingOf(more, pushed, OfKey(more, "metric", Key(obs)), MetricCapacity)
  <2>1. MetricCapacity \in Nat \ {0}
    BY CapacityAssumption
  <2> QED
    BY <1>1, <1>2, <1>4, <1>10, <2>1, RingGrows
<1>12. ASSUME NEW key \in DOMAIN map, key # Key(obs)
       PROVE  RingOf(more, map[key], OfKey(more, "metric", key), MetricCapacity)
  <2>1. RingOf(log, map[key], OfKey(log, "metric", key), MetricCapacity)
    BY DEF SeriesOf
  <2> QED
    BY <1>1, <1>2, <1>12, <2>1, RingStays
<1>13. \A key \in DOMAIN after : RingOf(more, after[key], OfKey(more, "metric", key), MetricCapacity)
  BY <1>7, <1>11, <1>12
<1> QED
  BY <1>6, <1>9, <1>13 DEF SeriesOf

(* ... and given anything else. *)
LEMMA OtherKeepsSeries ==
    ASSUME NEW log, NEW n, NEW obs, NEW more, Grown(log, n, obs, more),
           obs.payload.kind # "metric", NEW map, SeriesOf(log, map)
    PROVE  SeriesOf(more, map)
<1>0. /\ n \in Nat /\ DOMAIN log = 1..n /\ DOMAIN more = 1..(n + 1) /\ more[n + 1] = obs
      /\ \A i \in 1..n : more[i] = log[i]
  BY DEF Grown
<1> USE <1>0
<1>1. /\ OfKind(log, "metric") \subseteq 1..n /\ OfKind(more, "metric") = OfKind(log, "metric")
      /\ \A key : OfKey(more, "metric", key) = OfKey(log, "metric", key)
  BY Extended
<1>2. \A key : OfKey(log, "metric", key) \subseteq 1..n
  BY <1>1 DEF OfKey
<1>3. DOMAIN map = {Key(more[i]) : i \in OfKind(more, "metric")}
  BY <1>1 DEF SeriesOf
<1>4. ASSUME NEW key \in DOMAIN map
      PROVE  RingOf(more, map[key], OfKey(more, "metric", key), MetricCapacity)
  <2>1. RingOf(log, map[key], OfKey(log, "metric", key), MetricCapacity)
    BY DEF SeriesOf
  <2> QED
    BY <1>1, <1>2, <2>1, RingStays
<1> QED
  BY <1>3, <1>4 DEF SeriesOf

(* The store keeps up with what it is given. *)
LEMMA ApplyKeepsStore ==
    ASSUME NEW log, NEW n, NEW obs, NEW more, Grown(log, n, obs, more),
           \A i \in 1..n : log[i].observed_at \in Nat, obs.observed_at \in Nat,
           NEW st, StoreOf(log, st)
    PROVE  StoreOf(more, apply(st, obs))
<1>0. /\ n \in Nat /\ DOMAIN log = 1..n /\ DOMAIN more = 1..(n + 1) /\ more[n + 1] = obs
      /\ \A i \in 1..n : more[i] = log[i]
  BY DEF Grown
<1> USE <1>0
<1>1. /\ DOMAIN st = ProjectionNames
      /\ \A kind \in Latest : ViewOf(log, kind, st[kind])
      /\ SeriesOf(log, st.metric)
      /\ RingOf(log, st.heartbeat, OfKind(log, "heartbeat"), HeartbeatCapacity)
  BY DEF StoreOf
<1>2. PICK after : after = apply(st, obs)
  OBVIOUS
<1>3. /\ DOMAIN after = ProjectionNames
      /\ \A kind \in ProjectionNames : kind # obs.payload.kind => after[kind] = st[kind]
      /\ obs.payload.kind \in Latest =>
            after[obs.payload.kind] = latest_write_wins(st[obs.payload.kind], obs)
      /\ obs.payload.kind = "metric" => after.metric = MetricProjection_apply(st.metric, obs)
      /\ obs.payload.kind = "heartbeat" =>
            after.heartbeat = HeartbeatProjection_apply(st.heartbeat, obs)
  <2>1. HandedTo(st, obs, after)
    BY <1>1, <1>2, ApplyFacts
  <2> QED
    BY <2>1 DEF HandedTo
<1>4. ASSUME NEW kind \in Latest PROVE ViewOf(more, kind, after[kind])
  <2>1. CASE kind = obs.payload.kind
    <3>1. after[kind] = latest_write_wins(st[kind], obs)
      BY <1>3, <2>1
    <3> QED
      BY <1>1, <2>1, <3>1, WriteKeepsView
  <2>2. CASE kind # obs.payload.kind
    <3>1. after[kind] = st[kind]
      BY <1>3, <2>2 DEF ProjectionNames
    <3> QED
      BY <1>1, <2>2, <3>1, OtherKeepsView
  <2> QED
    BY <2>1, <2>2
<1>5. SeriesOf(more, after.metric)
  <2>1. CASE obs.payload.kind = "metric"
    BY <1>1, <1>3, <2>1, SampleKeepsSeries
  <2>2. CASE obs.payload.kind # "metric"
    <3>1. after.metric = st.metric
      BY <1>3, <2>2 DEF ProjectionNames
    <3> QED
      BY <1>1, <2>2, <3>1, OtherKeepsSeries
  <2> QED
    BY <2>1, <2>2
<1>6. RingOf(more, after.heartbeat, OfKind(more, "heartbeat"), HeartbeatCapacity)
  <2>1. OfKind(log, "heartbeat") \subseteq 1..n
    BY Extended
  <2>2. CASE obs.payload.kind = "heartbeat"
    <3>1. OfKind(more, "heartbeat") = OfKind(log, "heartbeat") \cup {n + 1}
      BY <2>2, Extended
    <3>2. after.heartbeat = push_bounded(st.heartbeat, Projected(obs), HeartbeatCapacity)
      BY <1>3, <2>2 DEF HeartbeatProjection_apply
    <3>3. HeartbeatCapacity \in Nat \ {0}
      BY CapacityAssumption
    <3> QED
      BY <1>1, <2>1, <3>1, <3>2, <3>3, RingGrows
  <2>3. CASE obs.payload.kind # "heartbeat"
    <3>1. OfKind(more, "heartbeat") = OfKind(log, "heartbeat")
      BY <2>3, Extended
    <3>2. after.heartbeat = st.heartbeat
      BY <1>3, <2>3 DEF ProjectionNames
    <3> QED
      BY <1>1, <2>1, <3>1, <3>2, RingStays
  <2> QED
    BY <2>2, <2>3
<1> QED
  BY <1>2, <1>3, <1>4, <1>5, <1>6 DEF StoreOf

(* There is at most one newest observation. *)
LEMMA NewestIsUnique ==
    ASSUME NEW log, NEW own, own \subseteq Nat, \A j \in own : log[j].observed_at \in Nat,
           NEW i \in own, IsNewest(log, own, i)
    PROVE  NewestOf(log, own) = log[i]
<1>1. PICK c : c = CHOOSE k \in own : IsNewest(log, own, k)
  OBVIOUS
<1>2. c \in own /\ IsNewest(log, own, c)
  BY <1>1
<1>3. i \in Nat /\ c \in Nat /\ log[i].observed_at \in Nat /\ log[c].observed_at \in Nat
  BY <1>2
<1>4. c = i
  BY <1>2, <1>3 DEF IsNewest
<1> QED
  BY <1>1, <1>4 DEF NewestOf

(* No two variants share a name. *)
LEMMA VariantNames ==
    ASSUME NEW v \in StateVariant, NEW w \in StateVariant, well_known(v) = well_known(w)
    PROVE  v = w
<1>1. PICK n : n = [x \in StateVariant |-> well_known(x)]
  OBVIOUS
<1>2. n[v] = n[w]
  BY <1>1
<1>3. n["BitcoinBlockchain"] = <<"bitcoin", "blockchain">>
  <2>1. well_known("BitcoinBlockchain") = <<"bitcoin", "blockchain">>
    BY Zenon DEF well_known
  <2> QED
    BY <1>1, <2>1 DEF StateVariant
<1>4. n["BitcoinMempool"] = <<"bitcoin", "mempool">>
  <2>1. well_known("BitcoinMempool") = <<"bitcoin", "mempool">>
    BY Zenon DEF well_known
  <2> QED
    BY <1>1, <2>1 DEF StateVariant
<1>5. n["BitcoinNetwork"] = <<"bitcoin", "network">>
  <2>1. well_known("BitcoinNetwork") = <<"bitcoin", "network">>
    BY Zenon DEF well_known
  <2> QED
    BY <1>1, <2>1 DEF StateVariant
<1>6. n["BitcoinPeerSummary"] = <<"bitcoin", "peer_summary">>
  <2>1. well_known("BitcoinPeerSummary") = <<"bitcoin", "peer_summary">>
    BY Zenon DEF well_known
  <2> QED
    BY <1>1, <2>1 DEF StateVariant
<1>7. n["LndNode"] = <<"lnd", "node">>
  <2>1. well_known("LndNode") = <<"lnd", "node">>
    BY Zenon DEF well_known
  <2> QED
    BY <1>1, <2>1 DEF StateVariant
<1>8. n["LndWallet"] = <<"lnd", "wallet">>
  <2>1. well_known("LndWallet") = <<"lnd", "wallet">>
    BY Zenon DEF well_known
  <2> QED
    BY <1>1, <2>1 DEF StateVariant
<1>9. n["LndChannelSummary"] = <<"lnd", "channel_summary">>
  <2>1. well_known("LndChannelSummary") = <<"lnd", "channel_summary">>
    BY Zenon DEF well_known
  <2> QED
    BY <1>1, <2>1 DEF StateVariant
<1>10. n["LndChannel"] = <<"lnd", "channel_detail">>
  <2>1. well_known("LndChannel") = <<"lnd", "channel_detail">>
    BY Zenon DEF well_known
  <2> QED
    BY <1>1, <2>1 DEF StateVariant
<1>11. n["Host"] = <<"host", "system">>
  <2>1. well_known("Host") = <<"host", "system">>
    BY Zenon DEF well_known
  <2> QED
    BY <1>1, <2>1 DEF StateVariant
<1> QED
  BY <1>2, <1>3, <1>4, <1>5, <1>6, <1>7, <1>8, <1>9, <1>10, <1>11 DEF StateVariant

(* No two incident kinds share the name of their signals. *)
LEMMA SignalNamesDiffer ==
    ASSUME NEW a \in Seq(Char), NEW b \in Seq(Char), for_incident_kind(a) = for_incident_kind(b)
    PROVE  a = b
<1>1. PICK name : name = for_incident_kind(a)
  OBVIOUS
<1>2. /\ Len(name) = Len(a) + 2 /\ \A i \in 1..Len(a) : name[i] = a[i]
      /\ Len(name) = Len(b) + 2 /\ \A i \in 1..Len(b) : name[i] = b[i]
  BY <1>1, SignalNameText
<1>3. PICK m \in Nat, n \in Nat : m = Len(a) /\ n = Len(b)
  OBVIOUS
<1>4. m = n
  BY <1>2, <1>3
<1>5. \A i \in 1..m : a[i] = b[i]
  BY <1>2, <1>3, <1>4
<1> QED
  BY <1>3, <1>4, <1>5, SeqEqual

(* What the invariant says of a projection's answers. *)
LEMMA AnswersAreNewest ==
    ASSUME LogInv, StoreInv, NEW kind \in Latest, NEW key \in DOMAIN store[kind]
    PROVE  /\ store[kind][key] = Projected(NewestOf(applied, OfKey(applied, kind, key)))
           /\ \E i \in OfKey(applied, kind, key) : NewestOf(applied, OfKey(applied, kind, key)) = applied[i]
           /\ key = <<key[1], key[2]>>
<1>1. ViewOf(applied, kind, store[kind])
  BY DEF StoreInv, StoreOf
<1>2. PICK own : own = OfKey(applied, kind, key)
  OBVIOUS
<1>3. PICK i \in own : store[kind][key] = Projected(applied[i]) /\ IsNewest(applied, own, i)
  BY <1>1, <1>2 DEF ViewOf
<1>4. own \subseteq Nat /\ \A j \in own : applied[j].observed_at \in Nat
  BY <1>2 DEF OfKey, OfKind, LogInv, IsObservation
<1>5. NewestOf(applied, own) = applied[i]
  BY <1>3, <1>4, NewestIsUnique
<1>6. key = <<applied[i].subject, name_of(applied[i].payload)>>
  BY <1>2, <1>3 DEF OfKey, Key
<1>7. key = <<key[1], key[2]>>
  BY <1>6
<1> QED
  BY <1>2, <1>3, <1>5, <1>7

(* A query of a projection is a look into its map. *)
LEMMA ViewIsCurrent ==
    ASSUME NEW kind \in Latest, NEW subject, NEW name
    PROVE  View(kind, subject, name) = current(store[kind], subject, name)
<1>1. CASE kind = "state"
  BY <1>1, Zenon DEF View, latest_state
<1>2. CASE kind = "health"
  BY <1>2, Zenon DEF View, current_health
<1>3. CASE kind = "capability"
  BY <1>3, Zenon DEF View, current_capability
<1>4. CASE kind = "incident_signal"
  BY <1>4, Zenon DEF View, current_signal
<1> QED
  BY <1>1, <1>2, <1>3, <1>4 DEF Latest

(* A kind's signals on a subject are filed under one key, and no other kind's. *)
LEMMA ActiveSignals ==
    ASSUME LogInv, StoreInv, NEW i \in OfKind(applied, "incident_signal")
    PROVE  (active_signals_for_incident_kind(store, applied[i].subject,
                                             applied[i].payload.incident_kind) # {}) <=>
           NewestOf(applied, OfKey(applied, "incident_signal", Key(applied[i]))).payload.status = "Active"
<1>1. PICK obs : obs = applied[i]
  OBVIOUS
<1>2. PICK map : map = store.incident_signal
  OBVIOUS
<1>3. ASSUME NEW j \in OfKind(applied, "incident_signal")
      PROVE  /\ applied[j].payload.incident_kind \in Seq(Char)
             /\ Key(applied[j]) =
                   <<applied[j].subject, for_incident_kind(applied[j].payload.incident_kind)>>
  <2>1. WellFormed(applied[j]) /\ applied[j].payload.kind = "incident_signal"
    BY DEF LogInv, IsObservation, OfKind
  <2> QED
    BY <2>1 DEF WellFormed, Key, name_of
<1>4. PICK newest : newest = NewestOf(applied, OfKey(applied, "incident_signal", Key(obs)))
  OBVIOUS
<1>5. Key(obs) \in DOMAIN map
  BY <1>1, <1>2 DEF StoreInv, StoreOf, ViewOf, Latest
<1>6. map[Key(obs)] = Projected(newest)
  BY <1>2, <1>4, <1>5, AnswersAreNewest DEF Latest
<1>7. PICK k \in OfKey(applied, "incident_signal", Key(obs)) : newest = applied[k]
  BY <1>2, <1>4, <1>5, AnswersAreNewest DEF Latest
<1>8. newest.payload.incident_kind = obs.payload.incident_kind
  <2>1. k \in OfKind(applied, "incident_signal") /\ Key(applied[k]) = Key(obs)
    BY <1>7 DEF OfKey
  <2>2. for_incident_kind(newest.payload.incident_kind) = for_incident_kind(obs.payload.incident_kind)
    BY <1>1, <1>3, <1>7, <2>1
  <2> QED
    BY <1>1, <1>3, <1>7, <2>1, <2>2, SignalNamesDiffer
<1>9. Key(obs)[1] = obs.subject
  BY DEF Key
<1>10. PICK active : active = active_signals_for_incident_kind(store, obs.subject, obs.payload.incident_kind)
  OBVIOUS
<1>11. ASSUME NEW p \in active PROVE newest.payload.status = "Active"
  <2>1. PICK key \in DOMAIN map : key[1] = obs.subject /\ p = map[key]
    BY <1>2, <1>10 DEF active_signals_for_incident_kind, active_signals_for, for_subject
  <2>2. p.value.status = "Active" /\ p.value.incident_kind = obs.payload.incident_kind
    BY <1>10 DEF active_signals_for_incident_kind, active_signals_for
  <2>3. /\ p = Projected(NewestOf(applied, OfKey(applied, "incident_signal", key)))
        /\ \E j \in OfKey(applied, "incident_signal", key) :
              NewestOf(applied, OfKey(applied, "incident_signal", key)) = applied[j]
    BY <1>2, <2>1, AnswersAreNewest DEF Latest
  <2>4. PICK j \in OfKey(applied, "incident_signal", key) : p = Projected(applied[j])
    BY <2>3
  <2>5. j \in OfKind(applied, "incident_signal") /\ Key(applied[j]) = key
    BY <2>4 DEF OfKey
  <2>6. applied[j].payload.incident_kind = obs.payload.incident_kind
    BY <2>2, <2>4 DEF Projected
  <2>7. applied[j].subject = obs.subject
    BY <2>1, <2>5 DEF Key
  <2>8. key = Key(obs)
    BY <1>1, <1>3, <2>5, <2>6, <2>7
  <2> QED
    BY <1>6, <2>1, <2>2, <2>8 DEF Projected
<1>12. ASSUME newest.payload.status = "Active" PROVE map[Key(obs)] \in active
  <2>1. map[Key(obs)] \in for_subject(map, obs.subject)
    BY <1>5, <1>9 DEF for_subject
  <2>2. map[Key(obs)].value = newest.payload
    BY <1>6 DEF Projected
  <2> QED
    BY <1>2, <1>8, <1>10, <1>12, <2>1, <2>2
       DEF active_signals_for_incident_kind, active_signals_for
<1> QED
  BY <1>1, <1>4, <1>10, <1>11, <1>12

---------------------------------------------------------------------------
(* A replay.  What a recursive function computes is shown along the least   *)
(* number at which it would fail.                                           *)

(* Of some observations one is the newest. *)
LEMMA NewestExists ==
    ASSUME NEW log, NEW own, own \subseteq Nat, own # {}, NEW bound \in Nat,
           \A j \in own : log[j].observed_at \in 0..bound
    PROVE  \E i \in own : IsNewest(log, own, i)
<1>1. PICK ages : ages = {bound - log[j].observed_at : j \in own}
  OBVIOUS
<1>2. ages \subseteq Nat /\ ages # {}
  <2>1. \A j \in own : bound - log[j].observed_at \in Nat
    OBVIOUS
  <2> QED
    BY <1>1, <2>1, Zenon
<1>3. PICK age \in ages : \A x \in ages : age =< x
  BY <1>2, LeastNumber
<1>4. PICK youngest : youngest = {j \in own : bound - log[j].observed_at = age}
  OBVIOUS
<1>5. youngest \subseteq Nat /\ youngest # {}
  BY <1>1, <1>3, <1>4
<1>6. PICK i \in youngest : \A j \in youngest : i =< j
  BY <1>5, LeastNumber
<1>7. i \in own /\ bound - log[i].observed_at = age
  BY <1>4
<1>8. ASSUME NEW j \in own
      PROVE  \/ log[j].observed_at < log[i].observed_at
             \/ log[j].observed_at = log[i].observed_at /\ i =< j
  <2>1. age =< bound - log[j].observed_at
    BY <1>1, <1>3
  <2>2. CASE age = bound - log[j].observed_at
    <3>1. i =< j
      BY <1>4, <1>6, <2>2
    <3> QED
      BY <1>7, <2>2, <3>1
  <2>3. CASE age # bound - log[j].observed_at
    BY <1>7, <2>1, <2>3
  <2> QED
    BY <2>2, <2>3
<1> QED
  BY <1>7, <1>8 DEF IsNewest

(* A new store holds what was observed of nothing. *)
LEMMA EmptyStore ==
    ASSUME NEW log, DOMAIN log = {}
    PROVE  StoreOf(log, NewStore)
<1>1. PICK st : st = NewStore
  OBVIOUS
<1>2. /\ DOMAIN st = ProjectionNames /\ \A kind \in Latest : st[kind] = EmptyMap
      /\ st.metric = EmptyMap /\ st.heartbeat = <<>>
  BY <1>1 DEF NewStore, ProjectionNames, Latest
<1>3. DOMAIN EmptyMap = {}
  BY DEF EmptyMap
<1>4. \A kind : OfKind(log, kind) = {}
  BY Zenon DEF OfKind
<1>5. \A kind \in Latest : ViewOf(log, kind, st[kind])
  BY <1>2, <1>3, <1>4 DEF ViewOf
<1>6. SeriesOf(log, st.metric)
  BY <1>2, <1>3, <1>4 DEF SeriesOf
<1>7. RingOf(log, <<>>, {}, HeartbeatCapacity)
  BY CapacityAssumption, EmptyRing
<1> QED
  BY <1>1, <1>2, <1>4, <1>5, <1>6, <1>7 DEF StoreOf

(* The stores a replay of the first m of a stream goes through. *)
Chain(stream, m, g) ==
    g = [n \in 0..m |-> IF n = 0 THEN NewStore ELSE apply(g[n-1], stream[n])]

LEMMA ChainExists ==
    ASSUME NEW stream, NEW len \in Nat
    PROVE  \E g : Chain(stream, len, g)
<1>1. PICK fails : fails = {m \in 0..len : ~\E g : Chain(stream, m, g)}
  OBVIOUS
<1>2. SUFFICES ASSUME fails # {} PROVE FALSE
  BY <1>1
<1>3. PICK m \in fails : \A k \in fails : m =< k
  BY <1>1, <1>2, LeastNumber
<1>4. m \in 0..len /\ ~\E g : Chain(stream, m, g)
  BY <1>1
<1>5. CASE m = 0
  <2>1. PICK g : g = [n \in 0..0 |-> NewStore]
    OBVIOUS
  <2>2. g = [n \in 0..0 |-> IF n = 0 THEN NewStore ELSE apply(g[n-1], stream[n])]
    BY <2>1
  <2> QED
    BY <1>4, <1>5, <2>2 DEF Chain
<1>6. CASE m # 0
  <2>1. m - 1 \in 0..len /\ m - 1 \notin fails
    BY <1>3, <1>4, <1>6
  <2>2. PICK g : Chain(stream, m - 1, g)
    BY <1>1, <2>1
  <2>3. PICK h : h = [n \in 0..m |-> IF n = m THEN apply(g[m-1], stream[m]) ELSE g[n]]
    OBVIOUS
  <2>4. ASSUME NEW n \in 0..m
        PROVE  h[n] = IF n = 0 THEN NewStore ELSE apply(h[n-1], stream[n])
    <3>1. CASE n = m
      <4>1. m - 1 \in 0..m /\ m - 1 # m
        BY <1>4, <1>6
      <4>2. h[m] = apply(g[m-1], stream[m]) /\ h[m-1] = g[m-1]
        BY <1>4, <2>3, <4>1
      <4> QED
        BY <1>6, <3>1, <4>2
    <3>2. CASE n # m /\ n = 0
      <4>1. g[0] = NewStore
        BY <1>4, <1>6, <2>2 DEF Chain
      <4> QED
        BY <2>3, <3>2, <4>1
    <3>3. CASE n # m /\ n # 0
      <4>1. n \in 0..(m - 1) /\ n - 1 \in 0..m /\ n - 1 # m
        BY <1>4, <3>3
      <4>2. g[n] = apply(g[n-1], stream[n])
        BY <2>2, <3>3, <4>1 DEF Chain
      <4>3. h[n] = g[n] /\ h[n-1] = g[n-1]
        BY <2>3, <3>3, <4>1
      <4> QED
        BY <3>3, <4>2, <4>3
    <3> QED
      BY <3>1, <3>2, <3>3
  <2>5. Chain(stream, m, h)
    BY <2>3, <2>4 DEF Chain
  <2> QED
    BY <1>4, <2>5
<1> QED
  BY <1>5, <1>6

(* A replay of a stream yields the store that stream makes. *)
LEMMA ReplayIsStore ==
    ASSUME NEW stream, NEW len \in Nat, Len(stream) = len,
           stream = [i \in 1..len |-> stream[i]],
           \A i \in 1..len : stream[i].observed_at \in Nat
    PROVE  StoreOf(stream, Replay(stream))
<1>1. PICK g : g = CHOOSE f : f = [n \in 0..len |-> IF n = 0 THEN NewStore
                                                    ELSE apply(f[n-1], stream[n])]
  OBVIOUS
<1>2. Chain(stream, len, g)
  <2>1. \E f : f = [n \in 0..len |-> IF n = 0 THEN NewStore ELSE apply(f[n-1], stream[n])]
    BY ChainExists DEF Chain
  <2>2. g = [n \in 0..len |-> IF n = 0 THEN NewStore ELSE apply(g[n-1], stream[n])]
    BY <1>1, <2>1, Zenon
  <2> QED
    BY <2>2 DEF Chain
<1>3. Replay(stream) = g[len]
  BY <1>1 DEF Replay
<1>4. g[0] = NewStore /\ \A n \in 1..len : g[n] = apply(g[n-1], stream[n])
  <2>1. ASSUME NEW n \in 0..len
        PROVE  g[n] = IF n = 0 THEN NewStore ELSE apply(g[n-1], stream[n])
    BY <1>2, Zenon DEF Chain
  <2>2. 0 \in 0..len /\ \A n \in 1..len : n \in 0..len /\ n # 0
    OBVIOUS
  <2> QED
    BY <2>1, <2>2, Zenon
<1> DEFINE prefix(m) == [i \in 1..m |-> stream[i]]
<1>5. PICK fails : fails = {m \in 0..len : ~StoreOf(prefix(m), g[m])}
  OBVIOUS
<1>6. ASSUME NEW m \in fails, \A k \in fails : m =< k PROVE FALSE
  <2>1. m \in 0..len /\ ~StoreOf(prefix(m), g[m])
    BY <1>5
  <2>2. CASE m = 0
    <3>1. DOMAIN prefix(0) = {}
      OBVIOUS
    <3> QED
      BY <1>4, <2>1, <2>2, <3>1, EmptyStore
  <2>3. CASE m # 0
    <3>1. PICK k \in Nat : m = k + 1
      <4>1. m - 1 \in Nat /\ m = (m - 1) + 1
        BY <2>1, <2>3
      <4> QED
        BY <4>1
    <3>2. k \in 0..len /\ k \notin fails /\ k + 1 \in 1..len
      BY <1>6, <2>1, <3>1
    <3>3. StoreOf(prefix(k), g[k])
      BY <1>5, <3>2
    <3>4. Grown(prefix(k), k, stream[k+1], prefix(k+1))
      BY <3>1 DEF Grown
    <3>5. \A i \in 1..k : prefix(k)[i].observed_at \in Nat
      BY <3>2
    <3>6. stream[k+1].observed_at \in Nat
      BY <3>2
    <3>7. StoreOf(prefix(k+1), apply(g[k], stream[k+1]))
      <4> HIDE DEF prefix
      <4> QED
        BY <3>3, <3>4, <3>5, <3>6, ApplyKeepsStore
    <3>8. g[k+1] = apply(g[k], stream[k+1])
      BY <1>4, <3>2
    <3> QED
      BY <2>1, <3>1, <3>7, <3>8
  <2> QED
    BY <2>2, <2>3
<1>7. fails = {}
  <2>1. fails \subseteq Nat
    BY <1>5
  <2> QED
    BY <1>6, <2>1, LeastNumber
<1>8. StoreOf(prefix(len), g[len])
  <2>1. len \in 0..len
    OBVIOUS
  <2> HIDE DEF prefix
  <2> QED
    BY <1>5, <1>7, <2>1
<1> QED
  BY <1>3, <1>8

---------------------------------------------------------------------------
(* Queries: filters and sorts.                                              *)

(* A finite set with a strict total order is listed in that order. *)
LEMMA Ranking ==
    ASSUME NEW S, IsFiniteSet(S), NEW R,
           \A x \in S : <<x, x>> \notin R,
           \A x, y, z \in S : <<x, y>> \in R /\ <<y, z>> \in R => <<x, z>> \in R,
           \A x, y \in S : x = y \/ <<x, y>> \in R \/ <<y, x>> \in R
    PROVE  /\ Cardinality(S) \in Nat
           /\ \E f \in [1..Cardinality(S) -> S] :
                 /\ \A x \in S : \E i \in 1..Cardinality(S) : f[i] = x
                 /\ \A i, j \in 1..Cardinality(S) : i < j => <<f[i], f[j]>> \in R
<1>1. PICK n : n = Cardinality(S)
  OBVIOUS
<1>2. n \in Nat
  BY <1>1, FS_CardinalityType
<1>3. PICK upto : upto = [x \in S |-> {y \in S : y = x \/ <<y, x>> \in R}]
  OBVIOUS
<1>4. PICK rank : rank = [x \in S |-> Cardinality(upto[x])]
  OBVIOUS
<1>5. ASSUME NEW x \in S
      PROVE  /\ IsFiniteSet(upto[x]) /\ rank[x] = Cardinality(upto[x]) /\ rank[x] \in 1..n
  <2>1. upto[x] \in SUBSET S /\ x \in upto[x]
    BY <1>3
  <2>2. IsFiniteSet(upto[x]) /\ Cardinality(upto[x]) =< n
    BY <1>1, <2>1, FS_Subset
  <2>3. Cardinality(upto[x]) \in Nat /\ Cardinality(upto[x]) # 0
    <3>1. Cardinality(upto[x]) \in Nat
      BY <2>2, FS_CardinalityType
    <3>2. Cardinality(upto[x]) = 0 => upto[x] = {}
      BY <2>2, FS_EmptySet
    <3> QED
      BY <2>1, <3>1, <3>2
  <2>4. rank[x] = Cardinality(upto[x])
    BY <1>4
  <2>5. Cardinality(upto[x]) \in 1..n
    BY <1>2, <2>2, <2>3
  <2> QED
    BY <2>2, <2>4, <2>5
<1>6. ASSUME NEW x \in S, NEW y \in S, <<x, y>> \in R
      PROVE  rank[x] < rank[y]
  <2>1. upto[x] \in SUBSET upto[y]
    BY <1>3, <1>6
  <2>2. upto[x] # upto[y]
    <3>1. y \in upto[y]
      BY <1>3
    <3>2. y \notin upto[x]
      BY <1>3, <1>6
    <3> QED
      BY <3>1, <3>2
  <2>3. /\ Cardinality(upto[x]) =< Cardinality(upto[y])
        /\ Cardinality(upto[y]) = Cardinality(upto[x]) => upto[y] = upto[x]
    BY <1>5, <2>1, FS_Subset
  <2>4. rank[x] = Cardinality(upto[x]) /\ rank[y] = Cardinality(upto[y])
        /\ rank[x] \in 1..n /\ rank[y] \in 1..n
    BY <1>5
  <2> QED
    BY <1>2, <2>2, <2>3, <2>4
<1>7. ASSUME NEW x \in S, NEW y \in S, rank[x] = rank[y]
      PROVE  x = y
  <2>1. ~(rank[x] < rank[y]) /\ ~(rank[y] < rank[x])
    <3>1. rank[x] \in 1..n
      BY <1>5
    <3> QED
      BY <1>2, <1>7, <3>1
  <2>2. <<x, y>> \notin R /\ <<y, x>> \notin R
    BY <1>6, <2>1
  <2> QED
    BY <2>2
<1>8. rank \in Surjection(S, 1..n)
  <2>1. rank \in [S -> 1..n]
    BY <1>4, <1>5
  <2>2. rank \in Injection(S, 1..n)
    BY <1>7, <2>1 DEF Injection, IsInjective
  <2>3. IsFiniteSet(1..n) /\ Cardinality(1..n) = n
    BY <1>2, FS_Interval
  <2> QED
    BY <1>1, <2>2, <2>3, FS_Injection
<1>9. \A i \in 1..n : \E x \in S : rank[x] = i
  BY <1>8 DEF Surjection
<1>10. PICK f : f = [i \in 1..n |-> CHOOSE x \in S : rank[x] = i]
  OBVIOUS
<1>11. ASSUME NEW i \in 1..n PROVE f[i] \in S /\ rank[f[i]] = i
  <2>1. f[i] = CHOOSE x \in S : rank[x] = i
    BY <1>10
  <2> QED
    BY <1>9, <2>1
<1>12. f \in [1..n -> S]
  BY <1>10, <1>11
<1>13. ASSUME NEW x \in S PROVE \E i \in 1..n : f[i] = x
  <2>1. rank[x] \in 1..n
    BY <1>5
  <2>2. f[rank[x]] = x
    BY <1>7, <1>11, <2>1
  <2> QED
    BY <2>1, <2>2
<1>14. ASSUME NEW i \in 1..n, NEW j \in 1..n, i < j PROVE <<f[i], f[j]>> \in R
  <2>1. f[i] \in S /\ f[j] \in S /\ rank[f[i]] = i /\ rank[f[j]] = j
    BY <1>11
  <2>2. f[i] # f[j]
    BY <1>2, <1>14, <2>1
  <2>3. <<f[j], f[i]>> \notin R
    BY <1>2, <1>6, <1>14, <2>1
  <2> QED
    BY <2>1, <2>2, <2>3
<1> QED
  BY <1>1, <1>2, <1>12, <1>13, <1>14

(* A filter yields what is at the places kept, each once and in order. *)
PicksOut(seq, keep, m, f) ==
    /\ m \in Nat /\ f \in [1..m -> keep]
    /\ Filtered(seq, keep) = [i \in 1..m |-> seq[f[i]]]
    /\ \A i, j \in 1..m : i < j => f[i] < f[j]
    /\ \A k \in keep : \E i \in 1..m : f[i] = k

LEMMA FilteredFacts ==
    ASSUME NEW seq, NEW len \in Nat, NEW keep, keep \subseteq 1..len
    PROVE  \E m, f : PicksOut(seq, keep, m, f)
<1>1. \A x \in keep : x \in Nat
  OBVIOUS
<1>2. PICK m : m = Cardinality(keep)
  OBVIOUS
<1>3. IsFiniteSet(keep)
  <2>1. IsFiniteSet(1..len)
    BY FS_Interval
  <2> QED
    BY <2>1, FS_Subset
<1>4. PICK R : R = {p \in keep \X keep : p[1] < p[2]}
  OBVIOUS
<1>5. \A x, y \in keep : <<x, y>> \in R <=> x < y
  BY <1>4
<1>6. /\ \A x \in keep : <<x, x>> \notin R
      /\ \A x, y, z \in keep : <<x, y>> \in R /\ <<y, z>> \in R => <<x, z>> \in R
      /\ \A x, y \in keep : x = y \/ <<x, y>> \in R \/ <<y, x>> \in R
  BY <1>1, <1>5
<1>7. /\ m \in Nat
      /\ \E f \in [1..m -> keep] : \A i, j \in 1..m : i < j => f[i] < f[j]
  <2>1. /\ m \in Nat
        /\ \E f \in [1..m -> keep] :
              /\ \A x \in keep : \E i \in 1..m : f[i] = x
              /\ \A i, j \in 1..m : i < j => <<f[i], f[j]>> \in R
    BY <1>2, <1>3, <1>6, Ranking
  <2>2. PICK f \in [1..m -> keep] : \A i, j \in 1..m : i < j => <<f[i], f[j]>> \in R
    BY <2>1
  <2>3. ASSUME NEW i \in 1..m, NEW j \in 1..m, i < j PROVE f[i] < f[j]
    BY <1>5, <2>2, <2>3
  <2> QED
    BY <2>1, <2>3
<1>8. PICK f : f = CHOOSE g \in [1..m -> keep] : \A i, j \in 1..m : i < j => g[i] < g[j]
  OBVIOUS
<1>9. f \in [1..m -> keep] /\ \A i, j \in 1..m : i < j => f[i] < f[j]
  BY <1>7, <1>8, Zenon
<1>10. Filtered(seq, keep) = [i \in 1..m |-> seq[f[i]]]
  BY <1>2, <1>8 DEF Filtered
<1>11. f \in Surjection(1..m, keep)
  <2>1. ASSUME NEW i \in 1..m, NEW j \in 1..m, f[i] = f[j] PROVE i = j
    <3>1. f[i] \in Nat /\ f[j] \in Nat
      <4>1. f[i] \in keep /\ f[j] \in keep
        BY <1>9, Zenon
      <4> QED
        BY <1>1, <4>1
    <3>2. i < j => f[i] < f[j]
      BY <1>9, Zenon
    <3>3. j < i => f[j] < f[i]
      BY <1>9, Zenon
    <3>4. ~(f[i] < f[j]) /\ ~(f[j] < f[i])
      BY <2>1, <3>1
    <3> QED
      BY <1>7, <3>2, <3>3, <3>4
  <2>2. f \in Injection(1..m, keep)
    BY <1>9, <2>1 DEF Injection, IsInjective
  <2>3. Cardinality(1..m) = m
    BY <1>7, FS_Interval
  <2> QED
    BY <1>2, <1>3, <2>2, <2>3, FS_Injection
<1>12. \A k \in keep : \E i \in 1..m : f[i] = k
  BY <1>11 DEF Surjection
<1>13. PicksOut(seq, keep, m, f)
  BY <1>7, <1>9, <1>10, <1>12 DEF PicksOut
<1> QED
  BY <1>13, Zenon

---------------------------------------------------------------------------
(* The steps. *)

(* What a fact of the deployment becomes when it is observed. *)
LEMMA ObservationFacts ==
    ASSUME ClockInv, NEW f \in deployed.facts, NEW lag \in Nat, lag =< now
    PROVE  /\ Observation(f, lag) =
                 [id |-> Observation(f, lag).id, observed_at |-> Observation(f, lag).observed_at,
                  subject |-> Observation(f, lag).subject, origin |-> Observation(f, lag).origin,
                  payload |-> Observation(f, lag).payload]
           /\ Observation(f, lag).id = issued + 1
           /\ Observation(f, lag).observed_at \in Nat
           /\ Observation(f, lag).subject \in EntityRef
           /\ WellFormed(Observation(f, lag))
<1>1. f.subject \in EntityRef /\ WellFormed(f)
  BY StorageAssumption DEF ClockInv, IsDeployment
<1>2. now - lag \in Nat
  BY DEF ClockInv
<1>3. WellFormed(Observation(f, lag))
  <2>1. Observation(f, lag).origin = f.origin /\ Observation(f, lag).payload = f.payload
    BY DEF Observation
  <2> QED
    BY <1>1, <2>1 DEF WellFormed
<1> QED
  BY <1>1, <1>2, <1>3 DEF Observation

(* The sweep keeps the time it began at until it is over. *)
LEMMA ClockStep ==
    ASSUME ClockInv, [Next]_vars
    PROVE  ClockInv'
<1> USE DEF ClockInv
<1>1. CASE Clock
  BY <1>1 DEF Clock, observed
<1>2. ASSUME NextTable, UNCHANGED <<deployed, now, issued>>, sweep.table # "none"
      PROVE  ClockInv'
  <2>1. After(sweep.table) \in SweepTable
    <3>1. sweep.table \in {"observations", "incidents", "attempts"}
      BY <1>2 DEF SweepTable
    <3>2. After("observations") = "incidents"
      BY Zenon DEF After
    <3>3. After("incidents") = "attempts"
      BY Zenon DEF After
    <3>4. After("attempts") = "none"
      BY Zenon DEF After
    <3> QED
      BY <3>1, <3>2, <3>3, <3>4 DEF SweepTable
  <2>2. CASE After(sweep.table) = "none"
    BY <1>2, <2>2 DEF NextTable, NoSweep, SweepTable
  <2>3. CASE After(sweep.table) # "none"
    <3>1. sweep' = [sweep EXCEPT !.table = After(sweep.table)]
      BY <1>2, <2>3 DEF NextTable
    <3> QED
      BY <1>2, <2>1, <3>1
  <2> QED
    BY <2>2, <2>3
<1>3. CASE Sweep
  <2>1. CASE SweepStarts
    BY <2>1 DEF SweepStarts, observed, SweepTable
  <2>2. CASE SweepObservations
    BY <1>2, <2>2 DEF SweepObservations
  <2>3. CASE SweepIncidents
    BY <1>2, <2>3 DEF SweepIncidents, observed
  <2>4. CASE SweepAttempts
    BY <1>2, <2>4 DEF SweepAttempts, observed
  <2>5. CASE StatementFails
    BY <1>2, <2>5 DEF StatementFails, observed
  <2> QED
    BY <1>3, <2>1, <2>2, <2>3, <2>4, <2>5 DEF Sweep
<1>4. ASSUME UNCHANGED <<deployed, now, sweep>>, issued' \in Nat PROVE ClockInv'
  BY <1>4
<1>5. CASE Consumer
  <2>1. CASE \E f \in deployed.facts, lag \in 0..MaxLag : AppendObservation(f, lag)
    BY <1>4, <2>1 DEF AppendObservation
  <2>2. CASE AppendFails
    BY <1>4, <2>2 DEF AppendFails, vars, observed
  <2>3. CASE \E f \in deployed.facts, stored \in BOOLEAN : RecordSignal(f, stored)
    BY <1>4, <2>3 DEF RecordSignal
  <2>4. CASE SaveOpened
    BY <1>4, <2>4 DEF SaveOpened, observed
  <2>5. CASE SaveResolved
    BY <1>4, <2>5 DEF SaveResolved, observed
  <2>6. CASE \E n \in deployed.notices, lag \in 0..MaxLag : InsertPending(n, lag)
    BY <1>4, <2>6 DEF InsertPending, observed
  <2> QED
    BY <1>5, <2>1, <2>2, <2>3, <2>4, <2>5, <2>6 DEF Consumer
<1>6. CASE Worker
  BY <1>4, <1>6 DEF Worker, CompleteAttempt, observed
<1>7. CASE Api
  BY <1>4, <1>7 DEF Api, health_handler, list_open, detail, evidence, LookUp, Respond, observed
<1>8. CASE UNCHANGED vars
  BY <1>4, <1>8 DEF vars, observed
<1> QED
  BY <1>1, <1>3, <1>5, <1>6, <1>7, <1>8 DEF Next

(* Which steps touch what: the observations, the incident, the attempts,    *)
(* the API's request and answer.                                            *)
LEMMA Touching ==
    ASSUME [Next]_vars
    PROVE  /\ \/ UNCHANGED observed
              \/ \E f \in deployed.facts, lag \in 0..MaxLag : AppendObservation(f, lag)
              \/ \E f \in deployed.facts, stored \in BOOLEAN : RecordSignal(f, stored)
              \/ SweepObservations
           /\ UNCHANGED incident \/ SaveOpened \/ SaveResolved \/ SweepIncidents
           /\ \/ UNCHANGED notices
              \/ \E n \in deployed.notices, lag \in 0..MaxLag : InsertPending(n, lag)
              \/ \E id \in owed : CompleteAttempt(id)
              \/ SweepAttempts
           /\ UNCHANGED api \/ Api
<1>1. CASE Clock
  BY <1>1 DEF Clock, tables
<1>2. CASE Sweep
  BY <1>2 DEF Sweep, SweepStarts, SweepObservations, SweepIncidents, SweepAttempts,
              StatementFails, tables, notices
<1>3. CASE Consumer
  <2>1. CASE \E f \in deployed.facts, lag \in 0..MaxLag : AppendObservation(f, lag)
    BY <2>1 DEF AppendObservation, tables
  <2>2. CASE AppendFails
    BY <2>2 DEF AppendFails, vars, tables
  <2>3. CASE \E f \in deployed.facts, stored \in BOOLEAN : RecordSignal(f, stored)
    BY <2>3 DEF RecordSignal, tables
  <2>4. CASE SaveOpened
    BY <2>4 DEF SaveOpened
  <2>5. CASE SaveResolved
    BY <2>5 DEF SaveResolved
  <2>6. CASE \E n \in deployed.notices, lag \in 0..MaxLag : InsertPending(n, lag)
    BY <2>6 DEF InsertPending
  <2> QED
    BY <1>3, <2>1, <2>2, <2>3, <2>4, <2>5, <2>6 DEF Consumer
<1>4. CASE Worker
  BY <1>4 DEF Worker, CompleteAttempt
<1>5. CASE Api
  <2>1. UNCHANGED observed /\ UNCHANGED tables
    BY <1>5 DEF Api, health_handler, list_open, detail, evidence, LookUp, Respond
  <2> QED
    BY <1>5, <2>1 DEF tables
<1>6. CASE UNCHANGED vars
  BY <1>6 DEF vars, tables
<1> QED
  BY <1>1, <1>2, <1>3, <1>4, <1>5, <1>6 DEF Next

(* Observations are only added, under new ids, and rows only deleted. *)
Grows ==
    /\ issued' \in Nat /\ issued =< issued'
    /\ \A j \in DOMAIN memory : j \in DOMAIN memory' /\ memory'[j] = memory[j]
    /\ \A id \in 1..issued : id \in DOMAIN rows' => id \in DOMAIN rows

(* An observation with a new id and its row are added, or nothing is. *)
LEMMA AppendStep ==
    ASSUME ClockInv, LogInv, RowInv, NEW obs,
           obs = [id |-> obs.id, observed_at |-> obs.observed_at, subject |-> obs.subject,
                  origin |-> obs.origin, payload |-> obs.payload],
           obs.id = issued + 1, obs.observed_at \in Nat, obs.subject \in EntityRef, WellFormed(obs),
           \/ rows' = Put(rows, obs.id, to_row(obs)) /\ memory' = Append(memory, obs)
           \/ rows' = rows /\ memory' = memory,
           applied' = Append(applied, obs), issued' = issued + 1
    PROVE  LogInv' /\ RowInv' /\ Grows
<1>1. issued \in Nat /\ issued + 1 \in Nat
  BY DEF ClockInv
<1>2. /\ DOMAIN applied' = 1..(Len(applied) + 1) /\ Len(applied') = Len(applied) + 1
      /\ \A i \in 1..Len(applied) : applied'[i] = applied[i]
      /\ applied'[Len(applied) + 1] = obs
  BY DEF LogInv
<1>3. \A o : IsObservation(o) => IsObservation(o)'
  BY <1>1 DEF IsObservation
<1>4. IsObservation(obs)'
  BY <1>1 DEF IsObservation
<1>5. CASE rows' = Put(rows, obs.id, to_row(obs)) /\ memory' = Append(memory, obs)
  <2>1. /\ DOMAIN memory' = 1..(Len(memory) + 1) /\ Len(memory') = Len(memory) + 1
        /\ \A i \in 1..Len(memory) : memory'[i] = memory[i]
        /\ memory'[Len(memory) + 1] = obs
    BY <1>5 DEF LogInv
  <2>2. LogInv'
    <3>1. ASSUME NEW i \in DOMAIN memory', NEW j \in DOMAIN memory', memory'[i].id = memory'[j].id
          PROVE  i = j
      <4>1. \A x \in 1..Len(memory) : memory[x].id \in 1..issued /\ memory[x].id # issued + 1
        BY <1>1 DEF LogInv, IsObservation
      <4> QED
        BY <2>1, <3>1, <4>1 DEF LogInv
    <3> QED
      BY <1>2, <1>3, <1>4, <2>1, <3>1 DEF LogInv
  <2>3. /\ DOMAIN rows' = DOMAIN rows \cup {issued + 1}
        /\ rows'[issued + 1] = to_row(obs)
        /\ \A id \in DOMAIN rows : id # issued + 1 => rows'[id] = rows[id]
    BY <1>5 DEF Put
  <2>4. DOMAIN rows' \subseteq 1..issued'
    BY <1>1, <2>3 DEF RowInv
  <2>5. ASSUME NEW id \in DOMAIN rows'
        PROVE  \E j \in DOMAIN memory' : memory'[j].id = id /\ rows'[id] = to_row(memory'[j])
    <3>1. CASE id = issued + 1
      <4>1. Len(memory) + 1 \in DOMAIN memory'
        BY <2>1 DEF LogInv
      <4> QED
        BY <2>1, <2>3, <3>1, <4>1
    <3>2. CASE id # issued + 1
      <4>1. PICK j \in DOMAIN memory : memory[j].id = id /\ rows[id] = to_row(memory[j])
        BY <2>3, <3>2 DEF RowInv
      <4>2. j \in DOMAIN memory' /\ memory'[j] = memory[j]
        BY <2>1 DEF LogInv
      <4> QED
        BY <2>3, <3>2, <4>1, <4>2
    <3> QED
      BY <3>1, <3>2
  <2>6. RowInv'
    BY <2>4, <2>5 DEF RowInv
  <2>7. Grows
    BY <1>1, <2>1, <2>3 DEF Grows, LogInv
  <2> QED
    BY <2>2, <2>6, <2>7
<1>6. CASE rows' = rows /\ memory' = memory
  <2>1. LogInv'
    BY <1>2, <1>3, <1>4, <1>6 DEF LogInv
  <2>2. RowInv'
    BY <1>1, <1>6 DEF RowInv
  <2>3. Grows
    BY <1>1, <1>6 DEF Grows
  <2> QED
    BY <2>1, <2>2, <2>3
<1> QED
  BY <1>5, <1>6

(* Observations, rows and ids stay in step. *)
LEMMA ObservedStep ==
    ASSUME ClockInv, LogInv, RowInv, [Next]_vars
    PROVE  LogInv' /\ RowInv' /\ Grows
<1>1. CASE UNCHANGED observed
  BY <1>1 DEF observed, ClockInv, LogInv, IsObservation, RowInv, Grows
<1>2. ASSUME NEW f \in deployed.facts, NEW lag \in 0..MaxLag, AppendObservation(f, lag)
      PROVE  LogInv' /\ RowInv' /\ Grows
  <2>1. lag \in Nat /\ lag =< now
    BY <1>2, StorageAssumption DEF AppendObservation
  <2> QED
    BY <1>2, <2>1, ObservationFacts, AppendStep DEF AppendObservation
<1>3. ASSUME NEW f \in deployed.facts, NEW stored \in BOOLEAN, RecordSignal(f, stored)
      PROVE  LogInv' /\ RowInv' /\ Grows
  <2>1. 0 \in Nat /\ 0 =< now
    BY DEF ClockInv
  <2> QED
    BY <1>3, <2>1, ObservationFacts, AppendStep DEF RecordSignal
<1>4. CASE SweepObservations
  <2>1. UNCHANGED <<memory, applied, issued>>
    BY <1>4 DEF SweepObservations
  <2>2. DOMAIN rows' \subseteq DOMAIN rows /\ \A id \in DOMAIN rows' : rows'[id] = rows[id]
    BY <1>4 DEF SweepObservations, YoungRows, Restrict
  <2> QED
    BY <2>1, <2>2 DEF ClockInv, LogInv, IsObservation, RowInv, Grows
<1> QED
  BY <1>1, <1>2, <1>3, <1>4, Touching

(* The clock goes forward, and a deployment stays as it is. *)
LEMMA TimeGoesOn ==
    ASSUME ClockInv, [Next]_vars
    PROVE  deployed' = deployed /\ now' \in Nat /\ now =< now'
<1>0. now \in Nat
  BY DEF ClockInv
<1>1. CASE Clock
  BY <1>0, <1>1 DEF Clock
<1>2. CASE Sweep
  BY <1>0, <1>2 DEF Sweep, SweepStarts, SweepObservations, SweepIncidents, SweepAttempts,
                    StatementFails
<1>3. CASE Consumer
  BY <1>0, <1>3 DEF Consumer, AppendObservation, AppendFails, RecordSignal, SaveOpened,
                    SaveResolved, InsertPending, vars
<1>4. CASE Worker
  BY <1>0, <1>4 DEF Worker, CompleteAttempt
<1>5. CASE Api
  BY <1>0, <1>5 DEF Api, health_handler, list_open, detail, evidence, LookUp, Respond
<1>6. CASE UNCHANGED vars
  BY <1>0, <1>6 DEF vars
<1> QED
  BY <1>1, <1>2, <1>3, <1>4, <1>5, <1>6 DEF Next

(* A row has the time of the observation it is the row of. *)
LEMMA RowTimes ==
    ASSUME LogInv, RowInv, NEW id \in DOMAIN rows
    PROVE  /\ rows[id].observed_at \in Nat
           /\ \A j \in DOMAIN memory : memory[j].id = id => rows[id] = to_row(memory[j])
           /\ \E j \in DOMAIN memory : memory[j].id = id /\ rows[id] = to_row(memory[j])
<1>1. PICK j \in DOMAIN memory : memory[j].id = id /\ rows[id] = to_row(memory[j])
  BY DEF RowInv
<1>2. rows[id].observed_at \in Nat
  BY <1>1 DEF to_row, LogInv, IsObservation
<1>3. \A k \in DOMAIN memory : memory[k].id = id => rows[id] = to_row(memory[k])
  BY <1>1 DEF LogInv
<1> QED
  BY <1>1, <1>2, <1>3

(* An observation that comes in is newer than all that was swept. *)
LEMMA AppendKeepsSwept ==
    ASSUME ClockInv, LogInv, RowInv, FactInv, SweptInv, NEW obs, NEW f \in deployed.facts,
           obs.id = issued + 1, obs.observed_at \in Nat, obs.subject = f.subject,
           obs.observed_at =< now, now =< obs.observed_at + MaxLag,
           \/ rows' = Put(rows, obs.id, to_row(obs)) /\ memory' = Append(memory, obs)
           \/ rows' = rows /\ memory' = memory,
           UNCHANGED <<deployed, now>>
    PROVE  FactInv' /\ SweptInv'
<1>1. CASE rows' = Put(rows, obs.id, to_row(obs)) /\ memory' = Append(memory, obs)
  <2>1. /\ DOMAIN memory' = 1..(Len(memory) + 1) /\ Len(memory) \in Nat
        /\ DOMAIN memory = 1..Len(memory)
        /\ \A i \in 1..Len(memory) : memory'[i] = memory[i]
        /\ memory'[Len(memory) + 1] = obs
    BY <1>1 DEF LogInv
  <2>2. /\ DOMAIN rows' = DOMAIN rows \cup {obs.id} /\ rows'[obs.id] = to_row(obs)
        /\ \A id \in DOMAIN rows : id # obs.id => rows'[id] = rows[id]
    BY <1>1 DEF Put
  <2>3. \A j \in DOMAIN memory' : j \in DOMAIN memory \/ j = Len(memory) + 1
    BY <2>1
  <2>4. FactInv'
    <3>1. ASSUME NEW j \in DOMAIN memory'
          PROVE  /\ memory'[j].observed_at =< now
                 /\ \E g \in deployed.facts : memory'[j].subject = g.subject
      BY <2>1, <2>3 DEF FactInv
    <3> QED
      BY <3>1 DEF FactInv
  <2>5. ASSUME NEW j \in DOMAIN memory', memory'[j].id \notin DOMAIN rows'
        PROVE  /\ Due(memory'[j].observed_at, deployed.observations)
               /\ AgeCoversLag => \A id \in DOMAIN rows' :
                                     memory'[j].observed_at < rows'[id].observed_at
    <3>1. j \in DOMAIN memory /\ memory'[j] = memory[j] /\ memory[j].id \notin DOMAIN rows
      BY <2>1, <2>2, <2>3, <2>5
    <3>2. /\ Due(memory[j].observed_at, deployed.observations)
          /\ AgeCoversLag => \A id \in DOMAIN rows : memory[j].observed_at < rows[id].observed_at
      BY <3>1 DEF SweptInv
    <3>3. memory[j].observed_at \in Nat /\ now \in Nat /\ MaxLag \in Nat
      BY <3>1, StorageAssumption DEF LogInv, IsObservation, ClockInv
    <3>4. AgeCoversLag => memory[j].observed_at < obs.observed_at
      <4>1. deployed.observations \in Nat /\ memory[j].observed_at + deployed.observations < now
        BY <3>2, StorageAssumption DEF Due, ClockInv, IsDeployment, Age
      <4>2. deployed.observations # Nothing
        BY <3>2 DEF Due
      <4> QED
        BY <3>3, <4>1, <4>2 DEF AgeCoversLag
    <3>5. AgeCoversLag => \A id \in DOMAIN rows' : memory[j].observed_at < rows'[id].observed_at
      <4>1. rows'[obs.id].observed_at = obs.observed_at
        BY <2>2 DEF to_row
      <4> QED
        BY <2>2, <3>2, <3>4, <4>1
    <3> QED
      BY <3>1, <3>2, <3>5
  <2>6. SweptInv'
    BY <2>5 DEF SweptInv, AgeCoversLag, Due
  <2> QED
    BY <2>4, <2>6
<1>2. CASE rows' = rows /\ memory' = memory
  BY <1>2 DEF FactInv, SweptInv, AgeCoversLag, Due
<1> QED
  BY <1>1, <1>2

(* The sweep deletes the oldest, and time only makes things older. *)
LEMMA SweptStep ==
    ASSUME ClockInv, LogInv, RowInv, FactInv, SweptInv, [Next]_vars
    PROVE  FactInv' /\ SweptInv'
<1>1. deployed' = deployed /\ now' \in Nat /\ now =< now' /\ now \in Nat
  BY TimeGoesOn DEF ClockInv
<1>2. deployed.observations \in Age
  BY StorageAssumption DEF ClockInv, IsDeployment
<1>3. \A j \in DOMAIN memory : memory[j].observed_at \in Nat
  BY DEF LogInv, IsObservation
<1>4. ASSUME NEW j \in DOMAIN memory, Due(memory[j].observed_at, deployed.observations),
             memory' = memory
      PROVE  Due(memory[j].observed_at, deployed.observations)'
  BY <1>1, <1>2, <1>3, <1>4 DEF Due, Age
<1>5. CASE UNCHANGED observed
  <2>1. UNCHANGED <<rows, memory>>
    BY <1>5 DEF observed
  <2>2. FactInv'
    BY <1>1, <1>3, <2>1 DEF FactInv
  <2>3. SweptInv'
    BY <1>1, <1>4, <2>1 DEF SweptInv, AgeCoversLag
  <2> QED
    BY <2>2, <2>3
<1>6. ASSUME NEW f \in deployed.facts, NEW lag \in 0..MaxLag, AppendObservation(f, lag)
      PROVE  FactInv' /\ SweptInv'
  <2>1. lag \in Nat /\ lag =< now /\ MaxLag \in Nat
    BY <1>6, StorageAssumption DEF AppendObservation
  <2>2. PICK obs : obs = Observation(f, lag)
    OBVIOUS
  <2>3. obs.id = issued + 1 /\ obs.observed_at \in Nat
    BY <2>1, <2>2, ObservationFacts
  <2>4. obs.subject = f.subject /\ obs.observed_at = now - lag
    BY <2>2 DEF Observation
  <2>5. obs.observed_at =< now /\ now =< obs.observed_at + MaxLag
    BY <1>1, <2>1, <2>4
  <2>6. /\ rows' = Put(rows, obs.id, to_row(obs)) /\ memory' = Append(memory, obs)
        /\ UNCHANGED <<deployed, now>>
    BY <1>6, <2>2 DEF AppendObservation
  <2> QED
    BY <2>3, <2>4, <2>5, <2>6, AppendKeepsSwept
<1>7. ASSUME NEW f \in deployed.facts, NEW stored \in BOOLEAN, RecordSignal(f, stored)
      PROVE  FactInv' /\ SweptInv'
  <2>1. 0 \in Nat /\ 0 =< now /\ MaxLag \in Nat
    BY <1>1, StorageAssumption
  <2>2. PICK obs : obs = Observation(f, 0)
    OBVIOUS
  <2>3. obs.id = issued + 1 /\ obs.observed_at \in Nat
    BY <2>1, <2>2, ObservationFacts
  <2>4. obs.subject = f.subject /\ obs.observed_at = now - 0
    BY <2>2 DEF Observation
  <2>5. obs.observed_at =< now /\ now =< obs.observed_at + MaxLag
    BY <1>1, <2>1, <2>4
  <2>6. /\ \/ rows' = Put(rows, obs.id, to_row(obs)) /\ memory' = Append(memory, obs)
           \/ rows' = rows /\ memory' = memory
        /\ UNCHANGED <<deployed, now>>
    BY <1>7, <2>2 DEF RecordSignal
  <2> QED
    BY <2>3, <2>4, <2>5, <2>6, AppendKeepsSwept
<1>8. CASE SweepObservations
  <2>1. UNCHANGED <<deployed, now, memory>>
    BY <1>8 DEF SweepObservations
  <2>2. /\ DOMAIN rows' \subseteq DOMAIN rows
        /\ \A id \in DOMAIN rows' : /\ rows'[id] = rows[id]
                                    /\ ~Expired(rows[id].observed_at, deployed.observations)
        /\ \A id \in DOMAIN rows \ DOMAIN rows' :
              Expired(rows[id].observed_at, deployed.observations)
    BY <1>8 DEF SweepObservations, YoungRows, Restrict
  <2>3. \A at \in Nat : Expired(at, deployed.observations) => Due(at, deployed.observations)
    BY <1>2 DEF Expired, Due, Age, ClockInv
  <2>4. ASSUME NEW at \in Nat, NEW to \in Nat, Expired(at, deployed.observations),
               ~Expired(to, deployed.observations)
        PROVE  at < to
    BY <1>2, <2>4 DEF Expired, Age, ClockInv
  <2>5. ASSUME NEW j \in DOMAIN memory, memory[j].id \notin DOMAIN rows'
        PROVE  /\ Due(memory[j].observed_at, deployed.observations)
               /\ AgeCoversLag => \A id \in DOMAIN rows' :
                                     memory[j].observed_at < rows[id].observed_at
    <3>1. CASE memory[j].id \notin DOMAIN rows
      BY <2>2, <3>1 DEF SweptInv
    <3>2. CASE memory[j].id \in DOMAIN rows
      <4>1. rows[memory[j].id] = to_row(memory[j])
        BY <3>2, RowTimes
      <4>2. rows[memory[j].id].observed_at = memory[j].observed_at
        BY <4>1 DEF to_row
      <4>3. Expired(memory[j].observed_at, deployed.observations)
        BY <2>2, <2>5, <3>2, <4>2
      <4>4. ASSUME NEW id \in DOMAIN rows' PROVE memory[j].observed_at < rows[id].observed_at
        <5>1. id \in DOMAIN rows /\ ~Expired(rows[id].observed_at, deployed.observations)
          BY <2>2
        <5>2. rows[id].observed_at \in Nat
          BY <5>1, RowTimes
        <5> QED
          BY <1>3, <2>4, <4>3, <5>1, <5>2
      <4> QED
        BY <1>3, <2>3, <4>3, <4>4
    <3> QED
      BY <3>1, <3>2
  <2>6. SweptInv'
    BY <2>1, <2>2, <2>5 DEF SweptInv, AgeCoversLag, Due
  <2>7. FactInv'
    BY <2>1 DEF FactInv
  <2> QED
    BY <2>6, <2>7
<1> QED
  BY <1>5, <1>6, <1>7, <1>8, Touching

(* The read models keep up with what they are given, and only the consumer *)
(* gives them anything.                                                     *)
LEMMA StoreStep ==
    ASSUME ClockInv, LogInv, StoreInv, [Next]_vars
    PROVE  StoreInv'
<1>1. ASSUME NEW obs, obs.observed_at \in Nat, store' = apply(store, obs),
             applied' = Append(applied, obs)
      PROVE  StoreInv'
  <2>1. Grown(applied, Len(applied), obs, applied')
    BY <1>1 DEF LogInv, Grown
  <2>2. \A i \in 1..Len(applied) : applied[i].observed_at \in Nat
    BY DEF LogInv, IsObservation
  <2>3. StoreOf(applied', apply(store, obs))
    BY <1>1, <2>1, <2>2, ApplyKeepsStore DEF StoreInv
  <2> QED
    BY <1>1, <2>3 DEF StoreInv
<1>2. CASE UNCHANGED observed
  BY <1>2 DEF observed, StoreInv
<1>3. ASSUME NEW f \in deployed.facts, NEW lag \in 0..MaxLag, AppendObservation(f, lag)
      PROVE  StoreInv'
  <2>1. lag \in Nat /\ lag =< now
    BY <1>3, StorageAssumption DEF AppendObservation
  <2>2. Observation(f, lag).observed_at \in Nat
    BY <2>1, ObservationFacts
  <2> QED
    BY <1>1, <1>3, <2>2 DEF AppendObservation
<1>4. ASSUME NEW f \in deployed.facts, NEW stored \in BOOLEAN, RecordSignal(f, stored)
      PROVE  StoreInv'
  <2>1. 0 \in Nat /\ 0 =< now
    BY DEF ClockInv
  <2>2. Observation(f, 0).observed_at \in Nat
    BY <2>1, ObservationFacts
  <2> QED
    BY <1>1, <1>4, <2>2 DEF RecordSignal
<1>5. CASE SweepObservations
  BY <1>5 DEF SweepObservations, StoreInv
<1> QED
  BY <1>2, <1>3, <1>4, <1>5, Touching

(* An incident cites observations whose ids were issued. *)
LEMMA IncidentStep ==
    ASSUME ClockInv, LogInv, IncidentInv, Grows, [Next]_vars
    PROVE  IncidentInv'
<1>1. Seq(1..issued) \subseteq Seq(1..issued') /\ 1..issued \subseteq 1..issued'
  <2>1. 1..issued \subseteq 1..issued'
    BY DEF Grows, ClockInv
  <2> QED
    BY <2>1, SeqMonotonic
<1>2. CASE UNCHANGED incident
  BY <1>1, <1>2 DEF IncidentInv
<1>3. CASE SaveOpened
  <2>1. PICK cited \in Orderings(Citable) :
            incident' = [status |-> "Open", resolved_at |-> 0, evidence |-> cited]
    BY <1>3 DEF SaveOpened
  <2>2. Citable \subseteq 1..issued
    BY DEF Citable, LogInv, IsObservation
  <2>3. Cardinality(Citable) \in Nat
    <3>1. IsFiniteSet(1..issued)
      BY FS_Interval DEF ClockInv
    <3> QED
      BY <2>2, <3>1, FS_Subset, FS_CardinalityType
  <2>4. cited \in [1..Cardinality(Citable) -> 1..issued]
    BY <2>2 DEF Orderings
  <2>5. cited \in Seq(1..issued)
    BY <2>3, <2>4, SeqDef
  <2> QED
    BY <1>1, <2>1, <2>5 DEF IncidentInv
<1>4. CASE SaveResolved
  <2>1. now \in Nat
    BY DEF ClockInv
  <2>2. incident' = [incident EXCEPT !.status = "Resolved", !.resolved_at = now]
    BY <1>4 DEF SaveResolved
  <2>3. /\ incident'.evidence = incident.evidence /\ incident'.resolved_at \in Nat
        /\ DOMAIN incident' = DOMAIN incident
    BY <2>1, <2>2 DEF IncidentInv
  <2> QED
    BY <1>1, <2>3 DEF IncidentInv
<1>5. CASE SweepIncidents
  <2>1. CASE incident' = incident
    BY <1>1, <2>1 DEF IncidentInv
  <2>2. CASE incident' = [NoIncident EXCEPT !.status = "swept"]
    BY <2>2, EmptySeq DEF IncidentInv, NoIncident
  <2> QED
    BY <1>5, <2>1, <2>2 DEF SweepIncidents
<1> QED
  BY <1>2, <1>3, <1>4, <1>5, Touching

(* What was looked up stays looked up: what was missing does not come back. *)
LEMMA LookedUpStays ==
    ASSUME ClockInv, Grows, NEW asked, NEW found, NEW n, LookedUp(asked, found, n)
    PROVE  LookedUp(asked, found, n)'
<1>1. 1..issued \subseteq 1..issued'
  BY DEF Grows, ClockInv
<1>2. asked \in Seq(1..issued)'
  BY <1>1, SeqMonotonic DEF LookedUp
<1>3. {Shown(memory[j]) : j \in DOMAIN memory} \subseteq {Shown(memory[j]) : j \in DOMAIN memory}'
  BY DEF Grows
<1>4. found \in Seq({Shown(memory[j]) : j \in DOMAIN memory})'
  BY <1>3, SeqMonotonic DEF LookedUp
<1>5. ASSUME NEW i \in 1..n, get_by_id(asked[i])'
      PROVE  \E j \in DOMAIN found : found[j].id = asked[i]
  <2>1. asked[i] \in 1..issued
    <3>1. i \in 1..Len(asked) /\ asked \in Seq(1..issued)
      BY DEF LookedUp
    <3> QED
      BY <3>1, ElementOfSeq
  <2>2. get_by_id(asked[i])
    BY <1>5, <2>1 DEF Grows, get_by_id
  <2> QED
    BY <2>2 DEF LookedUp
<1> QED
  BY <1>2, <1>4, <1>5 DEF LookedUp

(* One more is looked up: found as its row shows it, or gone. *)
LEMMA LookUpOne ==
    ASSUME NEW asked, NEW found, NEW n, LookedUp(asked, found, n), n < Len(asked),
           NEW more,
           \/ more = found /\ ~get_by_id(asked[n + 1])
           \/ \E dto \in {Shown(memory[j]) : j \in DOMAIN memory} :
                 more = Append(found, dto) /\ dto.id = asked[n + 1]
    PROVE  LookedUp(asked, more, n + 1)
<1> DEFINE Dto == {Shown(memory[j]) : j \in DOMAIN memory}
<1>1. PICK f \in [DOMAIN found -> 1..n] :
          \A i \in DOMAIN found :
              found[i].id = asked[f[i]] /\ \A j \in DOMAIN found : i < j => f[i] < f[j]
  BY DEF LookedUp
<1>2. /\ asked \in Seq(1..issued) /\ n \in Nat /\ n + 1 \in 0..Len(asked) /\ found \in Seq(Dto)
      /\ \A i \in 1..n : get_by_id(asked[i]) => \E j \in DOMAIN found : found[j].id = asked[i]
  BY DEF LookedUp
<1> HIDE DEF Dto
<1>3. CASE more = found /\ ~get_by_id(asked[n + 1])
  <2>1. f \in [DOMAIN found -> 1..(n + 1)]
    BY <1>2
  <2>2. ASSUME NEW i \in 1..(n + 1), get_by_id(asked[i])
        PROVE  \E j \in DOMAIN found : found[j].id = asked[i]
    <3>1. i \in 1..n
      BY <1>2, <1>3, <2>2
    <3> QED
      BY <1>2, <2>2, <3>1
  <2> QED
    BY <1>1, <1>2, <1>3, <2>1, <2>2 DEF LookedUp, Dto
<1>4. ASSUME NEW dto \in Dto, more = Append(found, dto), dto.id = asked[n + 1]
      PROVE  LookedUp(asked, more, n + 1)
  <2>1. /\ more \in Seq(Dto) /\ Len(more) = Len(found) + 1
        /\ \A i \in 1..Len(found) : more[i] = found[i]
        /\ more[Len(found) + 1] = dto
    BY <1>2, <1>4, AppendProperties
  <2>2. /\ Len(found) \in Nat /\ DOMAIN found = 1..Len(found)
        /\ DOMAIN more = 1..(Len(found) + 1)
    BY <1>2, <2>1
  <2>3. PICK g : g = [i \in 1..(Len(found) + 1) |-> IF i =< Len(found) THEN f[i] ELSE n + 1]
    OBVIOUS
  <2>4. /\ \A i \in 1..Len(found) : g[i] = f[i] /\ g[i] \in 1..n
        /\ g[Len(found) + 1] = n + 1
    BY <1>1, <2>2, <2>3
  <2>5. g \in [DOMAIN more -> 1..(n + 1)]
    BY <1>1, <1>2, <2>2, <2>3
  <2>6. ASSUME NEW i \in DOMAIN more
        PROVE  /\ more[i].id = asked[g[i]]
               /\ \A j \in DOMAIN more : i < j => g[i] < g[j]
    <3>1. CASE i = Len(found) + 1
      <4>1. more[i].id = asked[g[i]]
        BY <1>4, <2>1, <2>4, <3>1
      <4>2. \A j \in DOMAIN more : ~(i < j)
        BY <2>2, <3>1
      <4> QED
        BY <4>1, <4>2
    <3>2. CASE i \in 1..Len(found)
      <4>1. more[i].id = asked[g[i]]
        BY <1>1, <2>1, <2>2, <2>4, <3>2
      <4>2. ASSUME NEW j \in DOMAIN more, i < j PROVE g[i] < g[j]
        <5>1. CASE j = Len(found) + 1
          BY <1>2, <2>4, <3>2, <5>1
        <5>2. CASE j \in 1..Len(found)
          BY <1>1, <2>2, <2>4, <3>2, <4>2, <5>2
        <5> QED
          BY <2>2, <5>1, <5>2
      <4> QED
        BY <4>1, <4>2
    <3> QED
      BY <2>2, <3>1, <3>2
  <2>7. ASSUME NEW i \in 1..(n + 1), get_by_id(asked[i])
        PROVE  \E j \in DOMAIN more : more[j].id = asked[i]
    <3>1. CASE i = n + 1
      <4>1. Len(found) + 1 \in DOMAIN more
        BY <2>2
      <4>2. more[Len(found) + 1].id = asked[i]
        BY <1>4, <2>1, <3>1
      <4> QED
        BY <4>1, <4>2
    <3>2. CASE i \in 1..n
      <4>1. PICK j \in DOMAIN found : found[j].id = asked[i]
        BY <1>2, <2>7, <3>2
      <4>2. j \in DOMAIN more /\ more[j] = found[j]
        BY <2>1, <2>2
      <4> QED
        BY <4>1, <4>2
    <3> QED
      BY <1>2, <3>1, <3>2
  <2> QED
    BY <1>2, <2>1, <2>5, <2>6, <2>7 DEF LookedUp, Dto
<1> QED
  BY <1>3, <1>4 DEF Dto

(* A request that is left alone stays at work. *)
LEMMA AtWorkStays ==
    ASSUME ClockInv, Grows, NEW rq, AtWork(rq)
    PROVE  AtWork(rq)'
<1>1. LookedUp(rq.asked, rq.found, Len(rq.asked) - Len(rq.rest))'
  BY LookedUpStays DEF AtWork
<1>2. rq.rest \in Seq(1..issued)'
  <2>1. 1..issued \subseteq 1..issued'
    BY DEF Grows, ClockInv
  <2> QED
    BY <2>1, SeqMonotonic DEF AtWork
<1> QED
  BY <1>1, <1>2 DEF AtWork

(* Each row shows the observation with its id. *)
LEMMA EvidenceFacts ==
    ASSUME LogInv, RowInv, NEW id \in DOMAIN rows
    PROVE  EvidenceOf(id) \in {Shown(memory[j]) : j \in DOMAIN memory} /\ EvidenceOf(id).id = id
<1>1. PICK j \in DOMAIN memory : memory[j].id = id /\ rows[id] = to_row(memory[j])
  BY DEF RowInv
<1>2. EvidenceOf(id) = Shown(memory[j])
  BY <1>1 DEF EvidenceOf, Shown
<1>3. memory[j].subject \in EntityRef /\ memory[j].origin \in Origin
  BY DEF LogInv, IsObservation, WellFormed
<1>4. Shown(memory[j]).id = id
  BY <1>1, <1>3, ShownIsHonest DEF ShownAs
<1> QED
  BY <1>2, <1>4

(* A lookup takes the next id off the rest. *)
LEMMA LookUpStep ==
    ASSUME LogInv, RowInv, NEW rq, AtWork(rq), rq.rest # <<>>,
           NEW after,
           after = [rq EXCEPT !.rest  = Tail(@),
                              !.found = IF get_by_id(Head(rq.rest))
                                          THEN Append(@, EvidenceOf(Head(rq.rest))) ELSE @]
    PROVE  AtWork(after)
<1>1. /\ rq.rest \in Seq(1..issued) /\ rq.asked \in Seq(1..issued)
      /\ Len(rq.rest) =< Len(rq.asked)
      /\ \A i \in 1..Len(rq.rest) : rq.rest[i] = rq.asked[Len(rq.asked) - Len(rq.rest) + i]
      /\ LookedUp(rq.asked, rq.found, Len(rq.asked) - Len(rq.rest))
  BY DEF AtWork, LookedUp
<1>2. PICK n : n = Len(rq.asked) - Len(rq.rest)
  OBVIOUS
<1>3. /\ Len(rq.rest) \in Nat /\ Len(rq.rest) > 0 /\ Len(rq.asked) \in Nat
      /\ Len(rq.rest) =< Len(rq.asked)
  BY <1>1, EmptySeq
<1>4. n \in Nat /\ n < Len(rq.asked) /\ Len(rq.asked) - (Len(rq.rest) - 1) = n + 1
  <2>1. PICK a \in Nat, b \in Nat : a = Len(rq.asked) /\ b = Len(rq.rest)
    BY <1>3
  <2>2. b > 0 /\ b =< a /\ n = a - b
    BY <1>2, <1>3, <2>1
  <2>3. n \in Nat /\ n < a /\ a - (b - 1) = n + 1
    BY <2>2
  <2> QED
    BY <2>1, <2>3
<1>5. Head(rq.rest) = rq.asked[n + 1]
  <2>1. Head(rq.rest) = rq.rest[1] /\ 1 \in 1..Len(rq.rest)
    BY <1>1, <1>3
  <2> QED
    BY <1>1, <1>2, <2>1
<1>6. /\ after.asked = rq.asked /\ after.rest = Tail(rq.rest)
      /\ after.found = IF get_by_id(rq.asked[n + 1])
                         THEN Append(rq.found, EvidenceOf(rq.asked[n + 1])) ELSE rq.found
      /\ DOMAIN after = {"asked", "rest", "found"}
  BY <1>5 DEF AtWork
<1>7. LookedUp(after.asked, after.found, n + 1)
  <2>1. CASE get_by_id(rq.asked[n + 1])
    <3>1. /\ EvidenceOf(rq.asked[n + 1]) \in {Shown(memory[j]) : j \in DOMAIN memory}
          /\ EvidenceOf(rq.asked[n + 1]).id = rq.asked[n + 1]
      BY <2>1, EvidenceFacts DEF get_by_id
    <3>2. after.found = Append(rq.found, EvidenceOf(rq.asked[n + 1]))
      BY <1>6, <2>1
    <3> QED
      BY <1>1, <1>2, <1>4, <1>6, <3>1, <3>2, LookUpOne
  <2>2. CASE ~get_by_id(rq.asked[n + 1])
    BY <1>1, <1>2, <1>4, <1>6, <2>2, LookUpOne
  <2> QED
    BY <2>1, <2>2
<1>8. /\ after.rest \in Seq(1..issued) /\ Len(after.rest) = Len(rq.rest) - 1
      /\ \A i \in 1..(Len(rq.rest) - 1) : after.rest[i] = rq.rest[i + 1]
  BY <1>1, <1>3, <1>6, HeadTailProperties
<1>9. ASSUME NEW i \in 1..Len(after.rest)
      PROVE  after.rest[i] = after.asked[Len(after.asked) - Len(after.rest) + i]
  <2>1. i \in 1..(Len(rq.rest) - 1) /\ i + 1 \in 1..Len(rq.rest) /\ i \in Nat
    BY <1>3, <1>8
  <2>2. after.rest[i] = rq.asked[Len(rq.asked) - Len(rq.rest) + (i + 1)]
    BY <1>1, <1>8, <2>1
  <2>3. Len(after.asked) - Len(after.rest) + i = Len(rq.asked) - Len(rq.rest) + (i + 1)
    BY <1>3, <1>6, <1>8, <2>1
  <2> QED
    BY <1>6, <2>2, <2>3
<1>10. Len(after.rest) =< Len(after.asked) /\ Len(after.asked) - Len(after.rest) = n + 1
  BY <1>1, <1>3, <1>4, <1>6, <1>8
<1> QED
  BY <1>6, <1>7, <1>8, <1>9, <1>10 DEF AtWork

(* No error is answered with 200. *)
LEMMA ErrorsAreNot200 ==
    ASSUME NEW result \in {"NotFound", "BadRequest", "Storage"}
    PROVE  status_of(result) # 200
<1>1. status_of("NotFound") = 404
  BY Zenon DEF status_of
<1>2. status_of("BadRequest") = 400
  BY Zenon DEF status_of
<1>3. status_of("Storage") = 500
  BY Zenon DEF status_of
<1>4. status_of("NotFound") # 200 /\ status_of("BadRequest") # 200 /\ status_of("Storage") # 200
  BY <1>1, <1>2, <1>3
<1> QED
  BY <1>4

(* What the request has looked up, and what the answer shows, stays honest *)
(* while the sweep deletes rows between the lookups.                       *)
LEMMA ApiStep ==
    ASSUME ClockInv, LogInv, RowInv, IncidentInv, RequestInv, AnswerInv, Grows, [Next]_vars
    PROVE  RequestInv' /\ AnswerInv'
<1>1. ASSUME NEW rq, AtWork(rq), request' = rq PROVE RequestInv'
  <2>1. AtWork(rq)'
    BY <1>1, AtWorkStays
  <2>2. AtWork(request)'
    BY <1>1, <2>1 DEF AtWork, LookedUp, get_by_id
  <2> QED
    BY <2>2 DEF RequestInv
<1>2. ASSUME request' = request PROVE RequestInv'
  <2>1. CASE request = Nothing
    BY <1>2, <2>1 DEF RequestInv
  <2>2. CASE AtWork(request)
    <3>1. PICK rq : rq = request
      OBVIOUS
    <3>2. AtWork(rq)
      BY <2>2, <3>1
    <3> QED
      BY <1>1, <1>2, <3>1, <3>2
  <2> QED
    BY <2>1, <2>2 DEF RequestInv
<1>3. ASSUME NEW asked, NEW found, LookedUp(asked, found, Len(asked)),
             answer'.asked = asked, answer'.found = found
      PROVE  AnswerInv'
  <2>1. LookedUp(asked, found, Len(asked))'
    BY <1>3, LookedUpStays
  <2> QED
    BY <1>3, <2>1 DEF AnswerInv, LookedUp, get_by_id
<1>4. ASSUME answer' = answer PROVE AnswerInv'
  <2>1. CASE answer = Nothing \/ ~(answer.path = "evidence" /\ answer.status = 200)
    BY <1>4, <2>1 DEF AnswerInv
  <2>2. CASE LookedUp(answer.asked, answer.found, Len(answer.asked))
    <3>1. PICK asked, found : asked = answer.asked /\ found = answer.found
      OBVIOUS
    <3>2. LookedUp(asked, found, Len(asked))
      BY <2>2, <3>1
    <3> QED
      BY <1>3, <1>4, <3>1, <3>2
  <2> QED
    BY <2>1, <2>2 DEF AnswerInv
<1>5. ASSUME NEW path, NEW result, NEW asked, NEW found, Answer(path, result, asked, found),
             path # "evidence" \/ result \in {"NotFound", "BadRequest", "Storage"}
      PROVE  AnswerInv'
  <2>1. answer'.path = path /\ answer'.status = status_of(result)
    BY <1>5 DEF Answer
  <2> QED
    BY <1>5, <2>1, ErrorsAreNot200 DEF AnswerInv
<1>6. CASE UNCHANGED api
  BY <1>2, <1>4, <1>6 DEF api
<1>7. CASE health_handler \/ list_open \/ detail
  <2>1. request' = request
    BY <1>7 DEF health_handler, list_open, detail
  <2>2. \E path \in {"health", "open", "detail"} : \E result, asked, found :
            Answer(path, result, asked, found)
    BY <1>7 DEF health_handler, list_open, detail
  <2> QED
    BY <1>2, <1>5, <2>1, <2>2
<1>8. CASE evidence
  <2>1. CASE Answer("evidence", "BadRequest", <<>>, <<>>) /\ UNCHANGED request
    BY <1>2, <1>5, <2>1
  <2>2. CASE Answer("evidence", "NotFound", <<>>, <<>>) /\ UNCHANGED request
    BY <1>2, <1>5, <2>2
  <2>3. CASE /\ UNCHANGED answer
             /\ request' = [asked |-> incident.evidence, rest |-> incident.evidence, found |-> <<>>]
    <3>1. PICK cited, rq : /\ cited = incident.evidence
                           /\ rq = [asked |-> cited, rest |-> cited, found |-> <<>>]
      OBVIOUS
    <3>2. cited \in Seq(1..issued) /\ Len(cited) \in Nat /\ Len(cited) - Len(cited) = 0
      BY <3>1 DEF IncidentInv
    <3>3. LookedUp(cited, <<>>, 0)
      <4>1. /\ <<>> \in Seq({Shown(memory[j]) : j \in DOMAIN memory})
            /\ DOMAIN <<>> = {}
        BY EmptySeq
      <4>2. PICK none : none = <<>>
        OBVIOUS
      <4>3. none \in Seq({Shown(memory[j]) : j \in DOMAIN memory}) /\ DOMAIN none = {}
        BY <4>1, <4>2
      <4>4. [x \in {} |-> 0] \in [DOMAIN none -> 1..0]
        BY <4>3
      <4>5. \E f \in [DOMAIN none -> 1..0] :
               \A i \in DOMAIN none :
                  none[i].id = cited[f[i]] /\ \A j \in DOMAIN none : i < j => f[i] < f[j]
        BY <4>3, <4>4
      <4>6. \A i \in 1..0 : FALSE
        OBVIOUS
      <4>7. 0 \in 0..Len(cited)
        BY <3>2
      <4>8. LookedUp(cited, none, 0)
        BY <3>2, <4>3, <4>5, <4>6, <4>7, Zenon DEF LookedUp
      <4> QED
        BY <4>2, <4>8
    <3>4. AtWork(rq)
      <4>1. /\ DOMAIN rq = {"asked", "rest", "found"}
            /\ rq.asked = cited /\ rq.rest = cited /\ rq.found = <<>>
        BY <3>1
      <4> QED
        BY <3>2, <3>3, <4>1 DEF AtWork
    <3> QED
      BY <1>1, <1>4, <2>3, <3>1, <3>4
  <2> QED
    BY <1>8, <2>1, <2>2, <2>3 DEF evidence
<1>9. CASE LookUp
  <2>1. PICK rq : rq = request
    OBVIOUS
  <2>2. AtWork(rq) /\ rq.rest # <<>>
    BY <1>9, <2>1 DEF LookUp, RequestInv
  <2>3. PICK after :
            after = [rq EXCEPT !.rest  = Tail(@),
                               !.found = IF get_by_id(Head(rq.rest))
                                           THEN Append(@, EvidenceOf(Head(rq.rest))) ELSE @]
    OBVIOUS
  <2>4. request' = after /\ answer' = answer
    BY <1>9, <2>1, <2>3 DEF LookUp
  <2>5. AtWork(after)
    BY <2>2, <2>3, LookUpStep
  <2> QED
    BY <1>1, <1>4, <2>4, <2>5
<1>10. CASE Respond
  <2>1. request' = Nothing /\ AtWork(request)
    BY <1>10 DEF Respond, RequestInv
  <2>2. RequestInv'
    BY <2>1 DEF RequestInv
  <2>3. CASE Answer("evidence", "Storage", request.asked, <<>>)
    BY <1>5, <2>2, <2>3
  <2>4. CASE request.rest = <<>> /\ Answer("evidence", "Ok", request.asked, request.found)
    <3>1. PICK asked, found : asked = request.asked /\ found = request.found
      OBVIOUS
    <3>2. Len(request.asked) - Len(request.rest) = Len(request.asked)
      <4>1. Len(request.rest) = 0 /\ Len(request.asked) \in Nat
        BY <2>1, <2>4, EmptySeq DEF AtWork, LookedUp
      <4> QED
        BY <4>1
    <3>3. LookedUp(asked, found, Len(asked))
      BY <2>1, <3>1, <3>2 DEF AtWork
    <3>4. answer'.asked = asked /\ answer'.found = found
      BY <2>4, <3>1 DEF Answer
    <3> QED
      BY <1>3, <2>2, <3>3, <3>4
  <2> QED
    BY <1>10, <2>3, <2>4 DEF Respond
<1> QED
  BY <1>6, <1>7, <1>8, <1>9, <1>10, Touching DEF Api

(* The two logs stay in step, and what is swept stays out. *)
LEMMA AuditStep ==
    ASSUME ClockInv, AuditInv, [Next]_vars
    PROVE  AuditInv'
<1>1. PICK n \in Nat : DOMAIN audit = 1..n
  BY DEF AuditInv
<1>2. /\ \A id \in DOMAIN audit : audit[id] \in Attempt
      /\ owed \subseteq DOMAIN audit /\ DOMAIN attempts \subseteq DOMAIN audit
      /\ \A id \in DOMAIN attempts : attempts[id] = attempt_row(audit[id])
  BY DEF AuditInv
<1>3. CASE UNCHANGED notices
  BY <1>3 DEF notices, AuditInv
<1>4. ASSUME NEW note \in deployed.notices, NEW lag \in 0..MaxLag, InsertPending(note, lag)
      PROVE  AuditInv'
  <2>1. Cardinality(DOMAIN audit) = n
    BY <1>1, FS_Interval
  <2>2. PICK a : a = pending_attempt(n + 1, note.rule, note.lifecycle, note.sink, now - lag)
    OBVIOUS
  <2>3. /\ attempts' = insert_pending(attempts, a) /\ audit' = memory_insert_pending(audit, a)
        /\ owed' = owed \cup {a.id} /\ lag =< now
    BY <1>4, <2>1, <2>2 DEF InsertPending
  <2>4. a.id = n + 1 /\ n + 1 \notin DOMAIN audit /\ n + 1 \notin DOMAIN attempts
    BY <1>1, <1>2, <2>2 DEF pending_attempt
  <2>5. a \in Attempt
    <3>1. note \in Notice
      BY StorageAssumption DEF ClockInv, IsDeployment
    <3>2. /\ note.rule \in STRING /\ note.lifecycle \in LifecycleKind
          /\ note.sink \in AttemptTarget
      BY <3>1 DEF Notice
    <3>3. now - lag \in Nat
      BY <2>3, StorageAssumption DEF ClockInv
    <3>4. NoOutcome \in Outcome
      BY DEF NoOutcome, Outcome
    <3> QED
      BY <2>2, <3>2, <3>3, <3>4 DEF pending_attempt, Attempt
  <2>6. /\ audit' = [x \in DOMAIN audit \cup {n + 1} |-> IF x = n + 1 THEN a ELSE audit[x]]
        /\ attempts' = [x \in DOMAIN attempts \cup {n + 1} |->
                           IF x = n + 1 THEN attempt_row(a) ELSE attempts[x]]
    BY <2>3, <2>4 DEF insert_pending, memory_insert_pending, HasAttempt, Insert
  <2>7. DOMAIN audit' = 1..(n + 1) /\ n + 1 \in Nat
    BY <1>1, <2>6
  <2>8. audit' \in [DOMAIN audit' -> Attempt]
    BY <1>2, <2>5, <2>6
  <2>9. owed' \subseteq DOMAIN audit' /\ DOMAIN attempts' \subseteq DOMAIN audit'
    BY <1>2, <2>3, <2>4, <2>6
  <2>10. ASSUME NEW id \in DOMAIN attempts' PROVE attempts'[id] = attempt_row(audit'[id])
    <3>1. CASE id = n + 1
      <4>1. attempts'[id] = attempt_row(a) /\ audit'[id] = a
        BY <2>6, <3>1
      <4> QED
        BY <4>1
    <3>2. CASE id # n + 1
      <4>1. id \in DOMAIN attempts /\ attempts'[id] = attempts[id] /\ audit'[id] = audit[id]
        BY <1>2, <2>6, <3>2
      <4> QED
        BY <1>2, <4>1
    <3> QED
      BY <3>1, <3>2
  <2>11. attempts' = [id \in DOMAIN attempts' |-> attempt_row(audit'[id])]
    BY <2>6, <2>10
  <2> QED
    BY <2>7, <2>8, <2>9, <2>11 DEF AuditInv
<1>5. ASSUME NEW id \in owed, CompleteAttempt(id) PROVE AuditInv'
  <2>1. PICK o \in DeliveryOutcomes(audit[id].target_kind) :
            /\ attempts' = complete(attempts, id, o, NoTime, now)
            /\ audit' = memory_complete(audit, id, o, NoTime, now)
    BY <1>5 DEF CompleteAttempt
  <2>2. owed' = owed \ {id}
    BY <1>5 DEF CompleteAttempt
  <2>3. id \in DOMAIN audit /\ audit[id] \in Attempt /\ now \in Nat
    BY <1>2 DEF ClockInv
  <2>4. PICK b, r : b = Completed(audit[id], o, now) /\ r = attempt_row(b)
    OBVIOUS
  <2>5. b \in Attempt /\ CompletedRow(attempt_row(audit[id]), o, now) = r
    BY <2>3, <2>4, CompletedAlike
  <2>6. audit' = [audit EXCEPT ![id] = b]
    BY <2>1, <2>3, <2>4 DEF memory_complete, HasAttempt, Completed
  <2>7. attempts' = IF id \in DOMAIN attempts THEN [attempts EXCEPT ![id] = r] ELSE attempts
    <3>1. CASE id \in DOMAIN attempts
      <4>1. attempts[id] = attempt_row(audit[id])
        BY <1>2, <3>1
      <4>2. attempts' = [attempts EXCEPT ![id] = CompletedRow(attempts[id], o, now)]
        BY <2>1, <3>1 DEF complete, HasAttempt, CompletedRow
      <4> QED
        BY <2>5, <3>1, <4>1, <4>2
    <3>2. CASE id \notin DOMAIN attempts
      BY <2>1, <3>2 DEF complete, HasAttempt
    <3> QED
      BY <3>1, <3>2
  <2>8. DOMAIN audit' = DOMAIN audit /\ audit' \in [DOMAIN audit' -> Attempt]
    BY <1>2, <2>5, <2>6 DEF AuditInv
  <2>9. DOMAIN attempts' = DOMAIN attempts
    BY <2>7
  <2>10. ASSUME NEW x \in DOMAIN attempts' PROVE attempts'[x] = attempt_row(audit'[x])
    <3>1. x \in DOMAIN attempts /\ x \in DOMAIN audit
      BY <1>2, <2>9
    <3>2. CASE x = id
      <4>1. attempts'[x] = r /\ audit'[x] = b
        BY <2>6, <2>7, <3>1, <3>2
      <4> QED
        BY <2>4, <4>1
    <3>3. CASE x # id
      <4>1. attempts'[x] = attempts[x] /\ audit'[x] = audit[x]
        BY <2>6, <2>7, <3>1, <3>3
      <4> QED
        BY <1>2, <3>1, <4>1
    <3> QED
      BY <3>2, <3>3
  <2>11. attempts' = [x \in DOMAIN attempts' |-> attempt_row(audit'[x])]
    <3>1. attempts' = [x \in DOMAIN attempts' |-> attempts'[x]]
      BY <2>7 DEF AuditInv
    <3> QED
      BY <2>10, <3>1
  <2> QED
    BY <1>1, <1>2, <2>2, <2>8, <2>9, <2>11 DEF AuditInv
<1>6. CASE SweepAttempts
  <2>1. UNCHANGED <<audit, owed>> /\ attempts' = KeptAttempts
    BY <1>6 DEF SweepAttempts
  <2>2. DOMAIN attempts' \subseteq DOMAIN attempts
    BY <2>1 DEF KeptAttempts, Restrict
  <2>3. attempts' = [x \in DOMAIN attempts' |-> attempt_row(audit[x])]
    <3>1. PICK S : S = {x \in DOMAIN attempts :
                           \/ ~Expired(attempts[x].attempted_at, deployed.attempts)
                           \/ attempts[x].status = status_str["Pending"]}
      OBVIOUS
    <3>2. S \subseteq DOMAIN attempts /\ attempts' = [x \in S |-> attempts[x]]
      BY <2>1, <3>1 DEF KeptAttempts, Restrict
    <3> QED
      BY <1>2, <3>2
  <2> QED
    BY <2>1, <2>2, <2>3 DEF AuditInv
<1> QED
  BY <1>3, <1>4, <1>5, <1>6, Touching

---------------------------------------------------------------------------
(* The theorems. *)

(* The inductive invariant holds throughout: every id, row, request and     *)
(* attempt is what its parts say.                                           *)
THEOREM Invariant == Spec => []Inv
<1>1. Init => Inv
  <2> SUFFICES ASSUME Init PROVE Inv
    OBVIOUS
  <2> USE DEF Init
  <2>1. ClockInv
    BY DEF ClockInv, NoSweep, SweepTable
  <2>2. LogInv /\ RowInv
    BY DEF LogInv, RowInv, EmptyMap
  <2>3. IncidentInv
    BY EmptySeq DEF IncidentInv, NoIncident
  <2>4. RequestInv /\ AnswerInv
    BY DEF RequestInv, AnswerInv
  <2>5. AuditInv
    <3>1. DOMAIN audit = {} /\ DOMAIN attempts = {} /\ 1..0 = {}
      BY DEF EmptyMap
    <3>2. audit \in [DOMAIN audit -> Attempt]
      BY DEF EmptyMap
    <3>3. attempts = [id \in DOMAIN attempts |-> attempt_row(audit[id])]
      BY DEF EmptyMap
    <3> QED
      BY <3>1, <3>2, <3>3 DEF AuditInv
  <2>6. StoreInv
    BY EmptyStore DEF StoreInv
  <2>7. FactInv /\ SweptInv
    BY DEF FactInv, SweptInv
  <2> QED
    BY <2>1, <2>2, <2>3, <2>4, <2>5, <2>6, <2>7 DEF Inv
<1>2. Inv /\ [Next]_vars => Inv'
  <2> SUFFICES ASSUME Inv, [Next]_vars PROVE Inv'
    OBVIOUS
  <2>1. /\ ClockInv /\ LogInv /\ RowInv /\ FactInv /\ SweptInv /\ StoreInv
        /\ IncidentInv /\ RequestInv /\ AnswerInv /\ AuditInv
    BY DEF Inv
  <2>2. ClockInv'
    BY <2>1, ClockStep
  <2>3. LogInv' /\ RowInv' /\ Grows
    BY <2>1, ObservedStep
  <2>4. IncidentInv'
    BY <2>1, <2>3, IncidentStep
  <2>5. RequestInv' /\ AnswerInv'
    BY <2>1, <2>3, ApiStep
  <2>6. AuditInv'
    BY <2>1, AuditStep
  <2>7. StoreInv'
    BY <2>1, StoreStep
  <2>8. FactInv' /\ SweptInv'
    BY <2>1, SweptStep
  <2> QED
    BY <2>2, <2>3, <2>4, <2>5, <2>6, <2>7, <2>8 DEF Inv
<1> QED
  BY <1>1, <1>2, PTL DEF Spec

(* The SQLite audit log lists what the memory log lists, but for what was   *)
(* swept, and neither owes a retry, whatever outcomes the sends come to.    *)
THEOREM AuditLogsStayInStep == Spec => []AuditLogsAgree
<1>1. Inv => AuditLogsAgree
  BY LogsAgree DEF Inv
<1> QED
  BY <1>1, Invariant, PTL

(* Every row reads back: under the columns it was stored under, as the      *)
(* observation itself unless the id of its node contains a slash, and       *)
(* unreadable only when a signal's name is too long.                        *)
THEOREM RowsStayReadable == Spec => []RowsReadBack
<1>1. Inv => RowsReadBack
  <2> SUFFICES ASSUME Inv, NEW id \in DOMAIN rows, NEW j \in DOMAIN memory, memory[j].id = id
               PROVE  LET back == row_to_observation(rows[id])
                      IN  /\ \/ readable(rows[id])
                             \/ /\ rows[id].payload.kind = "incident_signal"
                                /\ Len(rows[id].payload.incident_kind) + Len(SignalSuffix)
                                     > MaxNameLen
                          /\ back.subject.kind = rows[id].subject_kind
                          /\ subject_id_str(back.subject) = rows[id].subject_id
                          /\ \/ back = memory[j]
                             \/ /\ back.subject.kind \in Scoped
                                /\ HasSlash(memory[j].subject.node)
    BY DEF RowsReadBack
  <2>1. PICK row, o, back : row = rows[id] /\ o = memory[j] /\ back = row_to_observation(row)
    OBVIOUS
  <2>2. row = to_row(o)
    BY <2>1 DEF Inv, RowInv, LogInv
  <2>3. /\ o = [id |-> o.id, observed_at |-> o.observed_at, subject |-> o.subject,
                origin |-> o.origin, payload |-> o.payload]
        /\ o.subject \in EntityRef /\ WellFormed(o) /\ o.origin \in Origin
    BY <2>1 DEF Inv, LogInv, IsObservation, WellFormed
  <2>4. PICK subject : subject = subject_from_pair(o.subject.kind, subject_id_str(o.subject))
    OBVIOUS
  <2>5. /\ subject.kind = o.subject.kind /\ subject_id_str(subject) = subject_id_str(o.subject)
        /\ subject = o.subject \/ (o.subject.kind \in Scoped /\ HasSlash(o.subject.node))
    BY <2>3, <2>4, SubjectReadsBack
  <2>6. /\ row.subject_kind = o.subject.kind /\ row.subject_id = subject_id_str(o.subject)
        /\ row.payload = o.payload
    BY <2>2 DEF to_row
  <2>7. back = [id |-> o.id, observed_at |-> o.observed_at, subject |-> subject,
                origin |-> o.origin, payload |-> o.payload]
    <3>1. origin_from_str(origin_str(o.origin)) = o.origin
      BY <2>3, OriginReadsBack
    <3> QED
      BY <2>1, <2>2, <2>4, <3>1 DEF row_to_observation, to_row
  <2>8. \/ readable(row)
        \/ /\ row.payload.kind = "incident_signal"
           /\ Len(row.payload.incident_kind) + Len(SignalSuffix) > MaxNameLen
    <3>1. subject # Corrupt
      <4>1. o.subject.kind # "Corruption"
        BY <2>3 DEF EntityRef, Plain, Scoped
      <4> QED
        BY <2>5, <4>1 DEF Corrupt
    <3>2. subject_from_pair(row.subject_kind, row.subject_id) # Corrupt
      BY <2>4, <2>6, <3>1
    <3>3. \/ deserializes(row.payload)
          \/ /\ row.payload.kind = "incident_signal"
             /\ Len(row.payload.incident_kind) + Len(SignalSuffix) > MaxNameLen
      BY <2>3, <2>6, PayloadReadsBack
    <3> QED
      BY <3>2, <3>3 DEF readable
  <2>9. /\ back.subject = subject
        /\ subject = o.subject => back = o
    BY <2>3, <2>7
  <2> QED
    BY <2>1, <2>5, <2>6, <2>8, <2>9
<1> QED
  BY <1>1, Invariant, PTL

(* An evidence answer lists the incident's evidence in order and as it was  *)
(* observed, and leaves out only what is gone, however the sweep and the    *)
(* lookups interleave.                                                      *)
THEOREM EvidenceStaysHonest == Spec => []EvidenceIsHonest
<1>1. Inv => EvidenceIsHonest
  <2> SUFFICES ASSUME Inv, answer # Nothing, answer.path = "evidence", answer.status = 200
               PROVE  /\ IsSubSeq([i \in DOMAIN answer.found |-> answer.found[i].id], answer.asked)
                      /\ \A i \in DOMAIN answer.found : \E j \in DOMAIN memory :
                            ShownAs(answer.found[i], memory[j])
                      /\ \A i \in DOMAIN answer.asked :
                            get_by_id(answer.asked[i]) => \E j \in DOMAIN answer.found :
                                                             answer.found[j].id = answer.asked[i]
    BY DEF EvidenceIsHonest
  <2>1. PICK asked, found : asked = answer.asked /\ found = answer.found
    OBVIOUS
  <2>2. LookedUp(asked, found, Len(asked))
    BY <2>1 DEF Inv, AnswerInv
  <2>3. /\ asked \in Seq(1..issued) /\ DOMAIN asked = 1..Len(asked)
        /\ found \in Seq({Shown(memory[j]) : j \in DOMAIN memory})
        /\ \A i \in 1..Len(asked) :
              get_by_id(asked[i]) => \E j \in DOMAIN found : found[j].id = asked[i]
    BY <2>2 DEF LookedUp
  <2>4. IsSubSeq([i \in DOMAIN found |-> found[i].id], asked)
    <3>1. PICK f \in [DOMAIN found -> 1..Len(asked)] :
              \A i \in DOMAIN found :
                  found[i].id = asked[f[i]] /\ \A j \in DOMAIN found : i < j => f[i] < f[j]
      BY <2>2 DEF LookedUp
    <3>2. PICK ids : ids = [i \in DOMAIN found |-> found[i].id]
      OBVIOUS
    <3>3. DOMAIN ids = DOMAIN found /\ \A i \in DOMAIN found : ids[i] = found[i].id
      BY <3>2
    <3>4. f \in [DOMAIN ids -> DOMAIN asked]
      BY <2>3, <3>3
    <3>5. \A i \in DOMAIN ids :
             ids[i] = asked[f[i]] /\ \A j \in DOMAIN ids : i < j => f[i] < f[j]
      BY <3>1, <3>3
    <3>6. IsSubSeq(ids, asked)
      BY <3>4, <3>5 DEF IsSubSeq
    <3> QED
      BY <3>2, <3>6
  <2>5. ASSUME NEW i \in DOMAIN found
        PROVE  \E j \in DOMAIN memory : ShownAs(found[i], memory[j])
    <3>1. found[i] \in {Shown(memory[j]) : j \in DOMAIN memory}
      BY <2>3
    <3>2. PICK j \in DOMAIN memory : found[i] = Shown(memory[j])
      BY <3>1
    <3>3. memory[j].subject \in EntityRef /\ memory[j].origin \in Origin
      BY DEF Inv, LogInv, IsObservation, WellFormed
    <3> QED
      BY <3>2, <3>3, ShownIsHonest
  <2> QED
    BY <2>1, <2>3, <2>4, <2>5
<1> QED
  BY <1>1, Invariant, PTL

(* The sweep deletes nothing before its age is up by the clock of that      *)
(* moment, and only resolved incidents and completed attempts: the time it  *)
(* goes by is never ahead of the clock.                                     *)
THEOREM SweepIsNeverEarly == Spec => NothingGoesEarly
<1> DEFINE Kept ==
      /\ \A id \in DOMAIN rows \ DOMAIN rows' : Due(rows[id].observed_at, deployed.observations)
      /\ HasRow /\ ~HasRow' =>
            incident.status = "Resolved" /\ Due(incident.resolved_at, deployed.resolved)
      /\ \A id \in DOMAIN attempts \ DOMAIN attempts' :
            /\ attempts[id].status # "Pending"
            /\ Due(attempts[id].attempted_at, deployed.attempts)
<1>1. Inv /\ [Next]_vars => [Kept]_vars
  <2> SUFFICES ASSUME Inv, [Next]_vars PROVE Kept
    OBVIOUS
  <2>1. ASSUME NEW at \in Nat, NEW age \in Age, Expired(at, age) PROVE Due(at, age)
    BY <2>1 DEF Expired, Due, Age, Inv, ClockInv
  <2>2. deployed.observations \in Age /\ deployed.resolved \in Age /\ deployed.attempts \in Age
    BY StorageAssumption DEF Inv, ClockInv, IsDeployment
  <2>3. ASSUME NEW id \in DOMAIN rows \ DOMAIN rows'
        PROVE  Due(rows[id].observed_at, deployed.observations)
    <3>1. rows[id].observed_at \in Nat
      <4>1. PICK j \in DOMAIN memory : rows[id] = to_row(memory[j])
        BY DEF Inv, RowInv
      <4> QED
        BY <4>1 DEF Inv, LogInv, IsObservation, to_row
    <3>2. CASE SweepObservations
      <4>1. Expired(rows[id].observed_at, deployed.observations)
        BY <3>2 DEF SweepObservations, YoungRows, Restrict
      <4> QED
        BY <2>1, <2>2, <3>1, <4>1
    <3>3. CASE ~SweepObservations
      <4>1. DOMAIN rows \subseteq DOMAIN rows'
        BY <3>3, Touching DEF observed, AppendObservation, RecordSignal, Put
      <4> QED
        BY <4>1
    <3> QED
      BY <3>2, <3>3
  <2>4. ASSUME HasRow, ~HasRow'
        PROVE  incident.status = "Resolved" /\ Due(incident.resolved_at, deployed.resolved)
    <3>1. SweepIncidents
      <4>1. incident' # incident
        BY <2>4 DEF HasRow
      <4>2. ~SaveOpened /\ ~SaveResolved
        BY <2>4 DEF HasRow, SaveOpened, SaveResolved, Inv, IncidentInv
      <4> QED
        BY <4>1, <4>2, Touching
    <3>2. OldIncident
      BY <2>4, <3>1 DEF SweepIncidents, HasRow
    <3> QED
      BY <2>1, <2>2, <3>2 DEF OldIncident, Inv, IncidentInv
  <2>5. ASSUME NEW id \in DOMAIN attempts \ DOMAIN attempts'
        PROVE  attempts[id].status # "Pending" /\ Due(attempts[id].attempted_at, deployed.attempts)
    <3>1. attempts[id].attempted_at \in Nat
      <4>1. audit[id] \in Attempt /\ attempts[id] = attempt_row(audit[id])
        BY DEF Inv, AuditInv
      <4> QED
        BY <4>1 DEF attempt_row, Attempt
    <3>2. CASE SweepAttempts
      <4>1. /\ Expired(attempts[id].attempted_at, deployed.attempts)
            /\ attempts[id].status # status_str["Pending"]
        BY <3>2 DEF SweepAttempts, KeptAttempts, Restrict
      <4>2. status_str["Pending"] = "Pending"
        BY DEF status_str
      <4> QED
        BY <2>1, <2>2, <3>1, <4>1, <4>2
    <3>3. CASE ~SweepAttempts
      <4>1. DOMAIN attempts \subseteq DOMAIN attempts'
        BY <3>3, Touching DEF notices, InsertPending, CompleteAttempt, insert_pending, complete,
                              HasAttempt, Insert
      <4> QED
        BY <4>1
    <3> QED
      BY <3>2, <3>3
  <2> QED
    BY <2>3, <2>4, <2>5
<1>2. [][Kept]_vars => NothingGoesEarly
  BY DEF NothingGoesEarly
<1> QED
  BY <1>1, <1>2, Invariant, PTL DEF Spec

(* Whatever order observations arrive in, a query of the latest-value       *)
(* projections is answered with the newest one of its key, and an incident  *)
(* kind has an active signal exactly when its newest signal is Active.      *)
THEOREM ViewsStayLatest == Spec => []ViewsAreLatest
<1>1. Inv => ViewsAreLatest
  <2> SUFFICES ASSUME Inv PROVE ViewsAreLatest
    OBVIOUS
  <2>1. LogInv /\ StoreInv
    BY DEF Inv
  <2>2. ASSUME NEW kind \in Latest
        PROVE  DOMAIN store[kind] = {Key(applied[i]) : i \in OfKind(applied, kind)}
    BY <2>1 DEF StoreInv, StoreOf, ViewOf
  <2>3. ASSUME NEW kind \in Latest, NEW key \in DOMAIN store[kind]
        PROVE  View(kind, key[1], key[2]) = Projected(NewestOf(applied, OfKey(applied, kind, key)))
    <3>1. View(kind, key[1], key[2]) = current(store[kind], key[1], key[2])
      BY ViewIsCurrent
    <3>2. key = <<key[1], key[2]>>
      BY <2>1, AnswersAreNewest
    <3>3. current(store[kind], key[1], key[2]) = store[kind][key]
      BY <3>2 DEF current
    <3> QED
      BY <2>1, <3>1, <3>3, AnswersAreNewest
  <2> QED
    BY <2>1, <2>2, <2>3, ActiveSignals DEF ViewsAreLatest
<1> QED
  BY <1>1, Invariant, PTL

(* The rings hold, in their order, the samples that arrived last, and lack  *)
(* only older ones, for lack of room.                                       *)
THEOREM RingsStayTails == Spec => []RingsAreTails
<1>1. Inv => RingsAreTails
  BY DEF Inv, StoreInv, StoreOf, SeriesOf, RingOf, RingsAreTails
<1> QED
  BY <1>1, Invariant, PTL

(* Asked since a time, a ring yields what it holds that is newer. *)
LEMMA NewerFacts ==
    ASSUME NEW T, NEW ring \in Seq(T), NEW since
    PROVE  AllNewer(newer_than(ring, since), ring, since)
<1>1. PICK len \in Nat : len = Len(ring) /\ DOMAIN ring = 1..len
  BY LenProperties
<1>2. PICK keep : keep = {i \in DOMAIN ring : ring[i].observed_at > since}
  OBVIOUS
<1>3. keep \subseteq 1..len
  BY <1>1, <1>2
<1>4. PICK m, f : PicksOut(ring, keep, m, f)
  BY <1>1, <1>3, FilteredFacts
<1>5. /\ f \in [1..m -> keep]
      /\ Filtered(ring, keep) = [i \in 1..m |-> ring[f[i]]]
      /\ \A k \in keep : \E i \in 1..m : f[i] = k
  BY <1>4 DEF PicksOut
<1>6. PICK samples : samples = newer_than(ring, since)
  OBVIOUS
<1>7. samples = [i \in 1..m |-> ring[f[i]]]
  BY <1>2, <1>5, <1>6 DEF newer_than
<1>8. {samples[j] : j \in DOMAIN samples} = {ring[i] : i \in keep}
  <2>1. DOMAIN samples = 1..m /\ \A j \in 1..m : f[j] \in keep /\ samples[j] = ring[f[j]]
    BY <1>5, <1>7
  <2>2. \A j \in DOMAIN samples : \E i \in keep : samples[j] = ring[i]
    BY <2>1
  <2>3. ASSUME NEW i \in keep PROVE \E j \in DOMAIN samples : samples[j] = ring[i]
    <3>1. PICK j \in 1..m : f[j] = i
      BY <1>5, Zenon
    <3> QED
      BY <2>1, <3>1, Zenon
  <2> QED
    BY <2>2, <2>3
<1> QED
  BY <1>2, <1>6, <1>8 DEF AllNewer

(* The ring of a metric holds a sample, and is found under its key. *)
LEMMA SeriesFacts ==
    ASSUME LogInv, StoreInv, NEW key \in DOMAIN store.metric
    PROVE  /\ series(store.metric, <<key[1], key[2]>>) = store.metric[key]
           /\ store.metric[key] \in Seq(Projections(applied))
           /\ Len(store.metric[key]) > 0
<1>1. SeriesOf(applied, store.metric)
  BY DEF StoreInv, StoreOf
<1>2. PICK ring : ring = store.metric[key]
  OBVIOUS
<1>3. PICK i \in OfKind(applied, "metric") : key = Key(applied[i])
  BY <1>1 DEF SeriesOf
<1>4. key = <<key[1], key[2]>>
  BY <1>3 DEF Key
<1>5. PICK own : own = OfKey(applied, "metric", key)
  OBVIOUS
<1>6. RingOf(applied, ring, own, MetricCapacity) /\ i \in own
  BY <1>1, <1>2, <1>3, <1>5 DEF SeriesOf, OfKey
<1>7. ring \in Seq(Projections(applied))
  BY <1>6 DEF RingOf
<1>8. Len(ring) > 0
  <2>1. Len(ring) \in Nat /\ DOMAIN ring = 1..Len(ring)
    BY <1>7, LenProperties
  <2>2. DOMAIN ring # {} \/ Len(ring) = MetricCapacity
    BY <1>6 DEF RingOf, IsTail
  <2>3. Len(ring) = 0 => DOMAIN ring = {}
    BY <2>1
  <2>4. MetricCapacity \in Nat /\ MetricCapacity # 0
    BY CapacityAssumption
  <2>5. Len(ring) \in Nat
    BY <2>1
  <2> QED
    BY <2>2, <2>3, <2>4, <2>5
<1> QED
  BY <1>2, <1>4, <1>7, <1>8 DEF series

(* unchanged_for is the longest run of equal samples at the end of a ring. *)
LEMMA RunFacts ==
    ASSUME LogInv, StoreInv, NEW key \in DOMAIN store.metric
    PROVE  LET ring == store.metric[key]
               last == latest_metric(store, key[1], key[2])
               run  == unchanged_for(store, key[1], key[2])
           IN  /\ run # <<>> /\ run = LastOf(ring, Len(run))
               /\ \A i \in DOMAIN run : run[i].value.value = last.value.value
               /\ Len(run) < Len(ring) => ring[Len(ring) - Len(run)].value.value # last.value.value
<1>1. PICK ring : ring = store.metric[key]
  OBVIOUS
<1>2. /\ series(store.metric, <<key[1], key[2]>>) = ring
      /\ ring \in Seq(Projections(applied)) /\ Len(ring) > 0
  BY <1>1, SeriesFacts
<1>3. PICK len \in Nat : len = Len(ring) /\ DOMAIN ring = 1..len /\ len > 0
  BY <1>2, LenProperties
<1>4. latest_metric(store, key[1], key[2]) = ring[len]
  BY <1>2, <1>3 DEF latest_metric, latest_of
<1> DEFINE breaks == {i \in 1..Len(ring) : ring[i].value.value # ring[Len(ring)].value.value}
           top    == CHOOSE i \in breaks : \A j \in breaks : j =< i
           from   == IF breaks = {} THEN 1 ELSE 1 + top
<1>5. trailing_run(ring) = SubSeq(ring, from, Len(ring))
  BY Zenon DEF trailing_run
<1>6. /\ breaks \subseteq 0..len /\ len \notin breaks
      /\ \A i \in 1..len : i \in breaks <=> ring[i].value.value # ring[len].value.value
  BY <1>3
<1>7. /\ from \in 1..len
      /\ \A i \in from..len : i \notin breaks
      /\ from # 1 => from - 1 \in breaks
  <2>1. CASE breaks = {}
    BY <1>3, <2>1
  <2>2. CASE breaks # {}
    <3> HIDE DEF breaks
    <3>1. \E i \in breaks : \A j \in breaks : j =< i
      BY <1>3, <1>6, <2>2, GreatestNumber
    <3>2. top \in breaks /\ \A j \in breaks : j =< top
      BY <3>1, Zenon
    <3> HIDE DEF top
    <3>3. top \in 0..len /\ top # len
      BY <1>6, <3>2
    <3>4. from = top + 1
      BY <2>2, <3>3
    <3> HIDE DEF from
    <3>5. \A i \in from..len : i \notin breaks
      BY <3>2, <3>3, <3>4
    <3> QED
      BY <1>3, <3>2, <3>3, <3>4, <3>5
  <2> QED
    BY <2>1, <2>2
<1> HIDE DEF breaks, top, from
<1>8. PICK run : run = unchanged_for(store, key[1], key[2])
  OBVIOUS
<1>9. run = SubSeq(ring, from, len)
  <2>1. ring # <<>>
    BY <1>3
  <2>2. run = trailing_run(ring)
    BY <1>2, <1>8, <2>1 DEF unchanged_for
  <2> QED
    BY <1>3, <1>5, <2>2
<1>10. /\ Len(run) = len - from + 1 /\ DOMAIN run = 1..(len - from + 1)
       /\ \A i \in 1..(len - from + 1) : run[i] = ring[from + i - 1]
  BY <1>2, <1>3, <1>7, <1>9
<1>11. run # <<>>
  BY <1>3, <1>7, <1>10
<1>12. run = LastOf(ring, Len(run))
  <2>1. Len(ring) - Len(run) + 1 = from
    BY <1>3, <1>7, <1>10
  <2> QED
    BY <1>3, <1>9, <2>1 DEF LastOf
<1>13. ASSUME NEW i \in DOMAIN run PROVE run[i].value.value = ring[len].value.value
  <2>1. from + i - 1 \in from..len /\ from + i - 1 \in 1..len /\ run[i] = ring[from + i - 1]
    BY <1>3, <1>7, <1>10
  <2> QED
    BY <1>6, <1>7, <2>1
<1>14. Len(run) < Len(ring) => ring[Len(ring) - Len(run)].value.value # ring[len].value.value
  <2>1. SUFFICES ASSUME Len(run) < Len(ring)
                 PROVE  ring[Len(ring) - Len(run)].value.value # ring[len].value.value
    OBVIOUS
  <2>2. from # 1 /\ Len(ring) - Len(run) = from - 1 /\ from - 1 \in 1..len
    BY <1>3, <1>7, <1>10, <2>1
  <2> QED
    BY <1>6, <1>7, <2>2
<1> QED
  BY <1>1, <1>4, <1>8, <1>11, <1>12, <1>13, <1>14

(* A ring asked since a time yields what it holds that is newer, and        *)
(* unchanged_for the longest run of equal samples at its end.               *)
THEOREM RingsStayAnswering == Spec => []RingsAnswer
<1>1. Inv => RingsAnswer
  <2> SUFFICES ASSUME Inv PROVE RingsAnswer
    OBVIOUS
  <2>1. LogInv /\ StoreInv
    BY DEF Inv
  <2>2. ASSUME NEW key \in DOMAIN store.metric, NEW since
        PROVE  AllNewer(metric_samples_since(store, key[1], key[2], since), store.metric[key], since)
    <3>1. /\ series(store.metric, <<key[1], key[2]>>) = store.metric[key]
          /\ store.metric[key] \in Seq(Projections(applied))
      BY <2>1, SeriesFacts
    <3> QED
      BY <3>1, NewerFacts DEF metric_samples_since
  <2>3. store.heartbeat \in Seq(Projections(applied))
    BY <2>1 DEF StoreInv, StoreOf, RingOf
  <2>4. ASSUME NEW since PROVE AllNewer(heartbeats_since(store, since), store.heartbeat, since)
    BY <2>3, NewerFacts DEF heartbeats_since
  <2>5. store.heartbeat # <<>> =>
            latest_heartbeat(store) = store.heartbeat[Len(store.heartbeat)]
    BY DEF latest_heartbeat, latest_of
  <2> QED
    BY <2>1, <2>2, <2>4, <2>5, RunFacts DEF RingsAnswer
<1> QED
  BY <1>1, Invariant, PTL

(* The typed accessor of a variant answers with the newest state of that    *)
(* variant, and with nothing only when none was observed.                   *)
THEOREM TypedAccessorsStayRight == Spec => []TypedAccessorsAnswer
<1>1. Inv => TypedAccessorsAnswer
  <2> SUFFICES ASSUME Inv, NEW f \in deployed.facts, NEW variant \in TypedVariant
               PROVE  LET own == {i \in OfKind(applied, "state") :
                                     /\ applied[i].payload.variant = variant
                                     /\ applied[i].subject = f.subject}
                      IN  typed_state(store, f.subject, variant) =
                             IF own = {} THEN Nothing ELSE Projected(NewestOf(applied, own))
    BY DEF TypedAccessorsAnswer
  <2>1. LogInv /\ StoreInv
    BY DEF Inv
  <2>2. PICK own : own = {i \in OfKind(applied, "state") : /\ applied[i].payload.variant = variant
                                                           /\ applied[i].subject = f.subject}
    OBVIOUS
  <2>3. PICK key : key = <<f.subject, well_known(variant)>>
    OBVIOUS
  <2>4. ASSUME NEW i \in OfKind(applied, "state")
        PROVE  /\ applied[i].payload.variant \in StateVariant
               /\ Key(applied[i]) = <<applied[i].subject, well_known(applied[i].payload.variant)>>
    <3>1. WellFormed(applied[i]) /\ applied[i].payload.kind = "state"
      BY <2>1 DEF LogInv, IsObservation, OfKind
    <3> QED
      BY <3>1 DEF WellFormed, Key, name_of, state_name
  <2>5. variant \in StateVariant
    BY DEF TypedVariant
  <2>6. own = OfKey(applied, "state", key)
    <3>1. ASSUME NEW i \in OfKind(applied, "state")
          PROVE  Key(applied[i]) = key <=>
                    applied[i].payload.variant = variant /\ applied[i].subject = f.subject
      BY <2>3, <2>4, <2>5, VariantNames
    <3> QED
      BY <2>2, <3>1 DEF OfKey
  <2>7. DOMAIN store.state = {Key(applied[i]) : i \in OfKind(applied, "state")}
    BY <2>1 DEF StoreInv, StoreOf, ViewOf, Latest
  <2>8. latest_state(store, f.subject, well_known(variant)) =
            IF key \in DOMAIN store.state THEN store.state[key] ELSE Nothing
    BY <2>3 DEF latest_state, current
  <2>9. CASE key \notin DOMAIN store.state
    <3>1. own = {}
      BY <2>6, <2>7, <2>9 DEF OfKey
    <3>2. typed_state(store, f.subject, variant) = Nothing
      BY <2>8, <2>9 DEF typed_state, unwrap_state
    <3> QED
      BY <2>2, <3>1, <3>2
  <2>10. CASE key \in DOMAIN store.state
    <3>1. PICK newest : newest = NewestOf(applied, own)
      OBVIOUS
    <3>2. store.state[key] = Projected(newest)
      BY <2>1, <2>6, <2>10, <3>1, AnswersAreNewest DEF Latest
    <3>3. PICK i \in own : newest = applied[i]
      BY <2>1, <2>6, <2>10, <3>1, AnswersAreNewest DEF Latest
    <3>4. Projected(newest).value.variant = variant
      BY <2>2, <3>3 DEF Projected
    <3>5. typed_state(store, f.subject, variant) = Projected(newest)
      BY <2>8, <2>10, <3>2, <3>4 DEF typed_state, unwrap_state
    <3> QED
      BY <2>2, <3>1, <3>3, <3>5
  <2> QED
    BY <2>9, <2>10
<1> QED
  BY <1>1, Invariant, PTL

(* What a stream of the whole table holds: the rows, each of them. *)
LEMMA StreamFacts ==
    ASSUME ClockInv, LogInv, RowInv, NEW stream \in iter_since(0)
    PROVE  /\ \E len \in Nat : DOMAIN stream = 1..len
           /\ \A i \in DOMAIN stream : \E j \in DOMAIN memory :
                 memory[j].id \in DOMAIN rows /\ stream[i] = to_row(memory[j])
           /\ \A j \in DOMAIN memory : memory[j].id \in DOMAIN rows =>
                 \E i \in DOMAIN stream : stream[i] = to_row(memory[j])
<1>1. PICK T : T = {rows[id] : id \in {x \in DOMAIN rows : rows[x].observed_at >= 0}}
  OBVIOUS
<1>2. T = {rows[id] : id \in DOMAIN rows}
  <2>1. \A x \in DOMAIN rows : rows[x].observed_at >= 0
    BY RowTimes
  <2> QED
    BY <1>1, <2>1
<1>3. IsFiniteSet(T)
  <2>1. IsFiniteSet(1..issued)
    BY FS_Interval DEF ClockInv
  <2>2. IsFiniteSet(DOMAIN rows)
    BY <2>1, FS_Subset DEF RowInv
  <2>3. PICK f : f = [id \in DOMAIN rows |-> rows[id]]
    OBVIOUS
  <2>4. f \in Surjection(DOMAIN rows, T)
    BY <1>2, <2>3 DEF Surjection
  <2> QED
    BY <2>2, <2>4, FS_Surjection
<1>4. Cardinality(T) \in Nat
  BY <1>3, FS_CardinalityType
<1>5. /\ stream \in [1..Cardinality(T) -> T]
      /\ \A x \in T : \E i \in DOMAIN stream : stream[i] = x
  BY <1>1 DEF iter_since, Orders, Orderings
<1>6. DOMAIN stream = 1..Cardinality(T)
  BY <1>5
<1>7. ASSUME NEW i \in DOMAIN stream
      PROVE  \E j \in DOMAIN memory : memory[j].id \in DOMAIN rows /\ stream[i] = to_row(memory[j])
  <2>1. PICK id \in DOMAIN rows : stream[i] = rows[id]
    BY <1>2, <1>5
  <2> QED
    BY <2>1 DEF RowInv
<1>8. ASSUME NEW j \in DOMAIN memory, memory[j].id \in DOMAIN rows
      PROVE  \E i \in DOMAIN stream : stream[i] = to_row(memory[j])
  <2>1. rows[memory[j].id] = to_row(memory[j])
    BY <1>8, RowTimes
  <2>2. rows[memory[j].id] \in T
    BY <1>2, <1>8
  <2> QED
    BY <1>5, <2>1, <2>2
<1> QED
  BY <1>4, <1>6, <1>7, <1>8

(* Read back, an observation has its payload and its time, and the key it   *)
(* is filed under tells its own key.                                        *)
Back(o) == row_to_observation(to_row(o))

LEMMA BackFacts ==
    ASSUME NEW o
    PROVE  /\ Back(o).payload = o.payload /\ Back(o).observed_at = o.observed_at
           /\ Key(Back(o)) = <<read_back(o.subject), name_of(o.payload)>>
  BY DEF Back, row_to_observation, to_row, Key, read_back

LEMMA KeysStayApart ==
    ASSUME FactInv, SubjectsStayApart, NEW i \in DOMAIN memory, NEW j \in DOMAIN memory
    PROVE  Key(Back(memory[i])) = Key(Back(memory[j])) <=> Key(memory[i]) = Key(memory[j])
<1>1. PICK f \in deployed.facts : memory[i].subject = f.subject
  BY DEF FactInv
<1>2. PICK g \in deployed.facts : memory[j].subject = g.subject
  BY DEF FactInv
<1>3. read_back(memory[i].subject) = read_back(memory[j].subject) <=>
          memory[i].subject = memory[j].subject
  BY <1>1, <1>2 DEF SubjectsStayApart
<1>4. /\ Key(Back(memory[i])) = <<read_back(memory[i].subject), name_of(memory[i].payload)>>
      /\ Key(Back(memory[j])) = <<read_back(memory[j].subject), name_of(memory[j].payload)>>
  BY BackFacts
<1> QED
  BY <1>3, <1>4 DEF Key

(* A replay of whatever the sweep has left, in whatever order SQLite yields *)
(* it, shows of no key an older observation than the newest one stored.     *)
THEOREM ReplayStaysCurrent == Spec => []ReplayIsCurrent
<1>1. Inv => ReplayIsCurrent
  <2> SUFFICES ASSUME Inv, AgeCoversLag, SubjectsStayApart, NEW stream \in iter_since(0),
                      NEW kind \in Latest, NEW i \in OfKind(memory, kind)
               PROVE  LET replayed == Replay([n \in DOMAIN stream |-> row_to_observation(stream[n])])
                          obs      == row_to_observation(to_row(memory[i]))
                          newest   == NewestOf(memory, OfKey(memory, kind, Key(memory[i])))
                      IN  IF Key(obs) \in DOMAIN replayed[kind]
                            THEN replayed[kind][Key(obs)].observed_at = newest.observed_at
                            ELSE ~get_by_id(memory[i].id)
    BY DEF ReplayIsCurrent
  <2>1. ClockInv /\ LogInv /\ RowInv /\ FactInv /\ SweptInv
    BY DEF Inv
  <2>2. PICK log : log = [n \in DOMAIN stream |-> row_to_observation(stream[n])]
    OBVIOUS
  <2>3. PICK len \in Nat : DOMAIN stream = 1..len
    BY <2>1, StreamFacts
  <2>4. ASSUME NEW n \in 1..len
        PROVE  \E j \in DOMAIN memory : memory[j].id \in DOMAIN rows /\ log[n] = Back(memory[j])
    BY <2>1, <2>2, <2>3, StreamFacts DEF Back
  <2>5. ASSUME NEW j \in DOMAIN memory, memory[j].id \in DOMAIN rows
        PROVE  \E n \in 1..len : log[n] = Back(memory[j])
    BY <2>1, <2>2, <2>3, <2>5, StreamFacts DEF Back
  <2>6. PICK st : st = Replay(log)
    OBVIOUS
  <2>7. ViewOf(log, kind, st[kind])
    <3>1. log = [n \in 1..len |-> log[n]] /\ DOMAIN log = 1..len
      BY <2>2, <2>3
    <3>2. Len(log) = len
      BY <3>1
    <3>3. ASSUME NEW n \in 1..len PROVE log[n].observed_at \in Nat
      <4>1. PICK j \in DOMAIN memory : log[n] = Back(memory[j])
        BY <2>4
      <4>2. memory[j].observed_at \in Nat
        BY <2>1 DEF LogInv, IsObservation
      <4> QED
        BY <4>1, <4>2, BackFacts
    <3>4. StoreOf(log, st)
      BY <2>6, <3>1, <3>2, <3>3, ReplayIsStore
    <3> QED
      BY <3>4 DEF StoreOf
  <2>8. DOMAIN log = 1..len
    BY <2>2, <2>3
  <2>9. PICK key : key = Key(Back(memory[i]))
    OBVIOUS
  <2>10. PICK own : own = OfKey(memory, kind, Key(memory[i]))
    OBVIOUS
  <2>11. i \in own /\ own \subseteq DOMAIN memory
    BY <2>10 DEF OfKey, OfKind
  <2>12. PICK c \in own : IsNewest(memory, own, c) /\ NewestOf(memory, own) = memory[c]
    <3>1. own \subseteq Nat /\ own # {}
      BY <2>1, <2>11 DEF LogInv
    <3>2. \A j \in own : memory[j].observed_at \in 0..now /\ memory[j].observed_at \in Nat
      BY <2>1, <2>11 DEF LogInv, IsObservation, FactInv, ClockInv
    <3>3. now \in Nat
      BY <2>1 DEF ClockInv
    <3>4. PICK c \in own : IsNewest(memory, own, c)
      BY <3>1, <3>2, <3>3, NewestExists
    <3> QED
      BY <3>1, <3>2, <3>4, NewestIsUnique
  <2>13. ASSUME NEW j \in own
         PROVE  /\ memory[j].observed_at \in Nat /\ memory[c].observed_at \in Nat
                /\ memory[j].observed_at =< memory[c].observed_at
    BY <2>1, <2>11, <2>12 DEF IsNewest, LogInv, IsObservation
  <2>14. ASSUME NEW j \in DOMAIN memory, NEW n \in 1..len, log[n] = Back(memory[j])
         PROVE  n \in OfKey(log, kind, key) <=> j \in own
    <3>1. /\ log[n].payload.kind = memory[j].payload.kind
          /\ Key(log[n]) = key <=> Key(memory[j]) = Key(memory[i])
      BY <2>1, <2>9, <2>11, <2>14, BackFacts, KeysStayApart
    <3> QED
      BY <2>8, <2>10, <3>1 DEF OfKey, OfKind
  <2>15. ASSUME key \in DOMAIN st[kind]
         PROVE  st[kind][key].observed_at = memory[c].observed_at
    <3>1. PICK n \in OfKey(log, kind, key) :
              st[kind][key] = Projected(log[n]) /\ IsNewest(log, OfKey(log, kind, key), n)
      BY <2>7, <2>15 DEF ViewOf
    <3>2. n \in 1..len
      BY <2>8, <3>1 DEF OfKey, OfKind
    <3>3. PICK j \in DOMAIN memory : memory[j].id \in DOMAIN rows /\ log[n] = Back(memory[j])
      BY <2>4, <3>2
    <3>4. j \in own
      BY <2>14, <3>1, <3>2, <3>3
    <3>5. st[kind][key].observed_at = memory[j].observed_at
      BY <3>1, <3>3, BackFacts DEF Projected
    <3>6. memory[c].id \in DOMAIN rows
      <4>1. SUFFICES ASSUME memory[c].id \notin DOMAIN rows PROVE FALSE
        OBVIOUS
      <4>2. memory[c].observed_at < rows[memory[j].id].observed_at
        BY <2>1, <2>11, <3>3, <4>1 DEF SweptInv
      <4>3. rows[memory[j].id] = to_row(memory[j])
        BY <2>1, <3>3, RowTimes
      <4>4. rows[memory[j].id].observed_at = memory[j].observed_at
        BY <4>3 DEF to_row
      <4> QED
        BY <2>13, <3>4, <4>2, <4>4
    <3>7. PICK m \in 1..len : log[m] = Back(memory[c])
      BY <2>5, <2>11, <3>6
    <3>8. m \in OfKey(log, kind, key)
      BY <2>11, <2>14, <3>7
    <3>9. memory[c].observed_at =< memory[j].observed_at
      <4>1. log[m].observed_at = memory[c].observed_at /\ log[n].observed_at = memory[j].observed_at
        BY <3>3, <3>7, BackFacts
      <4> QED
        BY <2>13, <3>1, <3>4, <3>8, <4>1 DEF IsNewest
    <3> QED
      BY <2>13, <3>4, <3>5, <3>9
  <2>16. ASSUME key \notin DOMAIN st[kind], memory[i].id \in DOMAIN rows PROVE FALSE
    <3>1. PICK n \in 1..len : log[n] = Back(memory[i])
      BY <2>5, <2>11, <2>16
    <3>2. n \in OfKey(log, kind, key)
      BY <2>11, <2>14, <3>1
    <3> QED
      BY <2>7, <2>16, <3>2 DEF ViewOf, OfKey
  <2> QED
    BY <2>2, <2>6, <2>9, <2>10, <2>12, <2>15, <2>16 DEF get_by_id, Back
<1> QED
  BY <1>1, Invariant, PTL

(* The memory store has a stable sort of what it holds since a time. *)
Snapshot(since) == {memory[i] : i \in {j \in DOMAIN memory : memory[j].observed_at >= since}}

(* One observation goes before another: by its time, and then by arrival. *)
Earlier(o, p) ==
    \/ o.observed_at < p.observed_at
    \/ o.observed_at = p.observed_at /\ o.id < p.id

LEMMA SnapshotFacts ==
    ASSUME LogInv, NEW since
    PROVE  /\ IsFiniteSet(Snapshot(since))
           /\ \A o \in Snapshot(since) :
                 /\ o.observed_at \in Nat /\ o.id \in Nat
                 /\ \E j \in DOMAIN memory : o = memory[j] /\ memory[j].observed_at >= since
           /\ \A o, p \in Snapshot(since) : o.id = p.id => o = p
<1>1. PICK S : S = Snapshot(since)
  OBVIOUS
<1>2. PICK own : own = {j \in DOMAIN memory : memory[j].observed_at >= since}
  OBVIOUS
<1>3. S = {memory[i] : i \in own}
  BY <1>1, <1>2 DEF Snapshot
<1>4. IsFiniteSet(S)
  <2>1. IsFiniteSet(1..Len(memory)) /\ DOMAIN memory = 1..Len(memory)
    BY FS_Interval DEF LogInv
  <2>2. IsFiniteSet(own)
    BY <1>2, <2>1, FS_Subset
  <2>3. PICK f : f = [i \in own |-> memory[i]]
    OBVIOUS
  <2>4. f \in Surjection(own, S)
    BY <1>3, <2>3 DEF Surjection
  <2> QED
    BY <2>2, <2>4, FS_Surjection
<1>5. ASSUME NEW o \in S
      PROVE  /\ o.observed_at \in Nat /\ o.id \in Nat
             /\ \E j \in DOMAIN memory : o = memory[j] /\ memory[j].observed_at >= since
  <2>1. PICK j \in own : o = memory[j]
    BY <1>3
  <2>2. j \in DOMAIN memory /\ memory[j].observed_at >= since
    BY <1>2
  <2>3. memory[j].observed_at \in Nat /\ memory[j].id \in Nat
    BY <2>2 DEF LogInv, IsObservation
  <2> QED
    BY <2>1, <2>2, <2>3
<1>6. ASSUME NEW o \in S, NEW p \in S, o.id = p.id PROVE o = p
  <2>1. PICK i \in DOMAIN memory : o = memory[i]
    BY <1>5
  <2>2. PICK j \in DOMAIN memory : p = memory[j]
    BY <1>5
  <2>3. i = j
    BY <1>6, <2>1, <2>2 DEF LogInv
  <2> QED
    BY <2>1, <2>2, <2>3
<1> QED
  BY <1>1, <1>4, <1>5, <1>6

LEMMA MemoryStream ==
    ASSUME LogInv, NEW since
    PROVE  /\ Cardinality(Snapshot(since)) \in Nat
           /\ memory_iter_since(since) \in Orders(Snapshot(since))
<1>1. PICK S : S = Snapshot(since)
  OBVIOUS
<1>2. PICK n : n = Cardinality(S)
  OBVIOUS
<1>3. /\ IsFiniteSet(S)
      /\ \A o \in S : o.observed_at \in Nat /\ o.id \in Nat
      /\ \A o, p \in S : o.id = p.id => o = p
  BY <1>1, SnapshotFacts
<1>4. PICK R : R = {p \in S \X S : Earlier(p[1], p[2])}
  OBVIOUS
<1>5. \A o, p \in S : <<o, p>> \in R <=> Earlier(o, p)
  BY <1>4
<1>6. \A o \in S : <<o, o>> \notin R
  BY <1>3, <1>5 DEF Earlier
<1>7. \A o, p, q \in S : <<o, p>> \in R /\ <<p, q>> \in R => <<o, q>> \in R
  BY <1>3, <1>5 DEF Earlier
<1>8. ASSUME NEW o \in S, NEW p \in S PROVE o = p \/ <<o, p>> \in R \/ <<p, o>> \in R
  <2>1. o.observed_at \in Nat /\ p.observed_at \in Nat /\ o.id \in Nat /\ p.id \in Nat
    BY <1>3
  <2>2. o.id = p.id \/ Earlier(o, p) \/ Earlier(p, o)
    BY <2>1 DEF Earlier
  <2> QED
    BY <1>3, <1>5, <2>2
<1>9. n \in Nat
  BY <1>2, <1>3, FS_CardinalityType
<1>10. PICK f \in [1..n -> S] :
           /\ \A o \in S : \E i \in 1..n : f[i] = o
           /\ \A i, j \in 1..n : i < j => <<f[i], f[j]>> \in R
  BY <1>2, <1>3, <1>6, <1>7, <1>8, Ranking
<1>11. ASSUME NEW i \in 1..n, NEW j \in 1..n, i < j
       PROVE  /\ f[i].observed_at =< f[j].observed_at
              /\ f[i].observed_at = f[j].observed_at => f[i].id < f[j].id
  <2>1. f[i] \in S /\ f[j] \in S /\ <<f[i], f[j]>> \in R
    BY <1>10, <1>11
  <2>2. Earlier(f[i], f[j])
    BY <1>5, <2>1
  <2> QED
    BY <1>3, <2>1, <2>2 DEF Earlier
<1>12. DOMAIN f = 1..n
  BY <1>10
<1>13. f \in Orders(S)
  BY <1>2, <1>10, <1>11, <1>12 DEF Orders, Orderings
<1> DEFINE Stable(s) == \A i, j \in DOMAIN s :
                           i < j /\ s[i].observed_at = s[j].observed_at => s[i].id < s[j].id
<1>14. Stable(f)
  BY <1>11, <1>12
<1>15. memory_iter_since(since) = CHOOSE s \in Orders(S) : Stable(s)
  BY <1>1, Zenon DEF memory_iter_since, Snapshot
<1> HIDE DEF Stable
<1>16. memory_iter_since(since) \in Orders(S)
  BY <1>13, <1>14, <1>15, Zenon
<1> QED
  BY <1>1, <1>2, <1>9, <1>16

(* SQLite streams, from any time on, what the memory store streams and the  *)
(* sweep has left, in an order it may choose.                               *)
LEMMA StreamsFacts ==
    ASSUME ClockInv, LogInv, RowInv, NEW since
    PROVE  LET stream == memory_iter_since(since)
               kept   == Filtered(stream, {i \in DOMAIN stream : get_by_id(stream[i].id)})
           IN  [i \in DOMAIN kept |-> to_row(kept[i])] \in iter_since(since)
<1>1. PICK S : S = Snapshot(since)
  OBVIOUS
<1>2. PICK n \in Nat : n = Cardinality(S)
  BY <1>1, MemoryStream
<1>3. PICK stream : stream = memory_iter_since(since)
  OBVIOUS
<1>4. /\ stream \in [1..n -> S] /\ DOMAIN stream = 1..n
      /\ \A o \in S : \E i \in 1..n : stream[i] = o
      /\ \A i, j \in 1..n : i < j => stream[i].observed_at =< stream[j].observed_at
  <2>1. stream \in Orders(S)
    BY <1>1, <1>3, MemoryStream
  <2> QED
    BY <1>2, <2>1 DEF Orders, Orderings
<1>5. ASSUME NEW i \in 1..n, NEW j \in 1..n, stream[i] = stream[j] PROVE i = j
  <2>1. stream \in Surjection(1..n, S)
    BY <1>4 DEF Surjection
  <2>2. IsFiniteSet(1..n) /\ Cardinality(1..n) = n
    BY <1>2, FS_Interval
  <2>3. stream \in Injection(1..n, S)
    BY <1>2, <2>1, <2>2, FS_SurjSameCardinalityImpliesInj
  <2> QED
    BY <1>4, <1>5, <2>3 DEF Injection, IsInjective
<1>6. PICK keep : keep = {i \in DOMAIN stream : get_by_id(stream[i].id)}
  OBVIOUS
<1>7. keep \subseteq 1..n /\ \A i \in 1..n : i \in keep <=> stream[i].id \in DOMAIN rows
  BY <1>4, <1>6 DEF get_by_id
<1>8. PICK kept : kept = Filtered(stream, keep)
  OBVIOUS
<1>9. PICK m, f : PicksOut(stream, keep, m, f)
  BY <1>2, <1>7, FilteredFacts
<1>10. /\ m \in Nat /\ f \in [1..m -> keep]
       /\ kept = [i \in 1..m |-> stream[f[i]]]
       /\ \A i, j \in 1..m : i < j => f[i] < f[j]
       /\ \A k \in keep : \E i \in 1..m : f[i] = k
  BY <1>8, <1>9 DEF PicksOut
<1>11. PICK g : g = [i \in DOMAIN kept |-> to_row(kept[i])]
  OBVIOUS
<1>12. PICK T : T = {rows[id] : id \in {x \in DOMAIN rows : rows[x].observed_at >= since}}
  OBVIOUS
<1>13. DOMAIN g = 1..m /\ \A i \in 1..m : g[i] = to_row(stream[f[i]])
  BY <1>10, <1>11
<1>14. ASSUME NEW i \in 1..m
       PROVE  /\ f[i] \in 1..n /\ f[i] \in keep /\ stream[f[i]] \in S
              /\ g[i].id = stream[f[i]].id /\ g[i].observed_at = stream[f[i]].observed_at
  <2>1. f[i] \in keep
    BY <1>10, Zenon
  <2>2. f[i] \in 1..n
    BY <1>7, <2>1, Zenon
  <2>3. stream[f[i]] \in S
    BY <1>4, <2>2
  <2>4. g[i] = to_row(stream[f[i]])
    BY <1>13
  <2> QED
    BY <2>1, <2>2, <2>3, <2>4 DEF to_row
<1>15. ASSUME NEW i \in 1..m PROVE g[i] \in T
  <2>1. PICK o : o = stream[f[i]]
    OBVIOUS
  <2>2. o \in S /\ o.id \in DOMAIN rows /\ g[i] = to_row(o)
    BY <1>7, <1>13, <1>14, <2>1
  <2>3. PICK j \in DOMAIN memory : o = memory[j] /\ memory[j].observed_at >= since
    BY <1>1, <2>2, SnapshotFacts
  <2>4. rows[o.id] = to_row(o)
    BY <2>2, <2>3, RowTimes
  <2>5. rows[o.id].observed_at >= since
    BY <2>3, <2>4 DEF to_row
  <2> QED
    BY <1>12, <2>2, <2>4, <2>5
<1>16. ASSUME NEW r \in T PROVE \E i \in 1..m : g[i] = r
  <2>1. PICK id \in DOMAIN rows : rows[id].observed_at >= since /\ r = rows[id]
    BY <1>12
  <2>2. PICK j \in DOMAIN memory : memory[j].id = id /\ rows[id] = to_row(memory[j])
    BY DEF RowInv
  <2>3. memory[j].observed_at >= since
    BY <2>1, <2>2 DEF to_row
  <2>4. memory[j] \in S
    BY <1>1, <2>3 DEF Snapshot
  <2>5. PICK k \in 1..n : stream[k] = memory[j]
    BY <1>4, <2>4
  <2>6. k \in keep
    BY <1>7, <2>2, <2>5
  <2>7. PICK i \in 1..m : f[i] = k
    BY <1>10, <2>6, Zenon
  <2>8. g[i] = to_row(stream[f[i]])
    BY <1>13
  <2> QED
    BY <2>1, <2>2, <2>5, <2>7, <2>8
<1>17. ASSUME NEW i \in 1..m, NEW j \in 1..m, g[i] = g[j] PROVE i = j
  <2>1. stream[f[i]].id = stream[f[j]].id
    BY <1>14, <1>17
  <2>2. stream[f[i]] = stream[f[j]]
    BY <1>1, <1>14, <2>1, SnapshotFacts
  <2>3. f[i] = f[j] /\ f[i] \in Nat
    BY <1>5, <1>14, <2>2
  <2>4. i < j => f[i] < f[j]
    BY <1>10, Zenon
  <2>5. j < i => f[j] < f[i]
    BY <1>10, Zenon
  <2>6. ~(f[i] < f[j]) /\ ~(f[j] < f[i])
    BY <2>3
  <2>7. m \in Nat
    BY <1>10
  <2> QED
    BY <2>4, <2>5, <2>6, <2>7
<1>18. g \in [1..m -> T]
  BY <1>11, <1>13, <1>15
<1>19. Cardinality(T) = m
  <2>1. IsFiniteSet(1..m) /\ Cardinality(1..m) = m
    BY <1>10, FS_Interval
  <2>2. g \in Surjection(1..m, T)
    BY <1>16, <1>18 DEF Surjection
  <2>3. g \in Injection(1..m, T)
    BY <1>17, <1>18 DEF Injection, IsInjective
  <2> QED
    BY <2>1, <2>2, <2>3, FS_Surjection
<1>20. ASSUME NEW i \in 1..m, NEW j \in 1..m, i < j PROVE g[i].observed_at =< g[j].observed_at
  <2>1. f[i] < f[j]
    BY <1>10, <1>20, Zenon
  <2>2. f[i] \in 1..n /\ f[j] \in 1..n
    BY <1>14
  <2>3. stream[f[i]].observed_at =< stream[f[j]].observed_at
    BY <1>4, <2>1, <2>2, Zenon
  <2> QED
    BY <1>14, <2>3
<1>21. g \in Orders(T)
  BY <1>13, <1>16, <1>18, <1>19, <1>20 DEF Orders, Orderings
<1>22. g \in iter_since(since)
  BY <1>12, <1>21 DEF iter_since
<1> QED
  BY <1>3, <1>6, <1>8, <1>11, <1>22

(* SQLite and the memory store stream the same observations from any time   *)
(* on, but for those swept.                                                 *)
THEOREM StreamsStayAlike == Spec => []StreamsAgree
<1>1. Inv => StreamsAgree
  <2> SUFFICES ASSUME Inv, NEW since \in Time
               PROVE  LET stream == memory_iter_since(since)
                          kept   == Filtered(stream, {i \in DOMAIN stream : get_by_id(stream[i].id)})
                      IN  [i \in DOMAIN kept |-> to_row(kept[i])] \in iter_since(since)
    BY DEF StreamsAgree
  <2>1. ClockInv /\ LogInv /\ RowInv
    BY DEF Inv
  <2> QED
    BY <2>1, StreamsFacts
<1> QED
  BY <1>1, Invariant, PTL

(* The read models hold what was observed: every view the newest of its key,*)
(* every ring the last to arrive and what is asked of it, every typed       *)
(* accessor its variant's state.                                            *)
THEOREM ReadModelsStayRight == Spec => []ReadModelsAnswer
<1>1. ViewsAreLatest /\ RingsAreTails /\ RingsAnswer /\ TypedAccessorsAnswer => ReadModelsAnswer
  BY DEF ReadModelsAnswer
<1> QED
  BY <1>1, ViewsStayLatest, RingsStayTails, RingsStayAnswering, TypedAccessorsStayRight, PTL

(* The SQLite store holds what the memory store holds, but for what was     *)
(* swept: it streams the same, its rows read back, and a replay of them is  *)
(* current.                                                                 *)
THEOREM StoresStayInStep == Spec => []StoresAgree
<1>1. StreamsAgree /\ ReplayIsCurrent /\ RowsReadBack => StoresAgree
  BY DEF StoresAgree
<1> QED
  BY <1>1, StreamsStayAlike, ReplayStaysCurrent, RowsStayReadable, PTL
=============================================================================
