------------------------ MODULE IncidentEngineProofs ------------------------
(***************************************************************************)
(* Proofs about IncidentEngine, for every set of fingerprints, every floor *)
(* and every bound.  The inductive invariant Inv relates the three places  *)
(* an incident can be in: the map, the event at hand (cur) and its row.    *)
(***************************************************************************)
EXTENDS IncidentEngine, TLAPS

(* The event at hand has not been saved yet. *)
Unwritten == pc \in {"record", "save"} /\ cur # NoIncident

(* Row r is an earlier state of incident m, and not a resolved one. *)
Precedes(r, m) ==
    /\ r.fingerprint = m.fingerprint
    /\ r.status = "Open"
    /\ severity_rank(r.severity) <= severity_rank(m.severity)
    /\ r.signals \subseteq m.signals

(* What pc, cur, life and mode say together. *)
ControlInv ==
    /\ mode # "up" => pc = "idle" /\ open = [f \in Fingerprint |-> NoIncident]
    /\ pc = "idle" => cur = NoIncident /\ life = "none"
    /\ cur = NoIncident => life = "none" /\ pc \in {"idle", "record"}
    /\ pc = "announce" => life # "none"
    /\ pc = "record" => sig \in Signal

(* The map: keyed by fingerprint, open incidents only, allocated ids, and    *)
(* no incident under two keys.                                               *)
MapInv ==
    \A f \in Fingerprint : open[f] # NoIncident =>
        /\ open[f].fingerprint = f
        /\ open[f].status = "Open"
        /\ open[f].id < nextId

(* The rows are filed under their own allocated id. *)
RowInv ==
    \A i \in Id : repo[i] # NoIncident => repo[i].id = i /\ i < nextId

(* No incident sits under two keys of the map. *)
KeyInv ==
    \A f, g \in Fingerprint :
        open[f] # NoIncident /\ open[g] # NoIncident /\ open[f].id = open[g].id => f = g

(* The event at hand is the map's entry, or the entry just removed from it. *)
CurInv ==
    cur # NoIncident =>
        /\ cur.id < nextId
        /\ life = "Resolved" <=> cur.status = "Resolved"
        /\ cur.status = "Open" => open[cur.fingerprint] = cur
        /\ cur.status = "Resolved" =>
              /\ open[cur.fingerprint] = NoIncident
              /\ \A f \in Fingerprint : open[f] # NoIncident => open[f].id # cur.id

(* Memory is ahead of the rows, never behind or beside them. *)
AheadInv ==
    /\ \A f \in Fingerprint :
          open[f] # NoIncident /\ repo[open[f].id] # NoIncident =>
              Precedes(repo[open[f].id], open[f])
    /\ Unwritten /\ repo[cur.id] # NoIncident => Precedes(repo[cur.id], cur)

(* What is in memory is in its row, unless it is about to be written or its  *)
(* save was given up; and an open row is in memory under the same conditions. *)
SyncInv ==
    /\ \A f \in Fingerprint : open[f] # NoIncident =>
          \/ repo[open[f].id] = open[f]
          \/ open[f].id \in unsaved
          \/ Unwritten /\ cur = open[f]
    /\ mode = "up" => \A i \in Id : IsOpenRow(i) =>
          \/ i \in unsaved
          \/ open[repo[i].fingerprint] # NoIncident /\ open[repo[i].fingerprint].id = i
          \/ Unwritten /\ cur.id = i /\ cur.status = "Resolved"

(* The signals memory cites are recorded, or the one at hand. *)
SignalInv ==
    LET Known == store \cup lost \cup (IF pc = "record" THEN {sig} ELSE {})
    IN  /\ EvidenceRecorded
        /\ \A f \in Fingerprint : open[f] # NoIncident => open[f].signals \subseteq Known
        /\ cur # NoIncident => cur.signals \subseteq Known

(* Announcements: of allocated incidents, durable, and older than the one    *)
(* at hand; the one about to be made is durable already.                     *)
AnnounceInv ==
    /\ \A a \in announced : a.id < nextId
    /\ AnnouncedIsDurable
    /\ pc = "announce" /\ cur.id \notin exhausted => repo[cur.id] = cur
    /\ cur # NoIncident /\ cur.id \notin exhausted =>
          \A a \in announced : a.id = cur.id =>
              /\ a.kind # "Resolved"
              /\ life \in {"Opened", "Escalated"} =>
                    severity_rank(a.severity) < severity_rank(cur.severity)

UnsavedInv == unsaved \subseteq exhausted

Inv ==
    /\ TypeOK /\ ControlInv /\ MapInv /\ RowInv /\ KeyInv /\ CurInv /\ AheadInv
    /\ SyncInv /\ OneOpenRowPerFingerprint /\ SignalInv /\ UnsavedInv /\ AnnounceInv

-----------------------------------------------------------------------------
(* Severity ranks are numbers, and max_severity is an upper bound of both. *)
LEMMA RankFacts ==
    /\ \A s \in Severity : severity_rank(s) \in 0..2
    /\ \A a, b \in Severity :
          /\ max_severity(a, b) \in Severity
          /\ severity_rank(a) <= severity_rank(max_severity(a, b))
          /\ severity_rank(b) <= severity_rank(max_severity(a, b))
BY DEF Severity, severity_rank, max_severity

(* What a draft needs to be handled, and what emitting its events sets. *)
LEMMA EmitFacts ==
    ASSUME NEW inc, NEW kind, TypeOK, Emit(inc, kind)
    PROVE  /\ mode = "up" /\ pc = "idle" /\ mode' = mode
           /\ nextSig \in Signal
           /\ pc' = "record" /\ sig' = nextSig /\ tries' = 0
           /\ nextSig' \in 1..(MaxSignals + 1)
           /\ cur' = inc /\ life' = kind
           /\ UNCHANGED <<repo, store, lost, unsaved, exhausted, announced>>
BY EngineAssumption DEF Emit, TypeOK, Signal, durable, history

(* What handling an Active draft with an open incident sets: the same incident *)
(* at its highest severity, and Escalated exactly when the severity rose.      *)
LEMMA TouchedFacts ==
    ASSUME NEW d \in Draft, TypeOK, MapInv, TouchIncident(d)
    PROVE  LET f == d.fingerprint IN
           /\ f \in Fingerprint
           /\ open[f] \in Incident
           /\ cur' \in Incident
           /\ cur'.id = open[f].id
           /\ cur'.fingerprint = f
           /\ cur'.status = "Open"
           /\ cur'.signals = open[f].signals \cup {nextSig}
           /\ severity_rank(open[f].severity) <= severity_rank(cur'.severity)
           /\ life' \in {"none", "Escalated"}
           /\ life' = "Escalated" =>
                severity_rank(open[f].severity) < severity_rank(cur'.severity)
           /\ open' = [open EXCEPT ![f] = cur']
           /\ nextId' = nextId
<1> DEFINE f == d.fingerprint
           touched == [open[f] EXCEPT
                        !.severity = max_severity(open[f].severity, d.severity),
                        !.signals  = @ \cup {nextSig}]
           kind == IF severity_rank(touched.severity) > severity_rank(open[f].severity)
                   THEN "Escalated" ELSE "none"
<1>1. f \in Fingerprint /\ d.severity \in Severity
  BY DEF Draft
<1>2. open[f] \in Incident /\ open[f] # NoIncident /\ Emit(touched, kind)
      /\ open' = [open EXCEPT ![f] = touched] /\ nextId' = nextId
  BY <1>1 DEF TouchIncident, TypeOK
<1>3. nextSig \in Signal /\ cur' = touched /\ life' = kind
  <2> HIDE DEF touched, kind
  <2> QED BY <1>2, EmitFacts
<1>4. /\ touched \in Incident
      /\ touched.id = open[f].id /\ touched.fingerprint = open[f].fingerprint
      /\ touched.severity = max_severity(open[f].severity, d.severity)
      /\ touched.status = open[f].status /\ touched.signals = open[f].signals \cup {nextSig}
  BY <1>1, <1>2, <1>3, RankFacts DEF Incident
<1>5. open[f].severity \in Severity /\ open[f].fingerprint = f /\ open[f].status = "Open"
  BY <1>1, <1>2 DEF MapInv, Incident
<1> QED
  BY <1>1, <1>2, <1>3, <1>4, <1>5, RankFacts DEF Incident

(* What opening sets: an incident under a fresh id that cites the new signal. *)
LEMMA OpenedFacts ==
    ASSUME NEW d \in Draft, TypeOK, OpenIncident(d)
    PROVE  LET f == d.fingerprint IN
           /\ f \in Fingerprint
           /\ open[f] = NoIncident
           /\ cur' \in Incident
           /\ cur'.id = nextId
           /\ nextId \in Id
           /\ cur'.fingerprint = f
           /\ cur'.status = "Open"
           /\ cur'.signals = {nextSig}
           /\ life' = "Opened"
           /\ open' = [open EXCEPT ![f] = cur']
           /\ nextId' = nextId + 1
<1> DEFINE f == d.fingerprint
           inc == [id |-> nextId, fingerprint |-> f, severity |-> d.severity,
                   status |-> "Open", signals |-> {nextSig}]
<1>1. f \in Fingerprint /\ d.severity \in Severity
  BY DEF Draft
<1>2. /\ open[f] = NoIncident /\ nextId \in Id /\ Emit(inc, "Opened")
      /\ open' = [open EXCEPT ![f] = inc] /\ nextId' = nextId + 1
  BY EngineAssumption DEF OpenIncident, TypeOK, Id
<1>3. nextSig \in Signal /\ cur' = inc /\ life' = "Opened"
  <2> HIDE DEF inc
  <2> QED BY <1>2, EmitFacts
<1>4. inc \in Incident
  BY <1>1, <1>2, <1>3 DEF Incident
<1> QED
  BY <1>1, <1>2, <1>3, <1>4

(* What resolving sets: the open incident leaves the map with status Resolved. *)
LEMMA ResolvedFacts ==
    ASSUME NEW d \in Draft, TypeOK, MapInv, ResolveIncident(d)
    PROVE  LET f == d.fingerprint IN
           /\ f \in Fingerprint
           /\ open[f] \in Incident
           /\ cur' \in Incident
           /\ cur'.id = open[f].id
           /\ cur'.fingerprint = f
           /\ cur'.status = "Resolved"
           /\ cur'.severity = open[f].severity
           /\ cur'.signals = open[f].signals \cup {nextSig}
           /\ life' = "Resolved"
           /\ open' = [open EXCEPT ![f] = NoIncident]
           /\ nextId' = nextId
<1> DEFINE f == d.fingerprint
           resolved == [open[f] EXCEPT !.status = "Resolved",
                                       !.signals = @ \cup {nextSig}]
<1>1. f \in Fingerprint
  BY DEF Draft
<1>2. /\ open[f] \in Incident /\ open[f] # NoIncident /\ Emit(resolved, "Resolved")
      /\ open' = [open EXCEPT ![f] = NoIncident] /\ nextId' = nextId
  BY <1>1 DEF ResolveIncident, TypeOK
<1>3. nextSig \in Signal /\ cur' = resolved /\ life' = "Resolved"
  <2> HIDE DEF resolved
  <2> QED BY <1>2, EmitFacts
<1>4. /\ resolved \in Incident
      /\ resolved.id = open[f].id /\ resolved.fingerprint = open[f].fingerprint
      /\ resolved.severity = open[f].severity
      /\ resolved.status = "Resolved" /\ resolved.signals = open[f].signals \cup {nextSig}
  BY <1>2, <1>3 DEF Incident
<1>5. open[f].fingerprint = f
  BY <1>1, <1>2 DEF MapInv
<1> QED
  BY <1>1, <1>2, <1>3, <1>4, <1>5

(* A draft that touches no incident. *)
LEMMA UntouchedFacts ==
    ASSUME NEW d \in Draft, TypeOK, DraftBelowConfidenceFloor(d) \/ ClearNothing(d)
    PROVE  /\ Emit(NoIncident, "none") /\ cur' = NoIncident /\ life' = "none"
           /\ UNCHANGED <<open, nextId>>
BY EmitFacts DEF DraftBelowConfidenceFloor, ClearNothing

-----------------------------------------------------------------------------
(* A first boot on an empty database satisfies the invariant. *)
LEMMA InitInv == Init => Inv
<1> SUFFICES ASSUME Init PROVE Inv
  OBVIOUS
<1>1. TypeOK
  BY EngineAssumption DEF Init, TypeOK, MaxTries, Id, Signal
<1>2. ControlInv /\ MapInv /\ RowInv /\ KeyInv /\ CurInv /\ UnsavedInv
  BY DEF Init, ControlInv, MapInv, RowInv, KeyInv, CurInv, UnsavedInv
<1>3. AheadInv /\ SyncInv /\ OneOpenRowPerFingerprint
  BY DEF Init, AheadInv, SyncInv, OneOpenRowPerFingerprint, Unwritten, IsOpenRow
<1>4. SignalInv /\ AnnounceInv
  BY DEF Init, SignalInv, EvidenceRecorded, AnnounceInv, AnnouncedIsDurable
<1> QED
  BY <1>1, <1>2, <1>3, <1>4 DEF Inv

(* A draft that touches no incident leaves the map and the tables alone. *)
LEMMA UntouchedPreserves ==
    ASSUME NEW d \in Draft, Inv, DraftBelowConfidenceFloor(d) \/ ClearNothing(d)
    PROVE  Inv'
<1>1. TypeOK
  BY DEF Inv
<1>2. /\ Emit(NoIncident, "none") /\ cur' = NoIncident /\ life' = "none"
      /\ UNCHANGED <<open, nextId>>
  BY <1>1, UntouchedFacts
<1>3. /\ mode = "up" /\ pc = "idle" /\ mode' = mode /\ nextSig \in Signal
      /\ pc' = "record" /\ sig' = nextSig /\ tries' = 0
      /\ nextSig' \in 1..(MaxSignals + 1)
      /\ UNCHANGED <<repo, store, lost, unsaved, exhausted, announced>>
  BY <1>1, <1>2, EmitFacts
<1>4. TypeOK'
  BY <1>1, <1>2, <1>3 DEF TypeOK, MaxTries
<1>5. ControlInv'
  BY <1>2, <1>3 DEF ControlInv
<1>6. MapInv' /\ RowInv' /\ KeyInv' /\ CurInv' /\ UnsavedInv'
  BY <1>2, <1>3 DEF Inv, MapInv, RowInv, KeyInv, CurInv, UnsavedInv
<1>7. AheadInv' /\ SyncInv' /\ OneOpenRowPerFingerprint'
  BY <1>2, <1>3 DEF Inv, AheadInv, SyncInv, OneOpenRowPerFingerprint, Unwritten,
                    IsOpenRow, Precedes
<1>8. SignalInv'
  BY <1>2, <1>3 DEF Inv, SignalInv, EvidenceRecorded
<1>9. AnnounceInv'
  BY <1>2, <1>3 DEF Inv, AnnounceInv, AnnouncedIsDurable
<1> QED
  BY <1>4, <1>5, <1>6, <1>7, <1>8, <1>9 DEF Inv

(* Touching an incident leaves its row behind the map until it is saved. *)
LEMMA TouchPreserves ==
    ASSUME NEW d \in Draft, Inv, TouchIncident(d)
    PROVE  Inv'
<1> DEFINE f == d.fingerprint
<1>1. TypeOK /\ ControlInv /\ MapInv /\ RowInv /\ KeyInv /\ AheadInv /\ SyncInv
      /\ OneOpenRowPerFingerprint /\ SignalInv /\ UnsavedInv /\ AnnounceInv
  BY DEF Inv
<1>2. /\ f \in Fingerprint /\ open[f] \in Incident /\ cur' \in Incident
      /\ cur'.id = open[f].id /\ cur'.fingerprint = f /\ cur'.status = "Open"
      /\ cur'.signals = open[f].signals \cup {nextSig}
      /\ severity_rank(open[f].severity) <= severity_rank(cur'.severity)
      /\ life' \in {"none", "Escalated"}
      /\ life' = "Escalated" =>
           severity_rank(open[f].severity) < severity_rank(cur'.severity)
      /\ open' = [open EXCEPT ![f] = cur']
      /\ nextId' = nextId
  BY <1>1, TouchedFacts
<1>3. /\ mode = "up" /\ pc = "idle" /\ mode' = mode /\ nextSig \in Signal
      /\ pc' = "record" /\ sig' = nextSig /\ tries' = 0
      /\ nextSig' \in 1..(MaxSignals + 1)
      /\ UNCHANGED <<repo, store, lost, unsaved, exhausted, announced>>
  BY <1>1, EmitFacts DEF TouchIncident
<1>4. NoIncident \notin Incident /\ open[f] # NoIncident /\ cur' # NoIncident
  BY <1>2, EngineAssumption
<1>5. /\ open \in [Fingerprint -> Incident \cup {NoIncident}]
      /\ open'[f] = cur' /\ \A g \in Fingerprint : g # f => open'[g] = open[g]
  BY <1>1, <1>2 DEF TypeOK
<1>6. TypeOK'
  BY <1>1, <1>2, <1>3 DEF TypeOK, MaxTries, Kind
<1>7. ControlInv'
  BY <1>2, <1>3, <1>4 DEF ControlInv
<1>8. MapInv' /\ RowInv' /\ UnsavedInv'
  BY <1>1, <1>2, <1>3, <1>4, <1>5 DEF MapInv, RowInv, UnsavedInv
<1>9. KeyInv'
  BY <1>1, <1>2, <1>3, <1>4, <1>5 DEF KeyInv
<1>10. CurInv'
  BY <1>1, <1>2, <1>3, <1>4, <1>5 DEF CurInv, MapInv
<1>11. repo[open[f].id] # NoIncident => Precedes(repo[open[f].id], cur')
  <2> SUFFICES ASSUME repo[open[f].id] # NoIncident
               PROVE  Precedes(repo[open[f].id], cur')
    OBVIOUS
  <2>1. Precedes(repo[open[f].id], open[f]) /\ open[f].fingerprint = f
    BY <1>1, <1>2, <1>4 DEF AheadInv, MapInv
  <2>2. repo[open[f].id] \in Incident /\ open[f].severity \in Severity
        /\ repo[open[f].id].severity \in Severity /\ cur'.severity \in Severity
    BY <1>1, <1>2 DEF TypeOK, Incident
  <2> QED
    BY <1>2, <2>1, <2>2, RankFacts DEF Precedes
<1>12. AheadInv'
  BY <1>1, <1>2, <1>3, <1>4, <1>5, <1>11 DEF AheadInv, Unwritten, Precedes
<1>13. SyncInv'
  <2>1. \A g \in Fingerprint : open'[g] # NoIncident =>
          \/ repo'[open'[g].id] = open'[g]
          \/ open'[g].id \in unsaved'
          \/ Unwritten' /\ cur' = open'[g]
    BY <1>1, <1>2, <1>3, <1>4, <1>5 DEF SyncInv, Unwritten
  <2>2. ASSUME NEW i \in Id, IsOpenRow(i)'
        PROVE  \/ i \in unsaved'
               \/ /\ open'[repo'[i].fingerprint] # NoIncident
                  /\ open'[repo'[i].fingerprint].id = i
               \/ Unwritten' /\ cur'.id = i /\ cur'.status = "Resolved"
    <3>1. IsOpenRow(i) /\ repo[i] \in Incident /\ repo[i].fingerprint \in Fingerprint
      BY <1>1, <1>3, <2>2 DEF IsOpenRow, TypeOK, Incident
    <3> QED
      BY <1>1, <1>2, <1>3, <1>4, <1>5, <3>1 DEF SyncInv, Unwritten
  <2> QED
    BY <2>1, <2>2 DEF SyncInv
<1>14. OneOpenRowPerFingerprint'
  BY <1>1, <1>3 DEF OneOpenRowPerFingerprint, IsOpenRow
<1>15. SignalInv'
  BY <1>1, <1>2, <1>3, <1>4, <1>5 DEF SignalInv, EvidenceRecorded
<1>16. AnnounceInv'
  <2>1. ASSUME NEW a \in announced, a.id = open[f].id, a.id \notin exhausted
        PROVE  /\ a.kind # "Resolved"
               /\ severity_rank(a.severity) <= severity_rank(open[f].severity)
    <3>1. /\ repo[a.id] # NoIncident
          /\ severity_rank(repo[a.id].severity) >= severity_rank(a.severity)
          /\ a.kind = "Resolved" => repo[a.id].status = "Resolved"
      BY <1>1, <2>1 DEF AnnounceInv, AnnouncedIsDurable
    <3>2. Precedes(repo[a.id], open[f])
      BY <1>1, <1>2, <1>4, <2>1, <3>1 DEF AheadInv
    <3>3. /\ repo[a.id].severity \in Severity /\ a.severity \in Severity
          /\ open[f].severity \in Severity
      BY <1>1, <1>2, <2>1, <3>1 DEF TypeOK, Incident
    <3> QED
      BY <3>1, <3>2, <3>3, RankFacts DEF Precedes
  <2>2. \A a \in announced : a.severity \in Severity
    BY <1>1 DEF TypeOK
  <2>3. open[f].severity \in Severity /\ cur'.severity \in Severity
    BY <1>2 DEF Incident
  <2> QED
    BY <1>1, <1>2, <1>3, <2>1, <2>2, <2>3, RankFacts DEF AnnounceInv, AnnouncedIsDurable
<1> QED
  BY <1>6, <1>7, <1>8, <1>9, <1>10, <1>12, <1>13, <1>14, <1>15, <1>16 DEF Inv

(* Opening uses an id that no row, entry or announcement has used. *)
LEMMA OpenPreserves ==
    ASSUME NEW d \in Draft, Inv, OpenIncident(d)
    PROVE  Inv'
<1> DEFINE f == d.fingerprint
<1>1. TypeOK /\ ControlInv /\ MapInv /\ RowInv /\ KeyInv /\ AheadInv /\ SyncInv
      /\ OneOpenRowPerFingerprint /\ SignalInv /\ UnsavedInv /\ AnnounceInv
  BY DEF Inv
<1>2. /\ f \in Fingerprint /\ open[f] = NoIncident /\ cur' \in Incident
      /\ cur'.id = nextId /\ nextId \in Id
      /\ cur'.fingerprint = f /\ cur'.status = "Open" /\ cur'.signals = {nextSig}
      /\ life' = "Opened"
      /\ open' = [open EXCEPT ![f] = cur']
      /\ nextId' = nextId + 1
  BY <1>1, OpenedFacts
<1>3. /\ mode = "up" /\ pc = "idle" /\ mode' = mode /\ nextSig \in Signal
      /\ pc' = "record" /\ sig' = nextSig /\ tries' = 0
      /\ nextSig' \in 1..(MaxSignals + 1)
      /\ UNCHANGED <<repo, store, lost, unsaved, exhausted, announced>>
  BY <1>1, EmitFacts DEF OpenIncident
<1>4. /\ cur' # NoIncident
      /\ nextId < nextId' /\ nextId' \in 1..(MaxIncidents + 1)
      /\ \A i \in Id : i < nextId => i < nextId' /\ i # nextId
  BY <1>2, EngineAssumption DEF Id
<1>5. /\ open \in [Fingerprint -> Incident \cup {NoIncident}]
      /\ open'[f] = cur' /\ \A g \in Fingerprint : g # f => open'[g] = open[g]
      /\ \A g \in Fingerprint : open[g] # NoIncident => open[g].id \in Id
  BY <1>1, <1>2 DEF TypeOK, Incident
<1>6. TypeOK'
  BY <1>1, <1>2, <1>3, <1>4 DEF TypeOK, MaxTries, Kind
<1>7. ControlInv'
  BY <1>2, <1>3, <1>4 DEF ControlInv
<1>8. MapInv' /\ RowInv' /\ KeyInv' /\ UnsavedInv'
  <2>1. MapInv'
    BY <1>1, <1>2, <1>4, <1>5 DEF MapInv
  <2>2. RowInv' /\ UnsavedInv'
    BY <1>1, <1>3, <1>4 DEF RowInv, UnsavedInv
  <2>3. KeyInv'
    BY <1>1, <1>2, <1>4, <1>5 DEF KeyInv, MapInv
  <2> QED
    BY <2>1, <2>2, <2>3
<1>9. CurInv'
  BY <1>2, <1>4, <1>5 DEF CurInv
<1>10. repo[nextId] = NoIncident
  BY <1>1, <1>2, <1>4 DEF RowInv
<1>11. AheadInv'
  BY <1>1, <1>2, <1>3, <1>4, <1>5, <1>10 DEF AheadInv, Unwritten, Precedes
<1>12. SyncInv'
  <2>1. \A g \in Fingerprint : open'[g] # NoIncident =>
          \/ repo'[open'[g].id] = open'[g]
          \/ open'[g].id \in unsaved'
          \/ Unwritten' /\ cur' = open'[g]
    BY <1>1, <1>2, <1>3, <1>4, <1>5 DEF SyncInv, Unwritten
  <2>2. ASSUME NEW i \in Id, IsOpenRow(i)'
        PROVE  \/ i \in unsaved'
               \/ /\ open'[repo'[i].fingerprint] # NoIncident
                  /\ open'[repo'[i].fingerprint].id = i
               \/ Unwritten' /\ cur'.id = i /\ cur'.status = "Resolved"
    <3>1. IsOpenRow(i) /\ repo[i] \in Incident /\ repo[i].fingerprint \in Fingerprint
      BY <1>1, <1>3, <2>2 DEF IsOpenRow, TypeOK, Incident
    <3> QED
      BY <1>1, <1>2, <1>3, <1>4, <1>5, <3>1 DEF SyncInv, Unwritten
  <2> QED
    BY <2>1, <2>2 DEF SyncInv
<1>13. OneOpenRowPerFingerprint'
  BY <1>1, <1>3 DEF OneOpenRowPerFingerprint, IsOpenRow
<1>14. SignalInv'
  BY <1>1, <1>2, <1>3, <1>4, <1>5 DEF SignalInv, EvidenceRecorded
<1>15. AnnounceInv'
  <2>1. \A a \in announced : a.id \in Id
    BY <1>1 DEF TypeOK
  <2>2. \A a \in announced : a.id < nextId' /\ a.id # cur'.id
    BY <1>1, <1>2, <1>4, <2>1 DEF AnnounceInv
  <2> QED
    BY <1>1, <1>3, <2>2 DEF AnnounceInv, AnnouncedIsDurable
<1> QED
  BY <1>6, <1>7, <1>8, <1>9, <1>11, <1>12, <1>13, <1>14, <1>15 DEF Inv

(* Resolving leaves an open row without an entry until the row is saved. *)
LEMMA ResolvePreserves ==
    ASSUME NEW d \in Draft, Inv, ResolveIncident(d)
    PROVE  Inv'
<1> DEFINE f == d.fingerprint
<1>1. TypeOK /\ ControlInv /\ MapInv /\ RowInv /\ KeyInv /\ AheadInv /\ SyncInv
      /\ OneOpenRowPerFingerprint /\ SignalInv /\ UnsavedInv /\ AnnounceInv
  BY DEF Inv
<1>2. /\ f \in Fingerprint /\ open[f] \in Incident /\ cur' \in Incident
      /\ cur'.id = open[f].id /\ cur'.fingerprint = f /\ cur'.status = "Resolved"
      /\ cur'.severity = open[f].severity
      /\ cur'.signals = open[f].signals \cup {nextSig}
      /\ life' = "Resolved"
      /\ open' = [open EXCEPT ![f] = NoIncident]
      /\ nextId' = nextId
  BY <1>1, ResolvedFacts
<1>3. /\ mode = "up" /\ pc = "idle" /\ mode' = mode /\ nextSig \in Signal
      /\ pc' = "record" /\ sig' = nextSig /\ tries' = 0
      /\ nextSig' \in 1..(MaxSignals + 1)
      /\ UNCHANGED <<repo, store, lost, unsaved, exhausted, announced>>
  BY <1>1, EmitFacts DEF ResolveIncident
<1>4. open[f] # NoIncident /\ cur' # NoIncident
  BY <1>2, EngineAssumption
<1>5. /\ open \in [Fingerprint -> Incident \cup {NoIncident}]
      /\ open'[f] = NoIncident /\ \A g \in Fingerprint : g # f => open'[g] = open[g]
  BY <1>1, <1>2 DEF TypeOK
<1>6. TypeOK'
  BY <1>1, <1>2, <1>3 DEF TypeOK, MaxTries, Kind
<1>7. ControlInv'
  BY <1>2, <1>3, <1>4 DEF ControlInv
<1>8. MapInv' /\ RowInv' /\ KeyInv' /\ UnsavedInv'
  BY <1>1, <1>2, <1>3, <1>4, <1>5 DEF MapInv, RowInv, KeyInv, UnsavedInv
<1>9. CurInv'
  BY <1>1, <1>2, <1>4, <1>5 DEF CurInv, MapInv, KeyInv
<1>10. repo[open[f].id] # NoIncident => Precedes(repo[open[f].id], cur')
  BY <1>1, <1>2, <1>4 DEF AheadInv, MapInv, Precedes
<1>11. AheadInv'
  BY <1>1, <1>2, <1>3, <1>4, <1>5, <1>10 DEF AheadInv, Unwritten, Precedes
<1>12. SyncInv'
  <2>1. \A g \in Fingerprint : open'[g] # NoIncident =>
          \/ repo'[open'[g].id] = open'[g]
          \/ open'[g].id \in unsaved'
          \/ Unwritten' /\ cur' = open'[g]
    BY <1>1, <1>2, <1>3, <1>4, <1>5 DEF SyncInv, Unwritten
  <2>2. ASSUME NEW i \in Id, IsOpenRow(i)'
        PROVE  \/ i \in unsaved'
               \/ /\ open'[repo'[i].fingerprint] # NoIncident
                  /\ open'[repo'[i].fingerprint].id = i
               \/ Unwritten' /\ cur'.id = i /\ cur'.status = "Resolved"
    <3>1. IsOpenRow(i) /\ repo[i] \in Incident /\ repo[i].fingerprint \in Fingerprint
      BY <1>1, <1>3, <2>2 DEF IsOpenRow, TypeOK, Incident
    <3> QED
      BY <1>1, <1>2, <1>3, <1>4, <1>5, <3>1 DEF SyncInv, Unwritten
  <2> QED
    BY <2>1, <2>2 DEF SyncInv
<1>13. OneOpenRowPerFingerprint'
  BY <1>1, <1>3 DEF OneOpenRowPerFingerprint, IsOpenRow
<1>14. SignalInv'
  BY <1>1, <1>2, <1>3, <1>4, <1>5 DEF SignalInv, EvidenceRecorded
<1>15. AnnounceInv'
  <2>1. ASSUME NEW a \in announced, a.id = open[f].id, a.id \notin exhausted
        PROVE  a.kind # "Resolved"
    BY <1>1, <1>2, <1>4, <2>1 DEF AnnounceInv, AnnouncedIsDurable, AheadInv, Precedes
  <2> QED
    BY <1>1, <1>2, <1>3, <2>1 DEF AnnounceInv, AnnouncedIsDurable
<1> QED
  BY <1>6, <1>7, <1>8, <1>9, <1>11, <1>12, <1>13, <1>14, <1>15 DEF Inv

(* The append decides the fate of the signal, stored or lost, and nothing else. *)
LEMMA SignalRecordedPreserves ==
    ASSUME Inv, SignalRecorded
    PROVE  Inv'
<1>1. TypeOK /\ ControlInv /\ MapInv /\ RowInv /\ KeyInv /\ CurInv /\ AheadInv /\ SyncInv
      /\ OneOpenRowPerFingerprint /\ SignalInv /\ UnsavedInv /\ AnnounceInv
  BY DEF Inv
<1>2. /\ pc = "record" /\ sig \in Signal
      /\ store' \cup lost' = store \cup lost \cup {sig}
      /\ store' \subseteq Signal /\ lost' \subseteq Signal
      /\ UNCHANGED <<mode, open, repo, nextId, nextSig, unsaved, exhausted, announced>>
  BY <1>1 DEF SignalRecorded, ids, history, ControlInv, TypeOK
<1>3. \/ /\ cur = NoIncident /\ cur' = NoIncident /\ pc' = "idle" /\ life' = "none"
         /\ sig' = 0 /\ tries' = 0
      \/ /\ cur # NoIncident /\ pc' = "save"
         /\ UNCHANGED <<cur, life, sig, tries>>
  BY DEF SignalRecorded, AfterRecord, Goto
<1>4. mode = "up"
  BY <1>1, <1>2 DEF ControlInv
<1>5. TypeOK'
  BY <1>1, <1>2, <1>3 DEF TypeOK, MaxTries
<1>6. ControlInv'
  BY <1>1, <1>2, <1>3, <1>4 DEF ControlInv
<1>7. MapInv' /\ RowInv' /\ KeyInv' /\ CurInv' /\ UnsavedInv'
  BY <1>1, <1>2, <1>3 DEF MapInv, RowInv, KeyInv, CurInv, UnsavedInv
<1>8. Unwritten' <=> Unwritten
  BY <1>2, <1>3 DEF Unwritten
<1>9. AheadInv' /\ SyncInv' /\ OneOpenRowPerFingerprint'
  BY <1>1, <1>2, <1>3, <1>8 DEF AheadInv, SyncInv, OneOpenRowPerFingerprint, IsOpenRow,
                                Unwritten, Precedes
<1>10. SignalInv'
  BY <1>1, <1>2, <1>3 DEF SignalInv, EvidenceRecorded
<1>11. AnnounceInv'
  BY <1>1, <1>2, <1>3 DEF AnnounceInv, AnnouncedIsDurable
<1> QED
  BY <1>5, <1>6, <1>7, <1>9, <1>10, <1>11 DEF Inv

(* What follows a save: the announcement, or the channel. *)
LEMMA AfterSaveFacts ==
    ASSUME Inv, pc = "save", Goto(AfterSave)
    PROVE  /\ cur \in Incident /\ cur # NoIncident /\ mode = "up" /\ Unwritten
           /\ cur.id \in Id /\ cur.fingerprint \in Fingerprint
           /\ ~Unwritten'
           /\ \/ /\ life = "none" /\ cur' = NoIncident /\ pc' = "idle" /\ life' = "none"
                 /\ sig' = 0 /\ tries' = 0
              \/ /\ life # "none" /\ pc' = "announce"
                 /\ UNCHANGED <<cur, life, sig, tries>>
<1>1. cur \in Incident /\ cur # NoIncident /\ mode = "up"
  BY DEF Inv, ControlInv, TypeOK
<1>2. cur.id \in Id /\ cur.fingerprint \in Fingerprint
  BY <1>1 DEF Incident
<1>3. \/ /\ life = "none" /\ cur' = NoIncident /\ pc' = "idle" /\ life' = "none"
         /\ sig' = 0 /\ tries' = 0
      \/ /\ life # "none" /\ pc' = "announce"
         /\ UNCHANGED <<cur, life, sig, tries>>
  BY DEF Goto, AfterSave
<1> QED
  BY <1>1, <1>2, <1>3 DEF Unwritten

(* Saving brings the row up to date; no other row has its fingerprint open. *)
LEMMA SaveOkPreserves ==
    ASSUME Inv, SaveOk
    PROVE  Inv'
<1>1. TypeOK /\ ControlInv /\ MapInv /\ RowInv /\ KeyInv /\ CurInv /\ AheadInv /\ SyncInv
      /\ OneOpenRowPerFingerprint /\ SignalInv /\ UnsavedInv /\ AnnounceInv
  BY DEF Inv
<1>2. /\ pc = "save" /\ repo' = [repo EXCEPT ![cur.id] = cur]
      /\ unsaved' = unsaved \ {cur.id}
      /\ UNCHANGED <<mode, open, store, lost, nextId, nextSig, exhausted, announced>>
  BY DEF SaveOk, ids
<1>3. /\ cur \in Incident /\ cur # NoIncident /\ mode = "up" /\ Unwritten
      /\ cur.id \in Id /\ cur.fingerprint \in Fingerprint
      /\ ~Unwritten'
      /\ \/ /\ life = "none" /\ cur' = NoIncident /\ pc' = "idle" /\ life' = "none"
            /\ sig' = 0 /\ tries' = 0
         \/ /\ life # "none" /\ pc' = "announce"
            /\ UNCHANGED <<cur, life, sig, tries>>
  BY AfterSaveFacts DEF SaveOk
<1>4. /\ repo \in [Id -> Incident \cup {NoIncident}]
      /\ repo'[cur.id] = cur /\ \A i \in Id : i # cur.id => repo'[i] = repo[i]
  BY <1>1, <1>2, <1>3 DEF TypeOK
<1>5. TypeOK'
  BY <1>1, <1>2, <1>3 DEF TypeOK, MaxTries
<1>6. ControlInv'
  BY <1>1, <1>2, <1>3 DEF ControlInv
<1>7. MapInv' /\ KeyInv' /\ CurInv' /\ UnsavedInv'
  BY <1>1, <1>2, <1>3 DEF MapInv, KeyInv, CurInv, UnsavedInv
<1>8. RowInv'
  BY <1>1, <1>2, <1>3, <1>4 DEF RowInv, CurInv
<1>9. \A f \in Fingerprint : open[f] # NoIncident =>
         /\ open[f] \in Incident /\ open[f].id \in Id
         /\ open[f].id = cur.id => open[f] = cur
  <2> SUFFICES ASSUME NEW f \in Fingerprint, open[f] # NoIncident
               PROVE  /\ open[f] \in Incident /\ open[f].id \in Id
                      /\ open[f].id = cur.id => open[f] = cur
    OBVIOUS
  <2>1. open[f] \in Incident /\ open[f].id \in Id
    BY <1>1 DEF TypeOK, Incident
  <2>2. cur.status \in {"Open", "Resolved"}
    BY <1>3 DEF Incident
  <2> QED
    BY <1>1, <1>3, <2>1, <2>2 DEF CurInv, KeyInv
<1>10. AheadInv'
  <2>1. \A f \in Fingerprint : open[f] # NoIncident /\ open[f] = cur => Precedes(cur, open[f])
    BY <1>1, <1>3, RankFacts DEF Precedes, MapInv, Incident
  <2>2. ASSUME NEW f \in Fingerprint, open'[f] # NoIncident, repo'[open'[f].id] # NoIncident
        PROVE  Precedes(repo'[open'[f].id], open'[f])
    BY <1>1, <1>2, <1>4, <1>9, <2>1, <2>2 DEF AheadInv
  <2> QED
    BY <1>3, <2>2 DEF AheadInv, Precedes
<1>11. SyncInv'
  <2>1. ASSUME NEW f \in Fingerprint, open'[f] # NoIncident
        PROVE  repo'[open'[f].id] = open'[f] \/ open'[f].id \in unsaved'
    BY <1>1, <1>2, <1>4, <1>9, <2>1 DEF SyncInv
  <2>2. ASSUME NEW i \in Id, IsOpenRow(i)'
        PROVE  \/ i \in unsaved'
               \/ /\ open'[repo'[i].fingerprint] # NoIncident
                  /\ open'[repo'[i].fingerprint].id = i
    <3>1. CASE i = cur.id
      BY <1>1, <1>2, <1>3, <1>4, <2>2, <3>1 DEF IsOpenRow, CurInv, Incident
    <3>2. CASE i # cur.id
      BY <1>1, <1>2, <1>3, <1>4, <2>2, <3>2 DEF IsOpenRow, SyncInv
    <3> QED
      BY <3>1, <3>2
  <2> QED
    BY <2>1, <2>2 DEF SyncInv
<1>12. OneOpenRowPerFingerprint'
  <2> SUFFICES ASSUME NEW i \in Id, NEW j \in Id,
                      IsOpenRow(i)', IsOpenRow(j)', i # j,
                      repo'[i].fingerprint = repo'[j].fingerprint
               PROVE  i \in unsaved' \/ j \in unsaved'
    BY DEF OneOpenRowPerFingerprint
  <2> QED
    BY <1>3, <1>11, <1>2 DEF SyncInv
<1>13. SignalInv'
  BY <1>1, <1>2, <1>3, <1>4 DEF SignalInv, EvidenceRecorded
<1>14. AnnouncedIsDurable'
  <2> SUFFICES ASSUME NEW a \in announced, a.id \notin exhausted
               PROVE  /\ repo'[a.id] # NoIncident
                      /\ severity_rank(repo'[a.id].severity) >= severity_rank(a.severity)
                      /\ a.kind = "Resolved" => repo'[a.id].status = "Resolved"
    BY <1>2 DEF AnnouncedIsDurable
  <2>1. /\ a.id \in Id /\ repo[a.id] # NoIncident
        /\ severity_rank(repo[a.id].severity) >= severity_rank(a.severity)
        /\ a.kind = "Resolved" => repo[a.id].status = "Resolved"
    BY <1>1 DEF AnnounceInv, AnnouncedIsDurable, TypeOK
  <2>2. CASE a.id = cur.id
    <3>1. Precedes(repo[a.id], cur)
      BY <1>1, <1>3, <2>1, <2>2 DEF AheadInv
    <3>2. repo[a.id].severity \in Severity /\ a.severity \in Severity /\ cur.severity \in Severity
      BY <1>1, <1>3, <1>4, <2>1 DEF TypeOK, Incident
    <3> QED
      BY <1>3, <1>4, <2>1, <2>2, <3>1, <3>2, RankFacts DEF Precedes
  <2>3. CASE a.id # cur.id
    BY <1>4, <2>1, <2>3
  <2> QED
    BY <2>2, <2>3
<1>15. AnnounceInv'
  BY <1>1, <1>2, <1>3, <1>4, <1>14 DEF AnnounceInv
<1> QED
  BY <1>5, <1>6, <1>7, <1>8, <1>10, <1>11, <1>12, <1>13, <1>15 DEF Inv

(* A failed try changes only the number of tries. *)
LEMMA SaveRetryPreserves ==
    ASSUME Inv, SaveRetry
    PROVE  Inv'
<1>1. /\ tries' \in 0..(MaxTries - 1)
      /\ UNCHANGED <<mode, open, pc, cur, life, sig, repo, store, lost, nextId, nextSig,
                     unsaved, exhausted, announced>>
  BY DEF Inv, TypeOK, SaveRetry, MaxTries, durable, ids, history
<1>2. TypeOK'
  BY <1>1 DEF Inv, TypeOK
<1>3. /\ ControlInv' /\ MapInv' /\ RowInv' /\ KeyInv' /\ CurInv' /\ UnsavedInv'
      /\ SignalInv' /\ AnnounceInv'
  BY <1>1 DEF Inv, ControlInv, MapInv, RowInv, KeyInv, CurInv, UnsavedInv,
              SignalInv, EvidenceRecorded, AnnounceInv, AnnouncedIsDurable
<1>4. AheadInv' /\ SyncInv' /\ OneOpenRowPerFingerprint'
  BY <1>1 DEF Inv, AheadInv, SyncInv, OneOpenRowPerFingerprint, IsOpenRow, Unwritten,
              Precedes
<1> QED
  BY <1>2, <1>3, <1>4 DEF Inv

(* Giving the save up is accounted for in unsaved and exhausted. *)
LEMMA SaveExhaustedPreserves ==
    ASSUME Inv, SaveExhausted
    PROVE  Inv'
<1>1. TypeOK /\ ControlInv /\ MapInv /\ RowInv /\ KeyInv /\ CurInv /\ AheadInv /\ SyncInv
      /\ OneOpenRowPerFingerprint /\ SignalInv /\ UnsavedInv /\ AnnounceInv
  BY DEF Inv
<1>2. /\ pc = "save" /\ unsaved' = unsaved \cup {cur.id}
      /\ exhausted' = exhausted \cup {cur.id}
      /\ UNCHANGED <<mode, open, repo, store, lost, nextId, nextSig, announced>>
  BY DEF SaveExhausted, durable, ids
<1>3. /\ cur \in Incident /\ cur # NoIncident /\ mode = "up" /\ Unwritten
      /\ cur.id \in Id /\ cur.fingerprint \in Fingerprint
      /\ ~Unwritten'
      /\ \/ /\ life = "none" /\ cur' = NoIncident /\ pc' = "idle" /\ life' = "none"
            /\ sig' = 0 /\ tries' = 0
         \/ /\ life # "none" /\ pc' = "announce"
            /\ UNCHANGED <<cur, life, sig, tries>>
  BY AfterSaveFacts DEF SaveExhausted
<1>4. TypeOK'
  BY <1>1, <1>2, <1>3 DEF TypeOK, MaxTries
<1>5. ControlInv'
  BY <1>1, <1>2, <1>3 DEF ControlInv
<1>6. MapInv' /\ RowInv' /\ KeyInv' /\ CurInv' /\ UnsavedInv'
  BY <1>1, <1>2, <1>3 DEF MapInv, RowInv, KeyInv, CurInv, UnsavedInv
<1>7. AheadInv'
  BY <1>1, <1>2, <1>3 DEF AheadInv, Precedes
<1>8. SyncInv' /\ OneOpenRowPerFingerprint'
  BY <1>1, <1>2, <1>3 DEF SyncInv, OneOpenRowPerFingerprint, IsOpenRow
<1>9. SignalInv'
  BY <1>1, <1>2, <1>3 DEF SignalInv, EvidenceRecorded
<1>10. AnnounceInv'
  BY <1>1, <1>2, <1>3 DEF AnnounceInv, AnnouncedIsDurable
<1> QED
  BY <1>4, <1>5, <1>6, <1>7, <1>8, <1>9, <1>10 DEF Inv

(* What is announced has been saved, or its save was given up. *)
LEMMA AnnouncePreserves ==
    ASSUME Inv, Announce
    PROVE  Inv'
<1>1. TypeOK /\ ControlInv /\ MapInv /\ RowInv /\ KeyInv /\ CurInv /\ AheadInv /\ SyncInv
      /\ OneOpenRowPerFingerprint /\ SignalInv /\ UnsavedInv /\ AnnounceInv
  BY DEF Inv
<1> DEFINE new == [id |-> cur.id, kind |-> life, severity |-> cur.severity]
<1>2. /\ pc = "announce" /\ announced' = announced \cup {new}
      /\ pc' = "idle" /\ cur' = NoIncident /\ life' = "none" /\ sig' = 0 /\ tries' = 0
      /\ UNCHANGED <<mode, open, repo, store, lost, nextId, nextSig, unsaved, exhausted>>
  BY DEF Announce, Goto, durable, ids
<1>3. cur \in Incident /\ cur # NoIncident /\ mode = "up" /\ life \in Kind /\ ~Unwritten
  BY <1>1, <1>2 DEF ControlInv, TypeOK, Unwritten
<1>4. new \in [id : Id, kind : Kind, severity : Severity] /\ cur.severity \in Severity
  BY <1>3 DEF Incident
<1>5. TypeOK'
  BY <1>1, <1>2, <1>4 DEF TypeOK, MaxTries
<1>6. ControlInv'
  BY <1>2, <1>3 DEF ControlInv
<1>7. MapInv' /\ RowInv' /\ KeyInv' /\ CurInv' /\ UnsavedInv'
  BY <1>1, <1>2 DEF MapInv, RowInv, KeyInv, CurInv, UnsavedInv
<1>8. AheadInv' /\ SyncInv' /\ OneOpenRowPerFingerprint'
  BY <1>1, <1>2, <1>3 DEF AheadInv, SyncInv, OneOpenRowPerFingerprint, IsOpenRow,
                          Unwritten, Precedes
<1>9. SignalInv'
  BY <1>1, <1>2 DEF SignalInv, EvidenceRecorded
<1>10. AnnounceInv'
  <2>1. cur.id < nextId /\ (life = "Resolved" => cur.status = "Resolved")
    BY <1>1, <1>3 DEF CurInv
  <2>2. cur.id \notin exhausted => repo[cur.id] = cur
    BY <1>1, <1>2 DEF AnnounceInv
  <2>3. severity_rank(cur.severity) >= severity_rank(cur.severity)
    BY <1>4, RankFacts
  <2>4. new.id = cur.id /\ new.kind = life /\ new.severity = cur.severity
    OBVIOUS
  <2> HIDE DEF new
  <2> QED
    BY <1>1, <1>2, <1>3, <2>1, <2>2, <2>3, <2>4 DEF AnnounceInv, AnnouncedIsDurable
<1> QED
  BY <1>5, <1>6, <1>7, <1>8, <1>9, <1>10 DEF Inv

(* A stop forgets the volatile state; what was not saved is not announced. *)
LEMMA StopPreserves ==
    ASSUME Inv, Stop
    PROVE  Inv'
<1>1. /\ mode' = "down" /\ open' = [f \in Fingerprint |-> NoIncident]
      /\ pc' = "idle" /\ cur' = NoIncident /\ life' = "none" /\ sig' = 0 /\ tries' = 0
      /\ UNCHANGED <<repo, store, lost, nextId, nextSig, unsaved, exhausted, announced>>
  BY DEF Stop, Goto, durable, ids, history
<1>2. TypeOK'
  BY <1>1 DEF Inv, TypeOK, MaxTries
<1>3. ControlInv' /\ MapInv' /\ RowInv' /\ KeyInv' /\ CurInv' /\ UnsavedInv'
  BY <1>1 DEF Inv, ControlInv, MapInv, RowInv, KeyInv, CurInv, UnsavedInv
<1>4. AheadInv' /\ SyncInv' /\ OneOpenRowPerFingerprint'
  BY <1>1 DEF Inv, AheadInv, SyncInv, OneOpenRowPerFingerprint, IsOpenRow, Unwritten
<1>5. SignalInv' /\ AnnounceInv'
  BY <1>1 DEF Inv, SignalInv, EvidenceRecorded, AnnounceInv, AnnouncedIsDurable
<1> QED
  BY <1>2, <1>3, <1>4, <1>5 DEF Inv

(* A boot that panics leaves the engine without a map. *)
LEMMA BootPanicPreserves ==
    ASSUME Inv, BootPanic
    PROVE  Inv'
<1>1. /\ mode # "up" /\ mode' = "panicked"
      /\ UNCHANGED <<open, pc, cur, life, sig, tries, repo, store, lost, nextId, nextSig,
                     unsaved, exhausted, announced>>
  BY DEF BootPanic, durable, ids, history
<1>2. TypeOK'
  BY <1>1 DEF Inv, TypeOK
<1>3. ControlInv' /\ MapInv' /\ RowInv' /\ KeyInv' /\ CurInv' /\ UnsavedInv'
  BY <1>1 DEF Inv, ControlInv, MapInv, RowInv, KeyInv, CurInv, UnsavedInv
<1>4. AheadInv' /\ SyncInv' /\ OneOpenRowPerFingerprint'
  BY <1>1 DEF Inv, AheadInv, SyncInv, OneOpenRowPerFingerprint, IsOpenRow, Unwritten,
              Precedes
<1>5. SignalInv' /\ AnnounceInv'
  BY <1>1 DEF Inv, SignalInv, EvidenceRecorded, AnnounceInv, AnnouncedIsDurable
<1> QED
  BY <1>2, <1>3, <1>4, <1>5 DEF Inv

(* A boot without duplicates rebuilds the map from the open rows. *)
LEMMA BootPreserves ==
    ASSUME Inv, Boot
    PROVE  Inv'
<1>1. TypeOK /\ ControlInv /\ RowInv /\ OneOpenRowPerFingerprint /\ SignalInv /\ AnnounceInv
  BY DEF Inv
<1>2. /\ mode # "up" /\ mode' = "up" /\ unsaved' = {} /\ ~DuplicateFingerprint
      /\ open' = [f \in Fingerprint |->
                    IF \E a \in load_open : a.fingerprint = f
                    THEN CHOOSE a \in load_open : a.fingerprint = f
                    ELSE NoIncident]
      /\ UNCHANGED <<pc, cur, life, sig, tries, repo, store, lost, nextId, nextSig,
                     exhausted, announced>>
  BY DEF Boot, durable, ids
<1>3. pc = "idle" /\ cur = NoIncident /\ ~Unwritten'
  BY <1>1, <1>2 DEF ControlInv, Unwritten
<1>4. \A i \in Id : IsOpenRow(i) =>
         /\ repo[i] \in Incident /\ repo[i].id = i /\ i < nextId
         /\ repo[i].status = "Open" /\ repo[i].fingerprint \in Fingerprint
         /\ repo[i].severity \in Severity
  BY <1>1 DEF TypeOK, IsOpenRow, RowInv, Incident
<1>5. \A a \in load_open : \E i \in Id : IsOpenRow(i) /\ a = repo[i]
  BY DEF load_open
<1>6. \A i \in Id : IsOpenRow(i) => repo[i] \in load_open
  BY DEF load_open
<1>7. \A a, b \in load_open : a.fingerprint = b.fingerprint => a = b
  BY <1>2 DEF DuplicateFingerprint
<1>8. \A f \in Fingerprint :
         \/ open'[f] = NoIncident /\ \A a \in load_open : a.fingerprint # f
         \/ open'[f] \in load_open /\ open'[f].fingerprint = f
  BY <1>2
<1>9. \A f \in Fingerprint : open'[f] # NoIncident =>
         \E i \in Id : IsOpenRow(i) /\ open'[f] = repo[i] /\ repo[i].fingerprint = f
  BY <1>5, <1>8
<1>10. TypeOK'
  <2>1. open' \in [Fingerprint -> Incident \cup {NoIncident}]
    BY <1>2, <1>4, <1>9
  <2> QED
    BY <1>1, <1>2, <2>1 DEF TypeOK
<1>11. ControlInv' /\ CurInv' /\ UnsavedInv'
  BY <1>1, <1>2, <1>3 DEF ControlInv, CurInv, UnsavedInv
<1>12. MapInv' /\ RowInv' /\ KeyInv'
  BY <1>1, <1>2, <1>4, <1>9 DEF MapInv, RowInv, KeyInv
<1>13. AheadInv'
  BY <1>2, <1>3, <1>4, <1>9, RankFacts DEF AheadInv, Precedes
<1>14. SyncInv'
  <2>1. \A f \in Fingerprint : open'[f] # NoIncident => repo'[open'[f].id] = open'[f]
    BY <1>2, <1>4, <1>9
  <2>2. ASSUME NEW i \in Id, IsOpenRow(i)'
        PROVE  /\ open'[repo'[i].fingerprint] # NoIncident
               /\ open'[repo'[i].fingerprint].id = i
    <3>1. IsOpenRow(i) /\ repo' = repo
      BY <1>2, <2>2 DEF IsOpenRow
    <3>2. open'[repo[i].fingerprint] \in load_open
          /\ open'[repo[i].fingerprint].fingerprint = repo[i].fingerprint
      BY <1>4, <1>6, <1>8, <3>1
    <3>3. open'[repo[i].fingerprint] = repo[i]
      BY <1>6, <1>7, <3>1, <3>2
    <3> QED
      BY <1>4, <3>1, <3>3 DEF IsOpenRow
  <2> QED
    BY <2>1, <2>2 DEF SyncInv
<1>15. OneOpenRowPerFingerprint'
  BY <1>2, <1>4, <1>6, <1>7 DEF OneOpenRowPerFingerprint, IsOpenRow
<1>16. SignalInv'
  BY <1>1, <1>2, <1>3, <1>9 DEF SignalInv, EvidenceRecorded, IsOpenRow
<1>17. AnnounceInv'
  BY <1>1, <1>2, <1>3 DEF AnnounceInv, AnnouncedIsDurable
<1> QED
  BY <1>10, <1>11, <1>12, <1>13, <1>14, <1>15, <1>16, <1>17 DEF Inv

-----------------------------------------------------------------------------
(* One step of the consumer, of a stop or of a boot preserves Inv. *)
LEMMA StepInv == Inv /\ [Next]_vars => Inv'
<1> SUFFICES ASSUME Inv, [Next]_vars PROVE Inv'
  OBVIOUS
<1>1. CASE \E d \in Draft : handle_record_signal(d)
  BY <1>1, UntouchedPreserves, TouchPreserves, OpenPreserves, ResolvePreserves
     DEF handle_record_signal
<1>2. CASE SignalRecorded
  BY <1>2, SignalRecordedPreserves
<1>3. CASE SaveOk \/ SaveRetry \/ SaveExhausted
  BY <1>3, SaveOkPreserves, SaveRetryPreserves, SaveExhaustedPreserves
<1>4. CASE Announce
  BY <1>4, AnnouncePreserves
<1>5. CASE Stop \/ Boot \/ BootPanic
  BY <1>5, StopPreserves, BootPreserves, BootPanicPreserves
<1>6. CASE UNCHANGED vars
  <2>1. UNCHANGED <<mode, open, pc, cur, life, sig, tries, repo, store, nextId, nextSig,
                    lost, unsaved, exhausted, announced>>
    BY <1>6 DEF vars
  <2>2. TypeOK'
    BY <2>1 DEF Inv, TypeOK
  <2>3. ControlInv' /\ MapInv' /\ RowInv' /\ KeyInv' /\ CurInv' /\ UnsavedInv'
        /\ SignalInv' /\ AnnounceInv'
    BY <2>1 DEF Inv, ControlInv, MapInv, RowInv, KeyInv, CurInv, UnsavedInv, SignalInv,
                EvidenceRecorded, AnnounceInv, AnnouncedIsDurable
  <2>4. AheadInv' /\ SyncInv' /\ OneOpenRowPerFingerprint'
    BY <2>1 DEF Inv, AheadInv, SyncInv, OneOpenRowPerFingerprint, IsOpenRow, Unwritten,
                Precedes
  <2> QED
    BY <2>2, <2>3, <2>4 DEF Inv
<1> QED
  BY <1>1, <1>2, <1>3, <1>4, <1>5, <1>6 DEF Next

(* The inductive invariant holds in every reachable state of the engine,     *)
(* its repository and its reboots, for any fingerprints and any bounds.      *)
THEOREM Invariance == Spec => []Inv
<1>1. QED
  BY InitInv, StepInv, PTL DEF Spec

(* Every variable of the engine and its tables keeps its type. *)
THEOREM TypeCorrect == Spec => []TypeOK
<1>1. Inv => TypeOK
  BY DEF Inv
<1> QED
  BY <1>1, Invariance, PTL

(* Between drafts the map of open incidents and the open rows agree, but for *)
(* the incidents whose last save was given up.                               *)
THEOREM WriteThroughHolds == Spec => []WriteThrough
<1>1. Inv => WriteThrough
  <2> SUFFICES ASSUME Inv, mode = "up", pc = "idle"
               PROVE  /\ \A f \in Fingerprint :
                            open[f] # NoIncident /\ open[f].id \notin unsaved =>
                                repo[open[f].id] = open[f]
                      /\ \A i \in Id : IsOpenRow(i) /\ i \notin unsaved =>
                            open[repo[i].fingerprint] = repo[i]
    BY DEF WriteThrough
  <2>1. \A f \in Fingerprint : open[f] # NoIncident /\ open[f].id \notin unsaved =>
            repo[open[f].id] = open[f]
    BY DEF Inv, SyncInv, Unwritten
  <2>2. \A i \in Id : IsOpenRow(i) => repo[i].fingerprint \in Fingerprint
    BY DEF Inv, TypeOK, IsOpenRow, Incident
  <2> QED
    BY <2>1, <2>2 DEF Inv, SyncInv, Unwritten
<1> QED
  BY <1>1, Invariance, PTL

(* Two open rows share a fingerprint only if one of them lost a save, at     *)
(* every moment of every run: boot can only panic after an exhausted save.   *)
THEOREM OneOpenRow == Spec => []OneOpenRowPerFingerprint
<1>1. Inv => OneOpenRowPerFingerprint
  BY DEF Inv
<1> QED
  BY <1>1, Invariance, PTL

(* What was announced is in the repository, whatever crashed since. *)
THEOREM AnnouncedDurable == Spec => []AnnouncedIsDurable
<1>1. Inv => AnnouncedIsDurable
  BY DEF Inv, AnnounceInv
<1> QED
  BY <1>1, Invariance, PTL

(* Every signal a saved incident cites was recorded, or its append failed. *)
THEOREM EvidenceIsRecorded == Spec => []EvidenceRecorded
<1>1. Inv => EvidenceRecorded
  BY DEF Inv, SignalInv
<1> QED
  BY <1>1, Invariance, PTL

(* No announcement repeats or contradicts an earlier one of the incident,    *)
(* unless the incident lost a save.                                          *)
THEOREM NewsOnly == Spec => AnnouncementsAreNews
<1>1. Inv /\ [Next]_vars =>
        [Announce => \/ cur.id \in exhausted
                     \/ \A a \in announced : a.id = cur.id =>
                          /\ a.kind # "Resolved"
                          /\ \/ life = "Resolved"
                             \/ severity_rank(a.severity) < severity_rank(cur.severity)]_vars
  <2> SUFFICES ASSUME Inv, Announce, cur.id \notin exhausted
               PROVE  \A a \in announced : a.id = cur.id =>
                        /\ a.kind # "Resolved"
                        /\ \/ life = "Resolved"
                           \/ severity_rank(a.severity) < severity_rank(cur.severity)
    OBVIOUS
  <2>1. cur # NoIncident /\ life \in Kind
    BY DEF Inv, Announce, ControlInv, TypeOK
  <2> QED
    BY <2>1 DEF Inv, AnnounceInv, Kind
<1> QED
  BY <1>1, Invariance, PTL DEF Spec, AnnouncementsAreNews

(* Rows are never deleted or reopened, and never lose severity or signals. *)
THEOREM RowsAdvance == Spec => RowsOnlyAdvance
<1>1. Inv /\ [Next]_vars => [\A i \in Id : RowAdvances(i)]_vars
  <2> SUFFICES ASSUME Inv, Next, NEW i \in Id PROVE RowAdvances(i)
    OBVIOUS
  <2>1. repo[i] # NoIncident => repo[i].severity \in Severity
    BY DEF Inv, TypeOK, Incident
  <2>2. CASE SaveOk
    <3>1. /\ cur # NoIncident /\ cur \in Incident /\ Unwritten
          /\ cur.id \in Id /\ repo' = [repo EXCEPT ![cur.id] = cur]
      BY <2>2, AfterSaveFacts DEF SaveOk
    <3>2. repo'[cur.id] = cur /\ \A j \in Id : j # cur.id => repo'[j] = repo[j]
      BY <3>1 DEF Inv, TypeOK
    <3>3. repo[cur.id] # NoIncident => Precedes(repo[cur.id], cur)
      BY <3>1 DEF Inv, AheadInv
    <3>4. cur.severity \in Severity
      BY <3>1 DEF Incident
    <3> QED
      BY <2>1, <3>1, <3>2, <3>3, <3>4, RankFacts DEF RowAdvances, Precedes
  <2>3. CASE repo' = repo
    BY <2>1, <2>3, RankFacts DEF RowAdvances
  <2>4. SaveOk \/ repo' = repo
    BY DEF Next, handle_record_signal, DraftBelowConfidenceFloor, TouchIncident,
           OpenIncident, ResolveIncident, ClearNothing, Emit, SignalRecorded, SaveRetry,
           SaveExhausted, Announce, Stop, Boot, BootPanic, durable
  <2> QED
    BY <2>2, <2>3, <2>4
<1> QED
  BY <1>1, Invariance, PTL DEF Spec, RowsOnlyAdvance

-----------------------------------------------------------------------------
(* The refinement.  When no save runs out of tries, the row of the event at  *)
(* hand is absent exactly if the event opens it, and a resolution keeps the  *)
(* severity the row has.                                                     *)
SavedInv ==
    /\ unsaved = {}
    /\ Unwritten => \/ life = "Opened" /\ repo[cur.id] = NoIncident
                    \/ /\ life # "Opened" /\ repo[cur.id] # NoIncident
                       /\ life = "Resolved" => repo[cur.id].severity = cur.severity
    /\ mode # "panicked"

(* While saves always succeed in the end, the rows lag behind the map by at *)
(* most the incident in hand.                                               *)
LEMMA SavedStep ==
    ASSUME Inv, SavedInv, [Next]_vars, exhausted' = {}
    PROVE  SavedInv'
<1>1. TypeOK /\ ControlInv /\ MapInv /\ RowInv /\ SyncInv /\ OneOpenRowPerFingerprint
  BY DEF Inv
<1>2. ASSUME NEW d \in Draft, DraftBelowConfidenceFloor(d) \/ ClearNothing(d)
      PROVE  SavedInv'
  BY <1>1, <1>2, UntouchedFacts, EmitFacts DEF SavedInv, Unwritten
<1>3. ASSUME NEW d \in Draft, TouchIncident(d)
      PROVE  SavedInv'
  <2> DEFINE f == d.fingerprint
  <2>1. /\ mode = "up" /\ pc = "idle" /\ mode' = mode /\ UNCHANGED <<repo, unsaved>>
        /\ f \in Fingerprint /\ open[f] \in Incident /\ cur'.id = open[f].id
        /\ life' \in {"none", "Escalated"}
    BY <1>1, <1>3, TouchedFacts, EmitFacts DEF TouchIncident
  <2>2. open[f] # NoIncident /\ repo[open[f].id] = open[f]
    BY <1>1, <2>1, EngineAssumption DEF SyncInv, SavedInv, Unwritten
  <2> QED
    BY <2>1, <2>2 DEF SavedInv
<1>4. ASSUME NEW d \in Draft, OpenIncident(d)
      PROVE  SavedInv'
  <2>1. /\ mode = "up" /\ mode' = mode /\ UNCHANGED <<repo, unsaved>>
        /\ cur'.id = nextId /\ nextId \in Id /\ life' = "Opened"
    BY <1>1, <1>4, OpenedFacts, EmitFacts DEF OpenIncident
  <2>2. repo[nextId] = NoIncident
    BY <1>1, <2>1 DEF RowInv, Id
  <2> QED
    BY <2>1, <2>2 DEF SavedInv
<1>5. ASSUME NEW d \in Draft, ResolveIncident(d)
      PROVE  SavedInv'
  <2> DEFINE f == d.fingerprint
  <2>1. /\ mode = "up" /\ pc = "idle" /\ mode' = mode /\ UNCHANGED <<repo, unsaved>>
        /\ f \in Fingerprint /\ open[f] \in Incident /\ cur'.id = open[f].id
        /\ life' = "Resolved" /\ cur'.severity = open[f].severity
    BY <1>1, <1>5, ResolvedFacts, EmitFacts DEF ResolveIncident
  <2>2. open[f] # NoIncident /\ repo[open[f].id] = open[f]
    BY <1>1, <2>1, EngineAssumption DEF SyncInv, SavedInv, Unwritten
  <2> QED
    BY <2>1, <2>2 DEF SavedInv
<1>6. CASE SignalRecorded
  BY <1>6 DEF SignalRecorded, Goto, AfterRecord, history, SavedInv, Unwritten
<1>7. CASE SaveOk
  <2>1. ~Unwritten' /\ unsaved' = {} /\ mode' = mode
    BY <1>7, AfterSaveFacts DEF SaveOk, SavedInv
  <2> QED
    BY <2>1 DEF SavedInv
<1>8. CASE SaveRetry
  BY <1>8 DEF SaveRetry, durable, history, SavedInv, Unwritten
<1>9. CASE SaveExhausted
  BY <1>9 DEF SaveExhausted
<1>10. CASE Announce
  BY <1>10 DEF Announce, Goto, SavedInv, Unwritten
<1>11. CASE Stop
  BY <1>11 DEF Stop, Goto, history, SavedInv, Unwritten
<1>12. CASE Boot
  <2>1. pc = "idle" /\ pc' = pc /\ unsaved' = {} /\ mode' = "up"
    BY <1>1, <1>12 DEF Boot, ControlInv
  <2> QED
    BY <2>1 DEF SavedInv, Unwritten
<1>13. CASE BootPanic
  <2>1. PICK a \in load_open, b \in load_open : a # b /\ a.fingerprint = b.fingerprint
    BY <1>13 DEF BootPanic, DuplicateFingerprint
  <2>2. PICK i \in Id, j \in Id : IsOpenRow(i) /\ IsOpenRow(j) /\ a = repo[i] /\ b = repo[j]
    BY DEF load_open
  <2> QED
    BY <1>1, <2>1, <2>2 DEF OneOpenRowPerFingerprint, SavedInv
<1>14. CASE UNCHANGED vars
  BY <1>14 DEF vars, SavedInv, Unwritten
<1> QED
  BY <1>2, <1>3, <1>4, <1>5, <1>6, <1>7, <1>8, <1>9, <1>10, <1>11, <1>12, <1>13, <1>14
     DEF Next, handle_record_signal

(* A save that was given up is remembered. *)
LEMMA ExhaustedGrows ==
    ASSUME [Next]_vars PROVE exhausted \subseteq exhausted'
BY DEF Next, handle_record_signal, DraftBelowConfidenceFloor, TouchIncident,
       OpenIncident, ResolveIncident, ClearNothing, Emit, SignalRecorded, SaveOk, SaveRetry,
       SaveExhausted, Announce, Stop, Boot, BootPanic, history, vars

(* Hence that holds until the first save is given up. *)
LEMMA SavedInvariance == Spec => [](Inv /\ (exhausted = {} => SavedInv))
<1>1. Init => SavedInv
  BY DEF Init, SavedInv, Unwritten
<1>2. Inv /\ (exhausted = {} => SavedInv) /\ [Next]_vars => (exhausted = {} => SavedInv)'
  BY SavedStep, ExhaustedGrows
<1> QED
  BY <1>1, <1>2, InitInv, StepInv, PTL DEF Spec

(* Boot never panics, as long as every save gets through in its three tries: *)
(* crashes alone never leave two open rows with one fingerprint.             *)
THEOREM BootSurvivesCrashes == Spec => []CrashesNeverPanic
<1>1. (exhausted = {} => SavedInv) => CrashesNeverPanic
  BY DEF SavedInv, CrashesNeverPanic, BootNeverPanics
<1> QED
  BY <1>1, SavedInvariance, PTL

(* Every step maps to a step of the ledger or leaves it as it is. *)
LEMMA LedgerStep ==
    ASSUME Inv, SavedInv, [Next]_vars
    PROVE  [Ledger!Next]_LedgerView
<1>1. CASE repo' = repo
  BY <1>1 DEF LedgerView
<1>2. CASE SaveOk
  <2>1. /\ cur # NoIncident /\ cur \in Incident /\ Unwritten
        /\ cur.id \in Id /\ cur.fingerprint \in Fingerprint
        /\ repo' = [repo EXCEPT ![cur.id] = cur] /\ mode = "up"
    BY <1>2, AfterSaveFacts DEF SaveOk
  <2>2. cur.severity \in Severity /\ cur.status \in {"Open", "Resolved"}
    BY <2>1 DEF Incident
  <2>3. severity_rank(cur.severity) \in 0..2
    BY <2>2, RankFacts
  <2> DEFINE new == [fingerprint |-> cur.fingerprint,
                     rank |-> severity_rank(cur.severity), status |-> cur.status]
  <2>4. LedgerView' = [LedgerView EXCEPT ![cur.id] = new]
    BY <2>1 DEF LedgerView, Inv, TypeOK
  <2>5. CASE life = "Opened"
    <3>1. repo[cur.id] = NoIncident /\ cur.status = "Open"
      BY <2>1, <2>2, <2>5 DEF SavedInv, Inv, CurInv
    <3>2. ASSUME NEW j \in Id, Ledger!IsOpen(j), LedgerView[j].fingerprint = cur.fingerprint
          PROVE  FALSE
      <4>1. IsOpenRow(j) /\ repo[j].fingerprint = cur.fingerprint
        BY <3>2 DEF Ledger!IsOpen, LedgerView, IsOpenRow
      <4>2. open[cur.fingerprint] = cur
        BY <2>1, <3>1 DEF Inv, CurInv
      <4>3. open[repo[j].fingerprint].id = j
        BY <2>1, <3>1, <4>1 DEF Inv, SyncInv, SavedInv
      <4> QED
        BY <3>1, <4>1, <4>2, <4>3 DEF IsOpenRow
    <3>3. LedgerView[cur.id] = NoIncident
      BY <2>1, <3>1 DEF LedgerView
    <3>4. Ledger!Open(cur.id, cur.fingerprint, severity_rank(cur.severity))
      BY <2>4, <3>1, <3>2, <3>3 DEF Ledger!Open
    <3> QED
      BY <2>1, <2>3, <3>4 DEF Ledger!Next
  <2>6. CASE life # "Opened"
    <3> DEFINE old == [fingerprint |-> repo[cur.id].fingerprint,
                       rank |-> severity_rank(repo[cur.id].severity),
                       status |-> repo[cur.id].status]
    <3>1. /\ repo[cur.id] # NoIncident
          /\ life = "Resolved" => repo[cur.id].severity = cur.severity
      BY <2>1, <2>6 DEF SavedInv
    <3>2. Precedes(repo[cur.id], cur)
      BY <2>1, <3>1 DEF Inv, AheadInv
    <3>3. LedgerView[cur.id] = old /\ old.status = "Open" /\ Ledger!IsOpen(cur.id)
      <4>1. LedgerView[cur.id] = old
        BY <2>1, <3>1 DEF LedgerView
      <4>2. repo[cur.id] \in Incident
        BY <2>1, <3>1 DEF Inv, TypeOK
      <4>3. repo[cur.id].fingerprint \in Fingerprint /\ repo[cur.id].severity \in Severity
        BY <4>2 DEF Incident
      <4>4. old # NoIncident
        BY <3>2, <4>3, RankFacts, EngineAssumption DEF Precedes
      <4> QED
        BY <4>1, <4>4, <3>2 DEF Ledger!IsOpen, Precedes
    <3>4. CASE life = "Resolved"
      <4>1. new = [old EXCEPT !.status = "Resolved"]
        BY <2>1, <3>1, <3>2, <3>4 DEF Precedes, Inv, CurInv
      <4>2. LedgerView' = [LedgerView EXCEPT ![cur.id].status = "Resolved"]
        BY <2>1, <2>4, <3>3, <4>1 DEF LedgerView
      <4>3. Ledger!Resolve(cur.id)
        BY <3>3, <4>2 DEF Ledger!Resolve
      <4> QED
        BY <2>1, <4>3 DEF Ledger!Next
    <3>5. CASE life # "Resolved"
      <4>1. new = [old EXCEPT !.rank = severity_rank(cur.severity)]
        BY <2>1, <2>2, <3>1, <3>2, <3>5 DEF Precedes, Inv, CurInv
      <4>2. LedgerView' = [LedgerView EXCEPT ![cur.id].rank = severity_rank(cur.severity)]
        BY <2>1, <2>4, <3>3, <4>1 DEF LedgerView
      <4>3. CASE severity_rank(cur.severity) > old.rank
        <5>1. Ledger!Escalate(cur.id, severity_rank(cur.severity))
          BY <3>3, <4>2, <4>3 DEF Ledger!Escalate
        <5> QED
          BY <2>1, <2>3, <5>1 DEF Ledger!Next
      <4>4. CASE severity_rank(cur.severity) = old.rank
        BY <2>1, <3>3, <4>2, <4>4 DEF LedgerView
      <4>5. severity_rank(cur.severity) >= old.rank /\ old.rank \in 0..2
        <5>1. repo[cur.id].severity \in Severity
          BY <2>1, <3>1 DEF Inv, TypeOK, Incident
        <5> QED
          BY <2>3, <3>2, <5>1, RankFacts DEF Precedes
      <4> QED
        BY <2>3, <4>3, <4>4, <4>5
    <3> QED
      BY <3>4, <3>5
  <2> QED
    BY <2>5, <2>6
<1>3. SaveOk \/ repo' = repo
  BY DEF Next, handle_record_signal, DraftBelowConfidenceFloor, TouchIncident,
         OpenIncident, ResolveIncident, ClearNothing, Emit, SignalRecorded, SaveRetry,
         SaveExhausted, Announce, Stop, Boot, BootPanic, durable, vars
<1> QED
  BY <1>1, <1>2, <1>3

(* As long as every save gets through in its three tries, the incidents      *)
(* table is a correct ledger: the detailed specification, with its memory,   *)
(* retries, crashes and boots, implements IncidentLedger.                    *)
THEOREM LedgerRefinement == Spec => ImplementsLedger
<1>1. Init => Ledger!Init
  BY DEF Init, Ledger!Init, LedgerView
<1>2. Inv /\ (exhausted = {} => SavedInv) /\ [Next]_vars
        => [exhausted' = {} => [Ledger!Next]_LedgerView]_vars
  BY LedgerStep, ExhaustedGrows
<1> QED
  BY <1>1, <1>2, SavedInvariance, PTL DEF Spec, ImplementsLedger
=============================================================================
