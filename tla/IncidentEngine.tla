--------------------------- MODULE IncidentEngine ---------------------------
(***************************************************************************)
(* The incident engine of bithound and its write-through to the incident   *)
(* repository: src/incidents/engine.rs (the state machine), the part of    *)
(* src/runtime/consumer.rs that carries out the events the engine emits,   *)
(* src/storage/sqlite/incident_repository.rs (load_open, save) and the     *)
(* boot that rebuilds the engine from storage (src/main.rs).               *)
(*                                                                         *)
(* The consumer is the single writer.  It hands a draft to the engine,     *)
(* which mutates its map of open incidents at once, and then carries out   *)
(* the emitted events one by one, each behind an await:                    *)
(*                                                                         *)
(*   SignalRecorded -> append the signal observation        (pc "record")  *)
(*   IncidentTouched -> save the incident, three tries      (pc "save")    *)
(*   Lifecycle       -> hand it to notification dispatch    (pc "announce")*)
(*                                                                         *)
(* The process may stop at every one of these points (crash, kill, or the  *)
(* shutdown deadline's abort_all) and boots again from the rows that were  *)
(* saved.  Times, evidence payloads and texts are abstracted away.         *)
(***************************************************************************)
EXTENDS Integers, FiniteSets

CONSTANTS
    Fingerprint,     \* identities of conditions (kind, subject, dimension)
    Floor,           \* min_open_confidence of each fingerprint's kind
    NoIncident,      \* "None" of Option<Incident>
    MaxIncidents,    \* bound: incident ids that may be allocated
    MaxSignals       \* bound: drafts that may be handled

Severity   == {"Info", "Warning", "Critical"}
Confidence == {"Low", "Medium", "High"}
Id         == 1..MaxIncidents
Signal     == 1..MaxSignals

Draft == [fingerprint : Fingerprint, status : {"Active", "Cleared"},
          severity : Severity, confidence : Confidence]

(* The engine and the repository only ever hold Open and Resolved incidents: *)
(* Acknowledged and Suppressed exist in the enum but no code produces them.  *)
Incident == [id : Id, fingerprint : Fingerprint, severity : Severity,
             status : {"Open", "Resolved"}, signals : SUBSET Signal]

Kind == {"Opened", "Escalated", "Resolved"}

ASSUME EngineAssumption ==
    /\ Floor \in [Fingerprint -> Confidence]
    /\ NoIncident \notin Incident
    /\ NoIncident \notin [fingerprint : Fingerprint, rank : 0..2,
                         status : {"Open", "Resolved"}]
    /\ MaxIncidents \in Nat
    /\ MaxSignals \in Nat

VARIABLES
    (* volatile: lost when the process stops *)
    mode,       \* "up", "down" or "panicked" (IncidentEngine::new panicked)
    open,       \* IncidentEngine.open_incidents
    pc,         \* what the consumer's event loop does next
    cur,        \* the incident of the event at hand, NoIncident if it has none
    life,       \* the Lifecycle event that follows it, "none" if there is none
    sig,        \* the signal observation the engine emitted for this draft
    tries,      \* save attempts that have failed so far
    (* durable: the database *)
    repo,       \* incidents table
    store,      \* observations table: the signal observations in it
    (* fresh-identifier counters (random UUIDs in the code) *)
    nextId, nextSig,
    (* history, read by no action *)
    lost,       \* signals whose append failed
    unsaved,    \* incidents whose last save was given up, and not redone since
    exhausted,  \* incidents that ever had a save given up
    announced   \* lifecycle events handed to notification dispatch

vars == <<mode, open, pc, cur, life, sig, tries, repo, store, nextId, nextSig,
          lost, unsaved, exhausted, announced>>

durable == <<repo, store, lost>>
ids     == <<nextId, nextSig>>
history == <<unsaved, exhausted, announced>>

-----------------------------------------------------------------------------
(* Ranks and comparisons of engine.rs *)

severity_rank(s) == IF s = "Info" THEN 0 ELSE IF s = "Warning" THEN 1 ELSE 2

confidence_rank(c) == IF c = "Low" THEN 0 ELSE IF c = "Medium" THEN 1 ELSE 2

(* Slip: the latest severity replaces the highest. *)
LatestSeverity(a, b) == b

max_severity(a, b) == IF severity_rank(a) >= severity_rank(b) THEN a ELSE b

BelowFloor(d) ==
    confidence_rank(d.confidence) < confidence_rank(Floor[d.fingerprint])

(* SELECT ... WHERE status != 'Resolved' *)
IsOpenRow(i) == repo[i] # NoIncident /\ repo[i].status # "Resolved"

(* Slip: the engine is built with no incidents at boot. *)
LoadNothing == {}

load_open == {repo[i] : i \in {j \in Id : IsOpenRow(j)}}

-----------------------------------------------------------------------------
Init ==
    /\ mode = "up"
    /\ open = [f \in Fingerprint |-> NoIncident]
    /\ pc = "idle" /\ cur = NoIncident /\ life = "none" /\ sig = 0 /\ tries = 0
    /\ repo = [i \in Id |-> NoIncident]
    /\ store = {} /\ lost = {}
    /\ nextId = 1 /\ nextSig = 1
    /\ unsaved = {} /\ exhausted = {} /\ announced = {}

(***************************************************************************)
(* handle_record_signal.  Each case below emits SignalRecorded for the new *)
(* signal nextSig, and then IncidentTouched(inc) and Lifecycle(kind) where *)
(* it has them.  A draft the registry rejects returns Err before anything  *)
(* changes, and so do the Acknowledge and Resolve commands: no step.       *)
(***************************************************************************)
(* Slip: the incident is saved and the signal it cites is never recorded. *)
EmitSaveFirst(inc, kind) ==
    /\ mode = "up" /\ pc = "idle" /\ nextSig <= MaxSignals
    /\ pc' = IF inc = NoIncident THEN "record" ELSE "save"
    /\ sig' = nextSig
    /\ nextSig' = nextSig + 1
    /\ cur' = inc
    /\ life' = kind
    /\ tries' = 0
    /\ UNCHANGED <<mode, durable, history>>

Emit(inc, kind) ==
    /\ mode = "up" /\ pc = "idle" /\ nextSig <= MaxSignals
    /\ pc' = "record"
    /\ sig' = nextSig
    /\ nextSig' = nextSig + 1
    /\ cur' = inc
    /\ life' = kind
    /\ tries' = 0
    /\ UNCHANGED <<mode, durable, history>>

(* An Active draft below the kind's confidence floor is recorded, and logged *)
(* by DraftBelowConfidenceFloor, but touches no incident.                    *)
DraftBelowConfidenceFloor(d) ==
    /\ d.status = "Active"
    /\ BelowFloor(d)
    /\ Emit(NoIncident, "none")
    /\ UNCHANGED <<open, nextId>>

(* Slip: an equal severity counts as an escalation. *)
TouchEscalatesEqual(d) ==
    LET f        == d.fingerprint
        existing == open[f]
        touched  == [existing EXCEPT
                        !.severity = max_severity(existing.severity, d.severity),
                        !.signals  = @ \cup {nextSig}]
    IN  /\ d.status = "Active"
        /\ ~BelowFloor(d)
        /\ existing # NoIncident
        /\ open' = [open EXCEPT ![f] = touched]
        /\ Emit(touched,
                IF severity_rank(touched.severity) >= severity_rank(existing.severity)
                THEN "Escalated" ELSE "none")
        /\ UNCHANGED nextId

(* An Active draft for an open incident raises its severity, never lowers it. *)
TouchIncident(d) ==
    LET f        == d.fingerprint
        existing == open[f]
        touched  == [existing EXCEPT
                        !.severity = max_severity(existing.severity, d.severity),
                        !.signals  = @ \cup {nextSig}]
    IN  /\ d.status = "Active"
        /\ ~BelowFloor(d)
        /\ existing # NoIncident
        /\ open' = [open EXCEPT ![f] = touched]
        /\ Emit(touched,
                IF severity_rank(touched.severity) > severity_rank(existing.severity)
                THEN "Escalated" ELSE "none")
        /\ UNCHANGED nextId

(* An Active draft with no open incident opens one under a fresh id. *)
OpenIncident(d) ==
    LET f   == d.fingerprint
        inc == [id |-> nextId, fingerprint |-> f, severity |-> d.severity,
                status |-> "Open", signals |-> {nextSig}]
    IN  /\ d.status = "Active"
        /\ ~BelowFloor(d)
        /\ open[f] = NoIncident
        /\ nextId <= MaxIncidents
        /\ open' = [open EXCEPT ![f] = inc]
        /\ nextId' = nextId + 1
        /\ Emit(inc, "Opened")

(* Slip: the resolved incident is looked up but not removed from the map. *)
ResolveKeepsEntry(d) ==
    LET f == d.fingerprint
        resolved == [open[f] EXCEPT !.status = "Resolved", !.signals = @ \cup {nextSig}]
    IN  /\ d.status = "Cleared"
        /\ open[f] # NoIncident
        /\ Emit(resolved, "Resolved")
        /\ UNCHANGED <<open, nextId>>

(* Slip: the resolved incident is not handed to the consumer to be saved. *)
ResolveUnsaved(d) ==
    /\ d.status = "Cleared"
    /\ open[d.fingerprint] # NoIncident
    /\ open' = [open EXCEPT ![d.fingerprint] = NoIncident]
    /\ Emit(NoIncident, "none")
    /\ UNCHANGED nextId

(* A Cleared draft removes the open incident from the map and resolves it,   *)
(* whatever the draft's confidence.                                          *)
ResolveIncident(d) ==
    LET f == d.fingerprint
        resolved == [open[f] EXCEPT !.status = "Resolved", !.signals = @ \cup {nextSig}]
    IN  /\ d.status = "Cleared"
        /\ open[f] # NoIncident
        /\ open' = [open EXCEPT ![f] = NoIncident]
        /\ Emit(resolved, "Resolved")
        /\ UNCHANGED nextId

(* A Cleared draft with nothing open is only recorded. *)
ClearNothing(d) ==
    /\ d.status = "Cleared"
    /\ open[d.fingerprint] = NoIncident
    /\ Emit(NoIncident, "none")
    /\ UNCHANGED <<open, nextId>>

handle_record_signal(d) ==
    \/ DraftBelowConfidenceFloor(d)
    \/ TouchIncident(d)
    \/ OpenIncident(d)
    \/ ResolveIncident(d)
    \/ ClearNothing(d)

(***************************************************************************)
(* process_engine_event: the consumer carries the events out in order.     *)
(***************************************************************************)
(* The event at hand is done: go on to the next one, or return to the        *)
(* channel, where the draft's locals go out of scope.                        *)
Goto(p) ==
    /\ pc' = p
    /\ IF p = "idle"
       THEN cur' = NoIncident /\ life' = "none" /\ sig' = 0 /\ tries' = 0
       ELSE UNCHANGED <<cur, life, sig, tries>>

(* Slip: the lifecycle event is carried out before the save. *)
AnnounceFirst ==
    IF cur = NoIncident THEN "idle" ELSE IF life = "none" THEN "save" ELSE "announce"

AfterRecord == IF cur = NoIncident THEN "idle" ELSE "save"

AfterSave == IF life = "none" THEN "idle" ELSE "announce"

(* SignalRecorded: a failed append is logged and the next event follows. *)
SignalRecorded ==
    /\ pc = "record"
    /\ \/ store' = store \cup {sig} /\ UNCHANGED lost
       \/ lost' = lost \cup {sig} /\ UNCHANGED store
    /\ Goto(AfterRecord)
    /\ UNCHANGED <<mode, open, repo, ids, history>>

(* save: one upsert by id.  It succeeds on any of the three tries. *)
SaveOk ==
    /\ pc = "save"
    /\ repo' = [repo EXCEPT ![cur.id] = cur]
    /\ unsaved' = unsaved \ {cur.id}
    /\ Goto(AfterSave)
    /\ UNCHANGED <<mode, open, store, lost, ids, exhausted, announced>>

MaxTries == 3

(* Slip: the last failed try counts as one more delay. *)
SaveRetryOnceMore ==
    /\ pc = "save"
    /\ tries < MaxTries
    /\ tries' = tries + 1
    /\ UNCHANGED <<mode, open, pc, cur, life, sig, durable, ids, history>>

(* Slip: the delays are cycled through for as long as the save fails. *)
SaveRetryCycles ==
    /\ pc = "save"
    /\ tries' = (tries + 1) % MaxTries
    /\ UNCHANGED <<mode, open, pc, cur, life, sig, durable, ids, history>>

(* A failed try that is not the last one sleeps and tries again. *)
SaveRetry ==
    /\ pc = "save"
    /\ tries + 1 < MaxTries
    /\ tries' = tries + 1
    /\ UNCHANGED <<mode, open, pc, cur, life, sig, durable, ids, history>>

(* After the last failed try the event loop logs and goes on. *)
SaveExhausted ==
    /\ pc = "save"
    /\ tries + 1 = MaxTries
    /\ unsaved' = unsaved \cup {cur.id}
    /\ exhausted' = exhausted \cup {cur.id}
    /\ Goto(AfterSave)
    /\ UNCHANGED <<mode, open, durable, ids, announced>>

(* Lifecycle: handed to dispatch_lifecycle (module NotificationDelivery). *)
Announce ==
    /\ pc = "announce"
    /\ announced' = announced \cup
            {[id |-> cur.id, kind |-> life, severity |-> cur.severity]}
    /\ Goto("idle")
    /\ UNCHANGED <<mode, open, durable, ids, unsaved, exhausted>>

(***************************************************************************)
(* The process stops, at any await: its memory is gone.  It boots again    *)
(* from load_open; IncidentEngine::new panics when two of the loaded       *)
(* incidents share a fingerprint, at this boot and at every later one.     *)
(***************************************************************************)
Stop ==
    /\ mode = "up"
    /\ mode' = "down"
    /\ open' = [f \in Fingerprint |-> NoIncident]
    /\ Goto("idle")
    /\ UNCHANGED <<durable, ids, history>>

DuplicateFingerprint ==
    \E a, b \in load_open : a # b /\ a.fingerprint = b.fingerprint

Boot ==
    /\ mode \in {"down", "panicked"}
    /\ ~DuplicateFingerprint
    /\ mode' = "up"
    /\ open' = [f \in Fingerprint |->
                  IF \E a \in load_open : a.fingerprint = f
                  THEN CHOOSE a \in load_open : a.fingerprint = f
                  ELSE NoIncident]
    /\ unsaved' = {}        \* memory and storage agree again
    /\ UNCHANGED <<pc, cur, life, sig, tries, durable, ids, exhausted, announced>>

BootPanic ==
    /\ mode \in {"down", "panicked"}
    /\ DuplicateFingerprint
    /\ mode' = "panicked"
    /\ UNCHANGED <<open, pc, cur, life, sig, tries, durable, ids, history>>

-----------------------------------------------------------------------------
Save == SaveOk \/ SaveRetry \/ SaveExhausted

Next ==
    \/ \E d \in Draft : handle_record_signal(d)
    \/ SignalRecorded
    \/ SaveOk
    \/ SaveRetry
    \/ SaveExhausted
    \/ Announce
    \/ Stop
    \/ Boot
    \/ BootPanic

Spec == Init /\ [][Next]_vars

(* Every await of the event loop returns: append, save and the sleeps of the *)
(* retry are bounded, and the tokio scheduler runs a ready task.  Drafts,    *)
(* stops and boots are up to the environment and are not fair.               *)
Fairness == WF_vars(SignalRecorded) /\ WF_vars(Save) /\ WF_vars(Announce)

FairSpec == Spec /\ Fairness

-----------------------------------------------------------------------------
TypeOK ==
    /\ mode \in {"up", "down", "panicked"}
    /\ open \in [Fingerprint -> Incident \cup {NoIncident}]
    /\ pc \in {"idle", "record", "save", "announce"}
    /\ cur \in Incident \cup {NoIncident}
    /\ life \in Kind \cup {"none"}
    /\ sig \in Signal \cup {0}
    /\ tries \in 0..(MaxTries - 1)
    /\ repo \in [Id -> Incident \cup {NoIncident}]
    /\ store \subseteq Signal /\ lost \subseteq Signal
    /\ nextId \in 1..(MaxIncidents + 1)
    /\ nextSig \in 1..(MaxSignals + 1)
    /\ unsaved \subseteq Id /\ exhausted \subseteq Id
    /\ announced \subseteq [id : Id, kind : Kind, severity : Severity]

(* Write-through: whenever the consumer is between drafts, the map of open   *)
(* incidents and the open rows of the repository are the same, up to the     *)
(* incidents whose last save was given up.                                   *)
WriteThrough ==
    mode = "up" /\ pc = "idle" =>
        /\ \A f \in Fingerprint :
              open[f] # NoIncident /\ open[f].id \notin unsaved =>
                  repo[open[f].id] = open[f]
        /\ \A i \in Id :
              IsOpenRow(i) /\ i \notin unsaved => open[repo[i].fingerprint] = repo[i]

(* At every moment, mid-event and after a crash included, two open rows      *)
(* share a fingerprint only if one of them lost a save: the map's key is     *)
(* also the table's, although no unique index enforces it.                   *)
OneOpenRowPerFingerprint ==
    \A i, j \in Id :
        /\ IsOpenRow(i) /\ IsOpenRow(j) /\ i # j
        /\ repo[i].fingerprint = repo[j].fingerprint
        => i \in unsaved \/ j \in unsaved

(* An operator is told of a lifecycle event only after the repository holds  *)
(* it: the save precedes the announcement, and no crash undoes it.           *)
AnnouncedIsDurable ==
    \A a \in announced : a.id \notin exhausted =>
        /\ repo[a.id] # NoIncident
        /\ severity_rank(repo[a.id].severity) >= severity_rank(a.severity)
        /\ a.kind = "Resolved" => repo[a.id].status = "Resolved"

(* Every signal a saved incident cites is in the observations table, or its  *)
(* append failed: SignalRecorded is carried out before IncidentTouched.      *)
EvidenceRecorded ==
    \A i \in Id : repo[i] # NoIncident => repo[i].signals \subseteq store \cup lost

(* An announcement is news: nothing is announced of an incident after its    *)
(* resolution, and an opening or escalation announces a severity above all   *)
(* announced before, across crashes and reboots too.  Only an incident that  *)
(* lost a save may be announced again.                                       *)
AnnouncementsAreNews ==
    [][Announce => \/ cur.id \in exhausted
                   \/ \A a \in announced : a.id = cur.id =>
                        /\ a.kind # "Resolved"
                        /\ \/ life = "Resolved"
                           \/ severity_rank(a.severity) < severity_rank(cur.severity)]_vars

(* A row only advances: a resolved one is final, its severity never falls,   *)
(* the signals it cites are never dropped, and it is never deleted.          *)
RowAdvances(i) ==
    repo[i] # NoIncident =>
        /\ repo'[i] # NoIncident
        /\ repo'[i].fingerprint = repo[i].fingerprint
        /\ severity_rank(repo'[i].severity) >= severity_rank(repo[i].severity)
        /\ repo[i].signals \subseteq repo'[i].signals
        /\ repo[i].status = "Resolved" => repo'[i] = repo[i]

RowsOnlyAdvance == [][\A i \in Id : RowAdvances(i)]_vars

(* The save retries never hold the consumer up for good: every draft's       *)
(* events are carried out (or the process stops).                            *)
ConsumerReturns == pc # "idle" ~> pc = "idle"

(* The rows, as the abstract ledger sees them. *)
LedgerView ==
    [i \in Id |-> IF repo[i] = NoIncident THEN NoIncident
                  ELSE [fingerprint |-> repo[i].fingerprint,
                        rank |-> severity_rank(repo[i].severity),
                        status |-> repo[i].status]]

Ledger == INSTANCE IncidentLedger WITH NoEntry <- NoIncident, ledger <- LedgerView

(* As long as every save gets through within its three tries, the table is   *)
(* a correct ledger, whatever the crashes and reboots: every step up to the  *)
(* first save that is given up is one of the ledger or leaves it alone.      *)
ImplementsLedger ==
    Ledger!Init /\ [][exhausted' = {} => [Ledger!Next]_LedgerView]_vars

(* What engine.rs says of a duplicate fingerprint: it takes a corrupted      *)
(* database.  In this model the database loses nothing it accepted.          *)
BootNeverPanics == mode # "panicked"

(* Crashes alone, wherever they fall, never leave a table with which         *)
(* IncidentEngine::new panics: it takes a save that was given up.            *)
CrashesNeverPanic == exhausted = {} => BootNeverPanics
=============================================================================
