------------------------ MODULE NotificationDelivery ------------------------
(***************************************************************************)
(* From a lifecycle event to a finished row of notification_attempts:      *)
(* dispatch_lifecycle (src/runtime/consumer.rs) inserts one Pending row    *)
(* per matching rule and sends one dispatch through a bounded channel; the *)
(* worker (src/runtime/notification_worker.rs) calls the sender of every   *)
(* target and completes its row.  Consumer and worker are two tasks that   *)
(* interleave at every await.  The worker leaves when the shutdown is      *)
(* broadcast, whether or not the channel is empty; the process may be      *)
(* stopped anywhere, and a boot replays nothing.                           *)
(*                                                                         *)
(* An attempt (a random UUID in the code) is named by the event and the    *)
(* rule it is made for.  Targets are pushed in rule order, so a dispatch   *)
(* is an event with the set of its rules, worked off in ascending order.   *)
(***************************************************************************)
EXTENDS Integers, Sequences, FiniteSets, NotificationSenders, NotificationAttempts

CONSTANTS
    NRules,      \* number of notification rules in the configuration
    Configs,     \* configurations a behaviour may be about, see Config
    EventKind,   \* incident kinds that occur in lifecycle events
    MaxEvents    \* bound: lifecycle events that may occur

Severity == {"Info", "Warning", "Critical"}
RuleNo   == 1..NRules
EventNo  == 1..MaxEvents
Attempt  == EventNo \X RuleNo
Event    == [no : EventNo, kind : EventKind, severity : Severity]
Dispatch == [no : EventNo, rules : SUBSET RuleNo]

(* badHeader: a webhook rule with a header that HTTP does not allow *)
Rule == [enabled : BOOLEAN, kinds : SUBSET EventKind, min : Severity,
         target : TargetKind, badHeader : BOOLEAN]

(* rules: the rules, in order; sinks: the optional sinks that are configured; *)
(* capacity: that of the dispatch channel (256 in the code)                  *)
Config == [rules : [RuleNo -> Rule], sinks : SUBSET {"telegram", "discord"},
           capacity : Nat \ {0}]

ASSUME DeliveryAssumption ==
    /\ NRules \in Nat /\ MaxEvents \in Nat
    /\ Configs \subseteq Config

VARIABLES
    config,    \* never changes
    up,        \* the process runs
    shutdown,  \* the shutdown has been broadcast
    (* the consumer in dispatch_lifecycle *)
    cpc,       \* "idle", "insert", "send" or "exited"
    event,     \* the number of the event at hand; its matching rules that are
    todo,      \*   still to be inserted,
    inserted,  \*   and those inserted so far
    chan,      \* the dispatch channel
    (* the worker *)
    wpc,       \* "recv", "send", "complete", "exited", or "dead" (panicked)
    work,      \* the targets of the dispatch at hand that are not finished
    outcome,   \* the receipt of the one just sent
    (* durable *)
    rows,      \* notification_attempts
    next,      \* number of the next event
    (* history, read by no action *)
    matched,   \* rules that matched each event
    skipped,   \* attempts whose insert failed
    sent,      \* attempts handed to a sender
    arrived,   \* attempts whose message arrived
    undone,    \* attempts whose completion failed
    settled    \* events whose dispatch_lifecycle ran to its end

volatile == <<shutdown, cpc, event, todo, inserted, chan, wpc, work, outcome>>
consumer == <<cpc, event, todo, inserted>>
worker   == <<wpc, work, outcome>>
history  == <<next, matched, skipped, sent, arrived, undone, settled>>
vars     == <<config, up, volatile, rows, history>>

Absent  == [status |-> "absent", outcome |-> "none"]
Pending == [status |-> "Pending", outcome |-> "none"]
Row     == {Absent, Pending} \cup
           [status : {"Succeeded", "FailedTransient", "FailedPermanent"}, outcome : Outcome]

NoWork == [no |-> 0, rules |-> {}]

Least(S) == CHOOSE r \in S : \A s \in S : r <= s

-----------------------------------------------------------------------------
severity_rank(s) == IF s = "Info" THEN 0 ELSE IF s = "Warning" THEN 1 ELSE 2

severity_at_least(actual, floor) == severity_rank(actual) >= severity_rank(floor)

(* NotificationRule::matches *)
matches(rule, e) ==
    /\ rule.enabled
    /\ rule.kinds = {} \/ e.kind \in rule.kinds
    /\ severity_at_least(e.severity, rule.min)

-----------------------------------------------------------------------------
Idle(p) == cpc' = p /\ event' = 0 /\ todo' = {} /\ inserted' = {}

Init ==
    /\ config \in Configs
    /\ up = TRUE /\ shutdown = FALSE
    /\ cpc = "idle" /\ event = 0 /\ todo = {} /\ inserted = {}
    /\ chan = <<>>
    /\ wpc = "recv" /\ work = NoWork /\ outcome = "none"
    /\ rows = [a \in Attempt |-> Absent]
    /\ next = 1 /\ matched = [n \in EventNo |-> {}]
    /\ skipped = {} /\ sent = {} /\ arrived = {} /\ undone = {}
    /\ settled = {}

(***************************************************************************)
(* The consumer: dispatch_lifecycle                                        *)
(***************************************************************************)
(* A lifecycle event reaches dispatch_lifecycle.  No rule, no dispatch. *)
LifecycleEvent(e) ==
    LET m == {r \in RuleNo : matches(config.rules[r], e)}
    IN  /\ up /\ cpc = "idle"
        /\ e.no = next
        /\ next' = next + 1
        /\ matched' = [matched EXCEPT ![e.no] = m]
        /\ IF m = {}
           THEN Idle("idle") /\ settled' = settled \cup {e.no}
           ELSE /\ cpc' = "insert" /\ event' = e.no /\ todo' = m /\ inserted' = {}
                /\ UNCHANGED settled
        /\ UNCHANGED <<config, up, shutdown, chan, worker, rows, skipped, sent, arrived, undone>>

(* Where the loop over the rules goes once only `rest` is left to insert. *)
AfterInsert(rest, done) ==
    IF rest # {}
    THEN /\ cpc' = "insert" /\ todo' = rest /\ inserted' = done
         /\ UNCHANGED <<event, settled>>
    ELSE IF done # {}
    THEN /\ cpc' = "send" /\ todo' = {} /\ inserted' = done
         /\ UNCHANGED <<event, settled>>
    ELSE Idle("idle") /\ settled' = settled \cup {event}

InsertPending ==
    LET r == Least(todo)
    IN  /\ cpc = "insert"
        /\ rows' = [rows EXCEPT ![<<event, r>>] = Pending]
        /\ AfterInsert(todo \ {r}, inserted \cup {r})
        /\ UNCHANGED <<config, up, shutdown, chan, worker, next, matched, skipped, sent,
                       arrived, undone>>

(* Slip: the target is dispatched although its row could not be inserted. *)
InsertFailsUnnoticed ==
    LET r == Least(todo)
    IN  /\ cpc = "insert"
        /\ skipped' = skipped \cup {<<event, r>>}
        /\ AfterInsert(todo \ {r}, inserted \cup {r})
        /\ UNCHANGED <<config, up, shutdown, chan, worker, rows, next, matched, sent,
                       arrived, undone>>

InsertFails ==
    LET r == Least(todo)
    IN  /\ cpc = "insert"
        /\ skipped' = skipped \cup {<<event, r>>}
        /\ AfterInsert(todo \ {r}, inserted)
        /\ UNCHANGED <<config, up, shutdown, chan, worker, rows, next, matched, sent,
                       arrived, undone>>

ReceiverGone == wpc \in {"exited", "dead"}

(* Slip: one dispatch more than the channel has room for. *)
SendBeyondCapacity ==
    /\ cpc = "send" /\ ~ReceiverGone
    /\ Len(chan) <= config.capacity
    /\ chan' = Append(chan, [no |-> event, rules |-> inserted])
    /\ Idle("idle")
    /\ settled' = settled \cup {event}
    /\ UNCHANGED <<config, up, shutdown, worker, rows, next, matched, skipped, sent,
                   arrived, undone>>

(* notif_tx.send waits for room in the channel... *)
SendDispatch ==
    /\ cpc = "send" /\ ~ReceiverGone
    /\ Len(chan) < config.capacity
    /\ chan' = Append(chan, [no |-> event, rules |-> inserted])
    /\ Idle("idle")
    /\ settled' = settled \cup {event}
    /\ UNCHANGED <<config, up, shutdown, worker, rows, next, matched, skipped, sent,
                   arrived, undone>>

(* Slip: the wait for room does not notice that the worker has returned. *)
SendToClosedWaits ==
    /\ cpc = "send" /\ wpc = "dead"
    /\ Idle("idle")
    /\ settled' = settled \cup {event}
    /\ UNCHANGED <<config, up, shutdown, chan, worker, rows, next, matched, skipped, sent,
                   arrived, undone>>

(* ...and fails at once, even while waiting, when the worker is gone: the    *)
(* event is logged and dropped, its rows stay Pending.                       *)
SendToClosed ==
    /\ cpc = "send" /\ ReceiverGone
    /\ Idle("idle")
    /\ settled' = settled \cup {event}
    /\ UNCHANGED <<config, up, shutdown, chan, worker, rows, next, matched, skipped, sent,
                   arrived, undone>>

(* The consumer returns, after draining its batches, once every collector    *)
(* is gone; with collectors configured that takes a shutdown.                *)
ConsumerExit ==
    /\ up /\ cpc = "idle" /\ shutdown
    /\ Idle("exited")
    /\ UNCHANGED <<config, up, shutdown, chan, worker, rows, history>>

(***************************************************************************)
(* The worker: notification_worker::run and process_dispatch               *)
(***************************************************************************)
(* Slip: the newest dispatch is taken first. *)
RecvNewest ==
    /\ up /\ wpc = "recv" /\ chan # <<>>
    /\ work' = chan[Len(chan)]
    /\ chan' = SubSeq(chan, 1, Len(chan) - 1)
    /\ wpc' = "send"
    /\ UNCHANGED <<config, up, shutdown, consumer, outcome, rows, history>>

Recv ==
    /\ up /\ wpc = "recv" /\ chan # <<>>
    /\ work' = Head(chan)
    /\ chan' = Tail(chan)
    /\ wpc' = "send"
    /\ UNCHANGED <<config, up, shutdown, consumer, outcome, rows, history>>

(* The attempts in the channel. *)
Queued == UNION {{<<chan[i].no, r>> : r \in chan[i].rules} : i \in DOMAIN chan}

(* The select takes the shutdown branch, also when dispatches are waiting:   *)
(* they are dropped with the receiver.                                       *)
WorkerShutdown ==
    /\ up /\ wpc = "recv" /\ shutdown
    /\ wpc' = "exited"
    /\ chan' = <<>>
    /\ UNCHANGED <<config, up, shutdown, consumer, work, outcome, rows, next, matched, skipped,
                   sent, arrived, undone, settled>>

(* rx.recv() returns None: the consumer is gone and the channel is empty. *)
WorkerDrained ==
    /\ up /\ wpc = "recv" /\ cpc = "exited" /\ chan = <<>>
    /\ wpc' = "exited"
    /\ UNCHANGED <<config, up, shutdown, consumer, chan, work, outcome, rows, history>>

target == config.rules[Least(work.rules)]
attempt == <<work.no, Least(work.rules)>>

(* No request is made: the sink is not configured, or a header is malformed. *)
NotSendable ==
    \/ target.target \in {"telegram", "discord"} \ config.sinks
    \/ target.target = "webhook" /\ target.badHeader

(* NotifierSenders::dispatch *)
RefuseTarget ==
    /\ wpc = "send" /\ NotSendable
    /\ wpc' = "complete" /\ outcome' = "Permanent"
    /\ UNCHANGED <<config, up, shutdown, consumer, chan, work, rows, history>>

SendTarget ==
    /\ wpc = "send" /\ ~NotSendable
    /\ sent' = sent \cup {attempt}
    /\ \E res \in Results[target.target] :
          /\ arrived' = IF res.arrived THEN arrived \cup {attempt} ELSE arrived
          /\ IF res.outcome = "panic"
             THEN wpc' = "dead" /\ work' = NoWork /\ chan' = <<>> /\ outcome' = "none"
             ELSE wpc' = "complete" /\ outcome' = res.outcome /\ UNCHANGED <<work, chan>>
    /\ UNCHANGED <<config, up, shutdown, consumer, rows, next, matched, skipped, undone, settled>>

(* On to the next target, or back to the channel. *)
TargetDone ==
    LET rest == work.rules \ {Least(work.rules)}
    IN  /\ outcome' = "none"
        /\ IF rest = {} THEN wpc' = "recv" /\ work' = NoWork
           ELSE wpc' = "send" /\ work' = [work EXCEPT !.rules = rest]

(* Slip: the worker sends again what the service did not take. *)
CompleteAndRetry ==
    /\ wpc = "complete"
    /\ rows' = [rows EXCEPT ![attempt] =
                  [status |-> status_for_outcome(outcome, FALSE), outcome |-> outcome]]
    /\ IF outcome = "Transient" THEN wpc' = "send" /\ outcome' = "none" /\ UNCHANGED work
       ELSE TargetDone
    /\ UNCHANGED <<config, up, shutdown, consumer, chan, history>>

(* complete: UPDATE ... WHERE id = ?, with next_retry_at = None. *)
Complete ==
    /\ wpc = "complete"
    /\ rows' = [rows EXCEPT ![attempt] =
                  [status |-> status_for_outcome(outcome, FALSE), outcome |-> outcome]]
    /\ TargetDone
    /\ UNCHANGED <<config, up, shutdown, consumer, chan, history>>

(* Slip: a failed completion ends the loop over the targets. *)
CompleteFailsAndReturns ==
    /\ wpc = "complete"
    /\ undone' = undone \cup {attempt}
    /\ wpc' = "recv" /\ work' = NoWork /\ outcome' = "none"
    /\ UNCHANGED <<config, up, shutdown, consumer, chan, rows, next, matched, skipped,
                   sent, arrived, settled>>

(* A failed completion is logged; the row stays Pending. *)
CompleteFails ==
    /\ wpc = "complete"
    /\ undone' = undone \cup {attempt}
    /\ TargetDone
    /\ UNCHANGED <<config, up, shutdown, consumer, chan, rows, next, matched, skipped,
                   sent, arrived, settled>>

(***************************************************************************)
(* The process                                                             *)
(***************************************************************************)
Shutdown ==
    /\ up /\ ~shutdown
    /\ shutdown' = TRUE
    /\ UNCHANGED <<config, up, consumer, chan, worker, rows, history>>

Fresh ==
    /\ shutdown' = FALSE /\ chan' = <<>>
    /\ Idle("idle")
    /\ wpc' = "recv" /\ work' = NoWork /\ outcome' = "none"

(* A crash, a kill, the abort of the shutdown deadline, or a clean exit. *)
Stop ==
    /\ up /\ up' = FALSE
    /\ Fresh
    /\ UNCHANGED <<config, rows, history>>

(* Nothing reads the Pending rows back. *)
Boot ==
    /\ ~up /\ up' = TRUE
    /\ UNCHANGED <<config, volatile, rows, history>>

-----------------------------------------------------------------------------
ConsumerStep == InsertPending \/ InsertFails \/ SendDispatch \/ SendToClosed

WorkerStep == RefuseTarget \/ SendTarget \/ Complete \/ CompleteFails

Next ==
    \/ \E e \in Event : LifecycleEvent(e)
    \/ InsertPending
    \/ InsertFails
    \/ SendDispatch
    \/ SendToClosed
    \/ ConsumerExit
    \/ Recv
    \/ WorkerShutdown
    \/ WorkerDrained
    \/ RefuseTarget
    \/ SendTarget
    \/ Complete
    \/ CompleteFails
    \/ Shutdown
    \/ Stop
    \/ Boot

Spec == Init /\ [][Next]_vars

(* A ready task is polled again, the database answers, and every request is  *)
(* bounded by the 30 s timeout of the HTTP client.  Which ready branch the   *)
(* worker's select takes is not fair: events, the shutdown, stops and boots  *)
(* are up to the environment.                                                *)
Fairness ==
    /\ WF_vars(ConsumerStep)
    /\ WF_vars(WorkerStep)
    /\ WF_vars(Recv \/ WorkerShutdown \/ WorkerDrained)

FairSpec == Spec /\ Fairness

-----------------------------------------------------------------------------
TypeOK ==
    /\ config \in Configs
    /\ up \in BOOLEAN /\ shutdown \in BOOLEAN
    /\ cpc \in {"idle", "insert", "send", "exited"}
    /\ event \in EventNo \cup {0}
    /\ todo \subseteq RuleNo /\ inserted \subseteq RuleNo
    /\ chan \in Seq(Dispatch) /\ Len(chan) <= config.capacity
    /\ wpc \in {"recv", "send", "complete", "exited", "dead"}
    /\ work \in Dispatch \cup {NoWork}
    /\ outcome \in Outcome \cup {"none"}
    /\ rows \in [Attempt -> Row]
    /\ next \in 1..(MaxEvents + 1)
    /\ matched \in [EventNo -> SUBSET RuleNo]
    /\ skipped \subseteq Attempt /\ sent \subseteq Attempt /\ arrived \subseteq Attempt
    /\ undone \subseteq Attempt /\ settled \subseteq EventNo

(* Attempts on their way to a sender: in the consumer, in the channel, with  *)
(* the worker.                                                               *)
InFlight ==
    {<<event, r>> : r \in inserted}
    \cup Queued
    \cup {<<work.no, r>> : r \in work.rules}

(* The audit trail: every attempt the consumer enqueued has a row, which is  *)
(* Pending until the worker is done with it, and none reaches a sender       *)
(* without one.  When dispatch_lifecycle is through with an event, every     *)
(* matching rule has a row, or its own insert failed, and no other rule has  *)
(* one: one failing insert costs one notification.                           *)
AuditTrail ==
    /\ \A a \in InFlight : rows[a] = Pending
    /\ \A a \in sent : rows[a] # Absent
    /\ \A n \in settled : \A r \in RuleNo :
          rows[<<n, r>>] # Absent <=> r \in matched[n] /\ <<n, r>> \notin skipped

(* A finished row never changes again, although complete's UPDATE does not   *)
(* test the status: no attempt is completed or inserted twice.               *)
FinishedIsFinal ==
    [][\A a \in Attempt :
          rows[a].status \notin {"absent", "Pending"} => rows'[a] = rows[a]]_vars

(* Notifications leave in the order of their events, and within an event in  *)
(* the order of the rules, each at most once, across crashes, reboots and    *)
(* failed completions: nobody is told of a resolution before the opening.    *)
Before(a, b) == a[1] < b[1] \/ (a[1] = b[1] /\ a[2] < b[2])

SentInOrderOnce == [][SendTarget => \A a \in sent : Before(a, attempt)]_vars

(* The row tells the truth about the message: Succeeded means it arrived,    *)
(* a Permanent outcome means it did not.  A Transient one promises nothing.  *)
RowsTellTheTruth ==
    \A a \in Attempt :
        /\ rows[a].outcome = "Delivered" => a \in arrived
        /\ rows[a].outcome = "Permanent" => a \notin arrived

(* An enqueued attempt is finished, unless its completion failed, the worker *)
(* left or died, or the process stopped.                                     *)
EnqueuedIsFinished ==
    \A a \in Attempt :
        a \in InFlight ~> \/ rows[a].status \in {"Succeeded", "FailedPermanent"}
                          \/ a \in undone
                          \/ ReceiverGone \/ ~up

(* A full channel never holds the consumer up for good, not even when the    *)
(* worker leaves while the consumer waits for room.                          *)
DispatchReturns == cpc \in {"insert", "send"} ~> cpc \notin {"insert", "send"}
=============================================================================
