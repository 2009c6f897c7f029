------------------------------ MODULE Runtime ------------------------------
(***************************************************************************)
(* The tasks of the sidecar and how they stop: src/runtime/mod.rs (spawn,  *)
(* broadcast, bounded join), src/runtime/supervisor.rs (one supervisor     *)
(* task per collector, with backoff) and the outer loops of                *)
(* src/runtime/consumer.rs and src/runtime/notification_worker.rs.         *)
(*                                                                         *)
(* Every task has its own receiver of the shutdown broadcast.  A receiver  *)
(* sees the one message that is ever sent only if it was subscribed        *)
(* before: outer, inner, conMsg and wrkMsg say which receivers hold it     *)
(* unread.  A polling supervisor resubscribes for every run of its inner   *)
(* loop.  The observation channel carries batches, here only counted; it   *)
(* closes when the last sender is dropped.                                 *)
(***************************************************************************)
EXTENDS Integers, FiniteSets

CONSTANTS
    Poller,       \* polling collectors
    Subscriber,   \* subscription collectors
    ObsCapacity,  \* capacity of the observation channel
    BackoffSlots, \* length of BACKOFF_SCHEDULE_SECS (4 in the code)
    MaxBatches    \* bound: batches the collectors may send

Collector == Poller \cup Subscriber

ASSUME RuntimeAssumption ==
    /\ Poller \cap Subscriber = {}
    /\ IsFiniteSet(Collector)
    /\ ObsCapacity \in Nat \ {0} /\ BackoffSlots \in Nat \ {0} /\ MaxBatches \in Nat

VARIABLES
    rt,          \* runtime::run: "up", "joining", "clean" or "aborted"
    pc,          \* supervisor task of each collector
    outer,       \* its own receiver holds the shutdown message
    inner,       \* the receiver of its inner loop (polling only) holds it
    backoff_idx, \* next slot of the backoff schedule
    queued,      \* batches in the observation channel
    con,         \* the consumer: "select", "busy", "drain", "drainBusy", "gone", "dead"
    conMsg,      \* its receiver holds the message
    wrk,         \* the notification worker: "select", "busy" or "gone"
    wrkMsg,      \* its receiver holds the message
    dispatches,  \* dispatches in the notification channel
    api,         \* the operator API: "serving" or "gone"
    (* history *)
    accepted,    \* batches the observation channel has taken
    processed    \* batches process_batch has finished

collectors == <<pc, outer, inner, backoff_idx>>
consumer   == <<con, conMsg>>
worker     == <<wrk, wrkMsg>>
vars == <<rt, collectors, queued, consumer, worker, dispatches, api, accepted, processed>>

Running == rt \in {"up", "joining"}

(* The polling inner loop is alive: select, poll, send. *)
InnerLoop == {"select", "polling", "sending"}

ConsumerGone == con \in {"gone", "dead"}

Init ==
    /\ rt = "up"
    /\ pc = [c \in Collector |-> "unspawned"]
    /\ outer = [c \in Collector |-> FALSE]
    /\ inner = [c \in Collector |-> FALSE]
    /\ backoff_idx = [c \in Collector |-> 0]
    /\ queued = 0 /\ dispatches = 0
    /\ con = "select" /\ conMsg = FALSE
    /\ wrk = "select" /\ wrkMsg = FALSE
    /\ api = "serving"
    /\ accepted = 0 /\ processed = 0

(***************************************************************************)
(* Collector supervisors                                                   *)
(***************************************************************************)
Goto(c, l) == pc' = [pc EXCEPT ![c] = l]

Others == <<rt, consumer, worker, dispatches, api, processed>>

(* supervisor::run subscribes and spawns one task after the other, while     *)
(* the signal handler already runs.                                          *)
Spawn(c) ==
    /\ Running /\ pc[c] = "unspawned"
    /\ Goto(c, "enter")
    /\ UNCHANGED <<outer, inner, backoff_idx, queued, accepted, Others>>

(* resubscribe: the new receiver does not see what was sent before. *)
EnterInnerLoop(c) ==
    /\ Running /\ pc[c] = "enter" /\ c \in Poller
    /\ Goto(c, "select")
    /\ inner' = [inner EXCEPT ![c] = FALSE]
    /\ UNCHANGED <<outer, backoff_idx, queued, accepted, Others>>

Tick(c) ==
    /\ Running /\ pc[c] = "select"
    /\ ConsumerGone \/ accepted + Cardinality({d \in Collector :
                            pc[d] \in {"polling", "sending"}}) < MaxBatches
    /\ Goto(c, "polling")
    /\ UNCHANGED <<outer, inner, backoff_idx, queued, accepted, Others>>

(* poll never fails, and is not interrupted by the shutdown. *)
PollReturns(c) ==
    /\ Running /\ pc[c] = "polling"
    /\ Goto(c, "sending")
    /\ UNCHANGED <<outer, inner, backoff_idx, queued, accepted, Others>>

(* tx.send: waits for room; an Err ends the supervisor (ConsumerGone). *)
SendBatch(c) ==
    /\ Running /\ pc[c] = "sending" /\ ~ConsumerGone
    /\ queued < ObsCapacity
    /\ queued' = queued + 1 /\ accepted' = accepted + 1
    /\ Goto(c, "select")
    /\ UNCHANGED <<outer, inner, backoff_idx, Others>>

SendToClosed(c) ==
    /\ Running /\ pc[c] = "sending" /\ ConsumerGone
    /\ Goto(c, "gone")
    /\ UNCHANGED <<outer, inner, backoff_idx, queued, accepted, Others>>

HearShutdown(c) ==
    /\ Running
    /\ \/ pc[c] = "select" /\ inner[c]
       \/ pc[c] \in {"running", "backoff"} /\ outer[c]
    /\ Goto(c, "gone")
    /\ UNCHANGED <<outer, inner, backoff_idx, queued, accepted, Others>>

(* Slip: the index is not capped at the last slot. *)
NextSlotUncapped(i) == i + 1

NextSlot(i) == IF i + 1 < BackoffSlots THEN i + 1 ELSE BackoffSlots - 1

(* The inner loop ended: a panic of poll, or run returned.  A run that was   *)
(* long enough resets the schedule first.  The wait is not over when its     *)
(* select is first polled, so a message that is already there ends the task. *)
Respawn(c) ==
    /\ \E start \in {backoff_idx[c], 0} :
          backoff_idx' = [backoff_idx EXCEPT ![c] = NextSlot(start)]
    /\ inner' = [inner EXCEPT ![c] = FALSE]
    /\ Goto(c, IF outer[c] THEN "gone" ELSE "backoff")
    /\ UNCHANGED <<outer, queued, accepted, Others>>

PollPanics(c) == Running /\ pc[c] = "polling" /\ Respawn(c)

(* The wait is over; the message may have come in the meantime, and the      *)
(* select then takes either branch.                                          *)
BackoffOver(c) ==
    /\ Running /\ pc[c] = "backoff"
    /\ Goto(c, "enter")
    /\ UNCHANGED <<outer, inner, backoff_idx, queued, accepted, Others>>

(* supervise_subscription selects on its own receiver while run runs. *)
StartSubscription(c) ==
    /\ Running /\ pc[c] = "enter" /\ c \in Subscriber
    /\ Goto(c, "running")
    /\ UNCHANGED <<outer, inner, backoff_idx, queued, accepted, Others>>

SinkSend(c) ==
    /\ Running /\ pc[c] = "running" /\ ~ConsumerGone
    /\ queued < ObsCapacity
    /\ accepted + Cardinality({d \in Collector : pc[d] \in {"polling", "sending"}}) < MaxBatches
    /\ queued' = queued + 1 /\ accepted' = accepted + 1
    /\ UNCHANGED <<collectors, Others>>

(* run returns: the connection died, or the sink is closed. *)
SubscriptionEnds(c) == Running /\ pc[c] = "running" /\ Respawn(c)

(* run panics: only supervise_polling catches that, so the task ends, and    *)
(* with it its sender; supervisor::run joins it like any other.              *)
SubscriptionPanics(c) ==
    /\ Running /\ pc[c] = "running"
    /\ Goto(c, "gone")
    /\ UNCHANGED <<outer, inner, backoff_idx, queued, accepted, Others>>

CollectorStep(c) ==
    \/ EnterInnerLoop(c)
    \/ Tick(c)
    \/ PollReturns(c)
    \/ SendBatch(c)
    \/ SendToClosed(c)
    \/ PollPanics(c)
    \/ BackoffOver(c)
    \/ StartSubscription(c)

(***************************************************************************)
(* The consumer's loop                                                     *)
(***************************************************************************)
Environs == <<rt, collectors, worker, api>>

(* Slip: the consumer leaves at the shutdown without draining. *)
ConsumerLeavesAtOnce ==
    /\ Running /\ con = "select" /\ conMsg
    /\ con' = "gone" /\ queued' = 0 /\ UNCHANGED conMsg
    /\ UNCHANGED <<dispatches, accepted, processed, Environs>>

ConsumerHearsShutdown ==
    /\ Running /\ con = "select" /\ conMsg
    /\ con' = "drain" /\ conMsg' = FALSE
    /\ UNCHANGED <<queued, dispatches, accepted, processed, Environs>>

ReceiveBatch ==
    /\ Running /\ con \in {"select", "drain"} /\ queued > 0
    /\ con' = IF con = "select" THEN "busy" ELSE "drainBusy"
    /\ queued' = queued - 1
    /\ UNCHANGED <<conMsg, dispatches, accepted, processed, Environs>>

(* process_batch (modules IncidentEngine and NotificationDelivery); it may   *)
(* hand a dispatch to the worker, if that is still there.                    *)
BatchProcessed ==
    /\ Running /\ con \in {"busy", "drainBusy"}
    /\ con' = IF con = "busy" THEN "select" ELSE "drain"
    /\ processed' = processed + 1
    /\ \/ UNCHANGED dispatches
       \/ wrk # "gone" /\ dispatches' = dispatches + 1
    /\ UNCHANGED <<conMsg, queued, accepted, Environs>>

(* A panic ends the task; its receiver and its notif_tx are dropped. *)
ConsumerPanics ==
    /\ Running /\ con \in {"busy", "drainBusy"}
    /\ con' = "dead" /\ queued' = 0
    /\ UNCHANGED <<conMsg, dispatches, accepted, processed, Environs>>

(* Slip: supervisor::run keeps its own sender while it joins its tasks. *)
ChannelNeverCloses == Collector = {}

(* Every sender is dropped: supervisor::run's own once all are spawned, and  *)
(* each task's when it returns.                                              *)
ChannelClosed == \A c \in Collector : pc[c] = "gone"

ConsumerReturns ==
    /\ Running /\ con \in {"select", "drain"} /\ queued = 0 /\ ChannelClosed
    /\ con' = "gone"
    /\ UNCHANGED <<conMsg, queued, dispatches, accepted, processed, Environs>>

ConsumerStep == ReceiveBatch \/ BatchProcessed \/ ConsumerReturns

(***************************************************************************)
(* The worker's loop, and the API                                          *)
(***************************************************************************)
TakeDispatch ==
    /\ Running /\ wrk = "select" /\ dispatches > 0
    /\ wrk' = "busy" /\ dispatches' = dispatches - 1
    /\ UNCHANGED <<rt, collectors, queued, consumer, wrkMsg, api, accepted, processed>>

DispatchDone ==
    /\ Running /\ wrk = "busy"
    /\ wrk' = "select"
    /\ UNCHANGED <<rt, collectors, queued, consumer, wrkMsg, dispatches, api, accepted,
                   processed>>

(* The shutdown, or None from the channel once the consumer is gone. *)
WorkerReturns ==
    /\ Running /\ wrk = "select"
    /\ wrkMsg \/ (ConsumerGone /\ dispatches = 0)
    /\ wrk' = "gone" /\ dispatches' = 0
    /\ UNCHANGED <<rt, collectors, queued, consumer, wrkMsg, api, accepted, processed>>

(* The server finishes its requests after the shutdown; a failed bind or an  *)
(* I/O error ends it earlier.                                                *)
ApiReturns ==
    /\ Running /\ api = "serving"
    /\ api' = "gone"
    /\ UNCHANGED <<rt, collectors, queued, consumer, worker, dispatches, accepted, processed>>

(***************************************************************************)
(* runtime::run                                                            *)
(***************************************************************************)
(* SIGINT or SIGTERM: one message to every receiver that is subscribed. *)
Broadcast ==
    /\ rt = "up"
    /\ rt' = "joining"
    /\ outer' = [c \in Collector |-> pc[c] \notin {"unspawned", "gone"}]
    /\ inner' = [c \in Collector |-> c \in Poller /\ pc[c] \in InnerLoop]
    /\ conMsg' = ~ConsumerGone
    /\ wrkMsg' = (wrk # "gone")
    /\ UNCHANGED <<pc, backoff_idx, queued, con, wrk, dispatches, api, accepted, processed>>

TasksEnded ==
    /\ ChannelClosed
    /\ ConsumerGone
    /\ wrk = "gone"
    /\ api = "gone"

Joined ==
    /\ rt = "joining" /\ TasksEnded
    /\ rt' = "clean"
    /\ UNCHANGED <<collectors, queued, consumer, worker, dispatches, api, accepted, processed>>

(* The deadline: abort_all cancels every task at its await. *)
Deadline ==
    /\ rt = "joining" /\ ~TasksEnded
    /\ rt' = "aborted"
    /\ UNCHANGED <<collectors, queued, consumer, worker, dispatches, api, accepted, processed>>

-----------------------------------------------------------------------------
Next ==
    \/ \E c \in Collector :
          \/ Spawn(c)
          \/ EnterInnerLoop(c)
          \/ Tick(c)
          \/ PollReturns(c)
          \/ SendBatch(c)
          \/ SendToClosed(c)
          \/ HearShutdown(c)
          \/ PollPanics(c)
          \/ BackoffOver(c)
          \/ StartSubscription(c)
          \/ SinkSend(c)
          \/ SubscriptionEnds(c)
          \/ SubscriptionPanics(c)
    \/ ConsumerHearsShutdown
    \/ ReceiveBatch
    \/ BatchProcessed
    \/ ConsumerPanics
    \/ ConsumerReturns
    \/ TakeDispatch
    \/ DispatchDone
    \/ WorkerReturns
    \/ ApiReturns
    \/ Broadcast
    \/ Joined
    \/ Deadline

Spec == Init /\ [][Next]_vars

(* Tasks that can move do move: polls are bounded by their RPC timeouts,     *)
(* requests by the HTTP timeout, waits by the schedule.  tokio::select!      *)
(* polls its branches in random order, so that a shutdown that is ready      *)
(* again and again is taken: strong fairness.  What a subscription does, the *)
(* signal and the deadline are not fair.                                     *)
Fairness ==
    /\ \A c \in Collector :
          WF_vars(Spawn(c)) /\ WF_vars(CollectorStep(c)) /\ SF_vars(HearShutdown(c))
    /\ WF_vars(ConsumerStep) /\ SF_vars(ConsumerHearsShutdown)
    /\ WF_vars(TakeDispatch \/ DispatchDone) /\ SF_vars(WorkerReturns)
    /\ WF_vars(rt # "up" /\ ApiReturns)
    /\ WF_vars(Joined)

FairSpec == Spec /\ Fairness

-----------------------------------------------------------------------------
TypeOK ==
    /\ rt \in {"up", "joining", "clean", "aborted"}
    /\ pc \in [Collector -> InnerLoop \cup
                   {"unspawned", "enter", "running", "backoff", "gone"}]
    /\ outer \in [Collector -> BOOLEAN] /\ inner \in [Collector -> BOOLEAN]
    /\ backoff_idx \in [Collector -> 0..(BackoffSlots - 1)]
    /\ queued \in 0..ObsCapacity
    /\ con \in {"select", "busy", "drain", "drainBusy", "gone", "dead"}
    /\ conMsg \in BOOLEAN
    /\ wrk \in {"select", "busy", "gone"} /\ wrkMsg \in BOOLEAN
    /\ dispatches \in Nat
    /\ api \in {"serving", "gone"}
    /\ accepted \in Nat /\ processed \in Nat

(* No observation already sent is lost: when the consumer has returned, all  *)
(* batches the channel ever took are processed, and no collector is left     *)
(* that could send another one.                                              *)
ConsumerLeavesLast ==
    con = "gone" => /\ processed = accepted
                    /\ \A c \in Collector : pc[c] = "gone"

(* A collector that will not see the broadcast: it subscribed, or will       *)
(* resubscribe, after the message was sent.                                  *)
Deaf(c) ==
    /\ rt = "joining" /\ pc[c] # "gone"
    /\ CASE pc[c] \in InnerLoop               -> ~inner[c]
         [] pc[c] = "enter" /\ c \in Poller   -> TRUE
         [] OTHER                             -> ~outer[c]

(* Every batch the channel took is processed, shutdown or not, unless the    *)
(* consumer panics or the deadline cuts it off.                              *)
AcceptedIsProcessed ==
    \A n \in 1..MaxBatches :
        accepted >= n ~> processed >= n \/ con = "dead" \/ rt = "aborted"

(* After the signal all tasks end by themselves, without the deadline, in    *)
(* the order collectors, consumer, join - unless a collector is deaf.        *)
ShutdownCompletes ==
    rt = "joining" ~> rt # "joining" \/ \E c \in Collector : Deaf(c)
=============================================================================
