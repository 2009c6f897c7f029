--------------------------- MODULE RuntimeProofs ---------------------------
(***************************************************************************)
(* Proofs about module Runtime, for any set of collectors, any channel     *)
(* capacity and any backoff schedule.  ConsumerLeavesLast is not inductive *)
(* by itself: that the consumer has processed everything when it returns   *)
(* rests on the accounting of batches (accepted = processed + queued + in  *)
(* hand), and that nobody sends afterwards on the fact that a supervisor   *)
(* that is gone stays gone.                                                *)
(***************************************************************************)
EXTENDS Runtime, TLAPS

InHand == IF con \in {"busy", "drainBusy"} THEN 1 ELSE 0

(* Every batch the channel took is processed, in hand or still queued. *)
Accounting == con # "dead" => accepted = processed + queued + InHand

(* A consumer that returned left an empty channel without senders. *)
NothingLeft == con = "gone" => queued = 0 /\ \A c \in Collector : pc[c] = "gone"

IInv == TypeOK /\ Accounting /\ NothingLeft

(* The invariant implies that the consumer leaves last. *)
LEMMA InvImplies == IInv => ConsumerLeavesLast
BY DEF IInv, TypeOK, Accounting, NothingLeft, ConsumerLeavesLast, InHand

(* A slot of the backoff schedule is followed by a slot (supervisor.rs caps  *)
(* the index at the last one).                                               *)
LEMMA NextSlotType == \A i \in 0..(BackoffSlots - 1) : NextSlot(i) \in 0..(BackoffSlots - 1)
BY RuntimeAssumption DEF NextSlot

(* The runtime starts in the invariant. *)
LEMMA InitInv == Init => IInv
<1> SUFFICES ASSUME Init PROVE IInv
    OBVIOUS
<1>1. TypeOK
    <2>1. 0 \in 0..(BackoffSlots - 1) /\ 0 \in 0..ObsCapacity /\ 0 \in Nat
        BY RuntimeAssumption
    <2> QED
        BY <2>1 DEF Init, TypeOK, InnerLoop
<1>2. Accounting /\ NothingLeft
    BY DEF Init, Accounting, NothingLeft, InHand
<1> QED
    BY <1>1, <1>2 DEF IInv

(* A step of a supervisor that sends nothing only moves that supervisor,     *)
(* which was not gone before.                                                *)
LEMMA SupervisorMovesPreserves ==
    ASSUME IInv, NEW c \in Collector, pc[c] # "gone",
           NEW l \in InnerLoop \cup {"enter", "running", "backoff", "gone"},
           Goto(c, l), UNCHANGED <<queued, accepted, Others>>,
           outer' \in [Collector -> BOOLEAN], inner' \in [Collector -> BOOLEAN],
           backoff_idx' \in [Collector -> 0..(BackoffSlots - 1)]
    PROVE  IInv'
<1>1. TypeOK'
    BY DEF IInv, TypeOK, Goto, Others, consumer, worker
<1>2. Accounting'
    BY DEF IInv, Accounting, InHand, Others, consumer
<1>3. con # "gone"
    BY DEF IInv, NothingLeft
<1>4. NothingLeft'
    BY <1>3 DEF NothingLeft, Others, consumer
<1> QED
    BY <1>1, <1>2, <1>4 DEF IInv

(* The channel takes a batch only while the consumer is there. *)
LEMMA BatchAcceptedPreserves ==
    ASSUME IInv, ~ConsumerGone, queued < ObsCapacity,
           queued' = queued + 1, accepted' = accepted + 1,
           UNCHANGED <<outer, inner, backoff_idx, Others>>,
           pc' \in [Collector -> InnerLoop \cup
                        {"unspawned", "enter", "running", "backoff", "gone"}]
    PROVE  IInv'
<1>1. TypeOK'
    BY RuntimeAssumption DEF IInv, TypeOK, Others, consumer, worker
<1>2. Accounting'
    BY DEF IInv, TypeOK, Accounting, InHand, Others, consumer
<1>3. NothingLeft'
    BY DEF NothingLeft, ConsumerGone, Others, consumer
<1> QED
    BY <1>1, <1>2, <1>3 DEF IInv

(* A supervisor that respawns goes on with a slot of the schedule. *)
LEMMA RespawnPreserves ==
    ASSUME IInv, NEW c \in Collector, pc[c] # "gone", Respawn(c)
    PROVE  IInv'
<1>1. PICK start \in {backoff_idx[c], 0} :
            backoff_idx' = [backoff_idx EXCEPT ![c] = NextSlot(start)]
    BY DEF Respawn
<1>2. start \in 0..(BackoffSlots - 1)
    BY RuntimeAssumption DEF IInv, TypeOK
<1>3. backoff_idx' \in [Collector -> 0..(BackoffSlots - 1)]
    BY <1>1, <1>2, NextSlotType DEF IInv, TypeOK
<1>4. inner' \in [Collector -> BOOLEAN] /\ outer' \in [Collector -> BOOLEAN]
    BY DEF Respawn, IInv, TypeOK
<1>5. UNCHANGED <<queued, accepted, Others>>
    BY DEF Respawn
<1>6. CASE outer[c]
    <2>1. Goto(c, "gone")
        BY <1>6 DEF Respawn
    <2> QED
        BY <2>1, <1>3, <1>4, <1>5, SupervisorMovesPreserves
<1>7. CASE ~outer[c]
    <2>1. Goto(c, "backoff")
        BY <1>7 DEF Respawn
    <2> QED
        BY <2>1, <1>3, <1>4, <1>5, SupervisorMovesPreserves
<1> QED
    BY <1>6, <1>7

(* Every step of a collector's supervisor preserves the invariant. *)
LEMMA SupervisorPreserves ==
    ASSUME IInv, NEW c \in Collector,
           \/ Spawn(c) \/ EnterInnerLoop(c) \/ Tick(c) \/ PollReturns(c) \/ SendBatch(c)
           \/ SendToClosed(c) \/ HearShutdown(c) \/ PollPanics(c) \/ BackoffOver(c)
           \/ StartSubscription(c) \/ SinkSend(c) \/ SubscriptionEnds(c)
           \/ SubscriptionPanics(c)
    PROVE  IInv'
<1> USE DEF InnerLoop
<1>0. /\ outer \in [Collector -> BOOLEAN] /\ inner \in [Collector -> BOOLEAN]
      /\ backoff_idx \in [Collector -> 0..(BackoffSlots - 1)]
    BY DEF IInv, TypeOK
<1>1. CASE Spawn(c)
    <2>1. pc[c] # "gone" /\ Goto(c, "enter") /\ UNCHANGED <<outer, inner, backoff_idx>>
            /\ UNCHANGED <<queued, accepted, Others>>
        BY <1>1 DEF Spawn
    <2> QED
        BY <1>0, <2>1, SupervisorMovesPreserves
<1>2. CASE EnterInnerLoop(c)
    <2>1. pc[c] # "gone" /\ Goto(c, "select") /\ UNCHANGED <<outer, backoff_idx>>
            /\ UNCHANGED <<queued, accepted, Others>>
        BY <1>2 DEF EnterInnerLoop
    <2>2. inner' \in [Collector -> BOOLEAN]
        BY <1>0, <1>2 DEF EnterInnerLoop
    <2> QED
        BY <1>0, <2>1, <2>2, SupervisorMovesPreserves
<1>3. CASE Tick(c)
    <2>1. pc[c] # "gone" /\ Goto(c, "polling") /\ UNCHANGED <<outer, inner, backoff_idx>>
            /\ UNCHANGED <<queued, accepted, Others>>
        BY <1>3 DEF Tick
    <2> QED
        BY <1>0, <2>1, SupervisorMovesPreserves
<1>4. CASE PollReturns(c)
    <2>1. pc[c] # "gone" /\ Goto(c, "sending") /\ UNCHANGED <<outer, inner, backoff_idx>>
            /\ UNCHANGED <<queued, accepted, Others>>
        BY <1>4 DEF PollReturns
    <2> QED
        BY <1>0, <2>1, SupervisorMovesPreserves
<1>5. CASE SendBatch(c)
    <2>1. pc' \in [Collector -> InnerLoop \cup
                       {"unspawned", "enter", "running", "backoff", "gone"}]
        BY <1>5 DEF SendBatch, Goto, IInv, TypeOK
    <2> QED
        BY <2>1, <1>5, BatchAcceptedPreserves DEF SendBatch
<1>6. CASE SendToClosed(c)
    <2>1. pc[c] # "gone" /\ Goto(c, "gone") /\ UNCHANGED <<outer, inner, backoff_idx>>
            /\ UNCHANGED <<queued, accepted, Others>>
        BY <1>6 DEF SendToClosed
    <2> QED
        BY <1>0, <2>1, SupervisorMovesPreserves
<1>7. CASE HearShutdown(c)
    <2>1. pc[c] # "gone" /\ Goto(c, "gone") /\ UNCHANGED <<outer, inner, backoff_idx>>
            /\ UNCHANGED <<queued, accepted, Others>>
        BY <1>7 DEF HearShutdown
    <2> QED
        BY <1>0, <2>1, SupervisorMovesPreserves
<1>8. CASE PollPanics(c)
    BY <1>8, RespawnPreserves DEF PollPanics
<1>9. CASE BackoffOver(c)
    <2>1. pc[c] # "gone" /\ Goto(c, "enter") /\ UNCHANGED <<outer, inner, backoff_idx>>
            /\ UNCHANGED <<queued, accepted, Others>>
        BY <1>9 DEF BackoffOver
    <2> QED
        BY <1>0, <2>1, SupervisorMovesPreserves
<1>10. CASE StartSubscription(c)
    <2>1. pc[c] # "gone" /\ Goto(c, "running") /\ UNCHANGED <<outer, inner, backoff_idx>>
            /\ UNCHANGED <<queued, accepted, Others>>
        BY <1>10 DEF StartSubscription
    <2> QED
        BY <1>0, <2>1, SupervisorMovesPreserves
<1>11. CASE SinkSend(c)
    <2>1. pc' \in [Collector -> InnerLoop \cup
                       {"unspawned", "enter", "running", "backoff", "gone"}]
        BY <1>11 DEF SinkSend, collectors, IInv, TypeOK
    <2> QED
        BY <2>1, <1>11, BatchAcceptedPreserves DEF SinkSend, collectors
<1>12. CASE SubscriptionEnds(c)
    BY <1>12, RespawnPreserves DEF SubscriptionEnds
<1>13. CASE SubscriptionPanics(c)
    <2>1. pc[c] # "gone" /\ Goto(c, "gone") /\ UNCHANGED <<outer, inner, backoff_idx>>
            /\ UNCHANGED <<queued, accepted, Others>>
        BY <1>13 DEF SubscriptionPanics
    <2> QED
        BY <1>0, <2>1, SupervisorMovesPreserves
<1> QED
    BY <1>1, <1>2, <1>3, <1>4, <1>5, <1>6, <1>7, <1>8, <1>9, <1>10, <1>11, <1>12, <1>13

(* The consumer moves batches from the channel to its hand and from there to *)
(* the processed ones; it returns only when nothing is left.                 *)
LEMMA ConsumerPreserves ==
    ASSUME IInv,
           \/ ConsumerHearsShutdown \/ ReceiveBatch \/ BatchProcessed
           \/ ConsumerPanics \/ ConsumerReturns
    PROVE  IInv'
<1> USE DEF Environs, collectors, worker
<1>1. CASE ConsumerHearsShutdown
    BY <1>1 DEF ConsumerHearsShutdown, IInv, TypeOK, Accounting, NothingLeft, InHand
<1>2. CASE ReceiveBatch
    <2>1. TypeOK'
        BY <1>2, RuntimeAssumption DEF ReceiveBatch, IInv, TypeOK
    <2>2. Accounting' /\ NothingLeft'
        BY <1>2 DEF ReceiveBatch, IInv, TypeOK, Accounting, NothingLeft, InHand
    <2> QED
        BY <2>1, <2>2 DEF IInv
<1>3. CASE BatchProcessed
    <2>1. TypeOK'
        BY <1>3 DEF BatchProcessed, IInv, TypeOK
    <2>2. Accounting' /\ NothingLeft'
        BY <1>3 DEF BatchProcessed, IInv, TypeOK, Accounting, NothingLeft, InHand
    <2> QED
        BY <2>1, <2>2 DEF IInv
<1>4. CASE ConsumerPanics
    BY <1>4, RuntimeAssumption
    DEF ConsumerPanics, IInv, TypeOK, Accounting, NothingLeft, InHand
<1>5. CASE ConsumerReturns
    BY <1>5
    DEF ConsumerReturns, ChannelClosed, IInv, TypeOK, Accounting, NothingLeft, InHand
<1> QED
    BY <1>1, <1>2, <1>3, <1>4, <1>5

(* The worker, the API and runtime::run touch no batch and no supervisor's   *)
(* place.                                                                    *)
LEMMA OthersPreserve ==
    ASSUME IInv,
           \/ TakeDispatch \/ DispatchDone \/ WorkerReturns \/ ApiReturns
           \/ Broadcast \/ Joined \/ Deadline
    PROVE  IInv'
<1>1. UNCHANGED <<pc, backoff_idx, queued, con, accepted, processed>>
    BY DEF TakeDispatch, DispatchDone, WorkerReturns, ApiReturns, Broadcast, Joined,
           Deadline, collectors, consumer, worker
<1>2. Accounting' /\ NothingLeft'
    BY <1>1 DEF IInv, Accounting, NothingLeft, InHand
<1>3. CASE Broadcast
    BY <1>2, <1>3 DEF Broadcast, IInv, TypeOK, ConsumerGone
<1>4. CASE TakeDispatch \/ DispatchDone \/ WorkerReturns \/ ApiReturns \/ Joined \/ Deadline
    BY <1>2, <1>4 DEF TakeDispatch, DispatchDone, WorkerReturns, ApiReturns, Joined,
           Deadline, collectors, consumer, worker, IInv, TypeOK
<1> QED
    BY <1>3, <1>4

(* The inductive step. *)
LEMMA NextInv == IInv /\ [Next]_vars => IInv'
<1> SUFFICES ASSUME IInv, [Next]_vars PROVE IInv'
    OBVIOUS
<1>1. CASE UNCHANGED vars
    BY <1>1 DEF IInv, TypeOK, Accounting, NothingLeft, InHand, vars, collectors, consumer, worker
<1>2. ASSUME NEW c \in Collector,
             \/ Spawn(c) \/ EnterInnerLoop(c) \/ Tick(c) \/ PollReturns(c) \/ SendBatch(c)
             \/ SendToClosed(c) \/ HearShutdown(c) \/ PollPanics(c) \/ BackoffOver(c)
             \/ StartSubscription(c) \/ SinkSend(c) \/ SubscriptionEnds(c)
             \/ SubscriptionPanics(c)
      PROVE  IInv'
    BY <1>2, SupervisorPreserves
<1>3. CASE \/ ConsumerHearsShutdown \/ ReceiveBatch \/ BatchProcessed
           \/ ConsumerPanics \/ ConsumerReturns
    BY <1>3, ConsumerPreserves
<1>4. CASE \/ TakeDispatch \/ DispatchDone \/ WorkerReturns \/ ApiReturns
           \/ Broadcast \/ Joined \/ Deadline
    BY <1>4, OthersPreserve
<1> QED
    BY <1>1, <1>2, <1>3, <1>4 DEF Next

(* The invariant holds in every behaviour of the runtime. *)
THEOREM Invariance == Spec => []IInv
BY InitInv, NextInv, PTL DEF Spec

(* The runtime's state keeps its shape: the backoff index stays within the   *)
(* schedule and the observation channel within its capacity.                 *)
THEOREM TypeCorrect == Spec => []TypeOK
<1>1. IInv => TypeOK
    BY DEF IInv
<1> QED
    BY <1>1, Invariance, PTL

(* consumer.rs drains the channel on shutdown: a consumer that returned has  *)
(* processed every batch any collector ever got into the channel, and no     *)
(* collector is left.                                                        *)
THEOREM LeavesLast == Spec => []ConsumerLeavesLast
BY Invariance, InvImplies, PTL
=============================================================================
