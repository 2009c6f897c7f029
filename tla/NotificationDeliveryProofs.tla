--------------------- MODULE NotificationDeliveryProofs ---------------------
(***************************************************************************)
(* Proofs about NotificationDelivery, for any number of events and rules,  *)
(* any capacity of the channel and any configuration.                      *)
(*                                                                         *)
(* No property is inductive by itself.  They rest on one ordering: sent    *)
(* attempts come before the worker's, those before the channel's, and      *)
(* those before the consumer's, whose event is the last one numbered.  So  *)
(* an attempt is in one place at a time, and whoever writes its row writes *)
(* a row that nobody else will write.                                      *)
(***************************************************************************)
EXTENDS NotificationDelivery, WellFoundedInduction, TLAPS

(* The consumer is at work on the event numbered last. *)
Dispatching == cpc \in {"insert", "send"}

ConsumerInv ==
    /\ ~Dispatching => event = 0 /\ todo = {} /\ inserted = {}
    /\ cpc = "insert" => todo # {}
    /\ cpc = "send" => todo = {} /\ inserted # {}
    /\ Dispatching => event \in EventNo /\ next = event + 1

(* The rows of the event at hand: Pending if inserted, missing if still to do. *)
EventInv ==
    Dispatching =>
        /\ event \notin settled
        /\ todo \subseteq matched[event]
        /\ \A r \in todo : <<event, r>> \notin skipped
        /\ \A r \in inserted : rows[<<event, r>>] = Pending
        /\ \A r \in RuleNo : rows[<<event, r>>] # Absent
                                <=> r \in matched[event] \ todo /\ <<event, r>> \notin skipped

(* Nothing is known of an event that has not happened. *)
FutureInv ==
    /\ \A n \in settled : n < next
    /\ \A n \in EventNo, r \in RuleNo :
          n >= next => rows[<<n, r>>] = Absent /\ <<n, r>> \notin skipped

(* The channel: dispatches of ascending events, older than the consumer's,  *)
(* with Pending rows; it is lost with its receiver.                         *)
ChannelInv ==
    /\ ReceiverGone => chan = <<>>
    /\ \A i \in 1..Len(chan) :
          /\ chan[i].rules # {}
          /\ chan[i].no < next
          /\ Dispatching => chan[i].no < event
          /\ \A r \in chan[i].rules : rows[<<chan[i].no, r>>] = Pending
    /\ \A i, j \in 1..Len(chan) : i < j => chan[i].no < chan[j].no

(* The worker: at work on a dispatch older than all of the channel. *)
Working == wpc \in {"send", "complete"}

WorkerInv ==
    /\ ~Working => work = NoWork
    /\ Working => /\ work \in Dispatch /\ work.rules # {}
                  /\ work.no < next
                  /\ Dispatching => work.no < event
                  /\ \A i \in 1..Len(chan) : work.no < chan[i].no
                  /\ \A r \in work.rules : rows[<<work.no, r>>] = Pending
    /\ wpc = "complete" => outcome \in Outcome

(* What was sent comes before everything that is still to be sent. *)
SentInv ==
    /\ arrived \subseteq sent
    /\ \A a \in sent :
          /\ rows[a] # Absent
          /\ Dispatching => a[1] < event
          /\ \A i \in 1..Len(chan) : a[1] < chan[i].no
          /\ wpc = "send" => \A r \in work.rules : Before(a, <<work.no, r>>)
          /\ wpc = "complete" => a = attempt \/ \A r \in work.rules : Before(a, <<work.no, r>>)

(* The receipt at hand is as true as the row it will become. *)
TruthInv ==
    /\ RowsTellTheTruth
    /\ wpc = "complete" => /\ outcome = "Delivered" => attempt \in arrived
                           /\ outcome = "Permanent" => attempt \notin arrived

SettledInv ==
    \A n \in settled : \A r \in RuleNo :
        rows[<<n, r>>] # Absent <=> r \in matched[n] /\ <<n, r>> \notin skipped

Inv ==
    /\ TypeOK /\ ConsumerInv /\ EventInv /\ FutureInv /\ ChannelInv /\ WorkerInv
    /\ SentInv /\ TruthInv /\ SettledInv

-----------------------------------------------------------------------------
(* A set of natural numbers that is not empty has a least element. *)
LEMMA LeastNatural ==
    ASSUME NEW S, S \subseteq Nat, S # {}
    PROVE  \E x \in S : \A y \in S : x <= y
<1> DEFINE Less == {p \in Nat \X Nat : p[1] < p[2]}
<1>1. IsWellFoundedOn(Less, Nat)
    BY NatLessThanWellFounded DEF OpToRel
<1>2. PICK x \in S : \A y \in S : ~(<<y, x>> \in Less)
    <2> HIDE DEF Less
    <2> QED
        BY <1>1, WFMin
<1>3. ASSUME NEW y \in S PROVE x <= y
    <2>1. x \in Nat /\ y \in Nat
        OBVIOUS
    <2>2. ~(<<y, x>> \in Less)
        BY <1>2, Zenon
    <2>3. ~(y < x)
        BY <2>1, <2>2
    <2> QED
        BY <2>1, <2>3
<1> QED
    BY <1>3

(* Rules are worked off in ascending order: there is a least one left. *)
LEMMA LeastFacts ==
    ASSUME NEW S, S \subseteq RuleNo, S # {}
    PROVE  Least(S) \in S /\ \A s \in S : Least(S) <= s
<1>1. S \subseteq Nat
    BY DeliveryAssumption DEF RuleNo
<1>2. \E x \in S : \A y \in S : x <= y
    BY <1>1, LeastNatural
<1> QED
    BY <1>2 DEF Least

(* What a send can come to: Delivered only when the message arrived,         *)
(* Permanent only when it did not.                                           *)
LEMMA ResultFacts ==
    ASSUME NEW k \in TargetKind, NEW res \in Results[k]
    PROVE  /\ res.outcome \in Outcome \cup {"panic"}
           /\ res.outcome = "Delivered" => res.arrived = TRUE
           /\ res.outcome = "Permanent" => res.arrived = FALSE
<1>0. PICK r \in Reply : \E a \in Arrival(k, r) : res = [outcome |-> send(k, r), arrived |-> a]
    BY DEF Results
<1>1. PICK a \in Arrival(k, r) : res = [outcome |-> send(k, r), arrived |-> a]
    BY <1>0
<1>2. r.responded \in BOOLEAN /\ r.hugeRetryAfter \in BOOLEAN /\ r.body \in Body
    BY DEF Reply
<1>3. send(k, r) \in Outcome \cup {"panic"}
    BY <1>2 DEF TargetKind, send, telegram, discord, webhook, Outcome
<1>4. ASSUME send(k, r) = "Delivered" PROVE a = TRUE
    <2>1. Accepts(k, r)
        BY <1>2, <1>4 DEF TargetKind, send, telegram, discord, webhook, Accepts, Body
    <2> QED
        BY <1>1, <2>1 DEF Arrival
<1>5. ASSUME send(k, r) = "Permanent" PROVE a = FALSE
    <2>1. ~Accepts(k, r) /\ Refuses(k, r)
        BY <1>2, <1>5 DEF TargetKind, send, telegram, discord, webhook, Accepts, Refuses, Body
    <2> QED
        BY <1>1, <2>1 DEF Arrival
<1> QED
    BY <1>1, <1>3, <1>4, <1>5

(* The types of what is compared or looked up, without the rest of TypeOK. *)
LEMMA TypeFacts ==
    ASSUME TypeOK
    PROVE  /\ EventNo \subseteq Nat /\ RuleNo \subseteq Nat
           /\ next \in Nat /\ event \in Nat
           /\ settled \subseteq EventNo
           /\ DOMAIN rows = Attempt /\ DOMAIN matched = EventNo
           /\ \A n \in EventNo, r \in RuleNo : <<n, r>> \in Attempt
           /\ \A a \in Attempt : a[1] \in EventNo /\ a[2] \in RuleNo /\ a = <<a[1], a[2]>>
           /\ sent \subseteq Attempt
           /\ Len(chan) \in Nat
           /\ \A i \in 1..Len(chan) : chan[i].no \in EventNo /\ chan[i].rules \subseteq RuleNo
           /\ work.no \in Nat /\ work.rules \subseteq RuleNo
           /\ work \in Dispatch => work.no \in EventNo
<1>1. EventNo \subseteq Nat /\ RuleNo \subseteq Nat
    BY DeliveryAssumption DEF EventNo, RuleNo
<1>2. next \in Nat /\ event \in Nat
    BY <1>1, DeliveryAssumption DEF TypeOK
<1>3. settled \subseteq EventNo /\ DOMAIN rows = Attempt /\ DOMAIN matched = EventNo
      /\ sent \subseteq Attempt
    BY DEF TypeOK
<1>4. /\ \A n \in EventNo, r \in RuleNo : <<n, r>> \in Attempt
      /\ \A a \in Attempt : a[1] \in EventNo /\ a[2] \in RuleNo /\ a = <<a[1], a[2]>>
    BY DEF Attempt
<1>d. \A d \in Dispatch : d.no \in EventNo /\ d.rules \subseteq RuleNo
    BY DEF Dispatch
<1>5. /\ Len(chan) \in Nat
      /\ \A i \in 1..Len(chan) : chan[i].no \in EventNo /\ chan[i].rules \subseteq RuleNo
    <2>1. chan \in Seq(Dispatch)
        BY DEF TypeOK
    <2> QED
        BY <1>d, <2>1
<1>6. /\ work.no \in Nat /\ work.rules \subseteq RuleNo
      /\ work \in Dispatch => work.no \in EventNo
    <2>1. work \in Dispatch \cup {NoWork}
        BY DEF TypeOK
    <2>2. CASE work \in Dispatch
        BY <1>1, <1>d, <2>2
    <2>3. CASE work = NoWork /\ work \notin Dispatch
        BY <2>3 DEF NoWork
    <2> QED
        BY <2>1, <2>2, <2>3
<1> QED
    BY <1>1, <1>2, <1>3, <1>4, <1>5, <1>6

(* Nothing has happened yet. *)
LEMMA InitInv == Init => Inv
<1> SUFFICES ASSUME Init PROVE Inv
    OBVIOUS
<1> USE DEF Init
<1>1. TypeOK
    <2>1. config.capacity \in Nat
        BY DeliveryAssumption DEF Config
    <2>2. rows \in [Attempt -> Row]
        BY DEF Row
    <2>3. Len(chan) <= config.capacity /\ chan \in Seq(Dispatch)
        BY <2>1
    <2>4. next \in 1..(MaxEvents + 1)
        BY DeliveryAssumption
    <2> QED
        BY <2>2, <2>3, <2>4 DEF TypeOK
<1>2. ConsumerInv /\ EventInv
    BY DEF ConsumerInv, EventInv, Dispatching
<1>3. FutureInv /\ ChannelInv /\ WorkerInv
    BY DEF FutureInv, ChannelInv, WorkerInv, Working, ReceiverGone, Attempt
<1>4. SentInv /\ TruthInv /\ SettledInv
    BY DEF SentInv, TruthInv, SettledInv, RowsTellTheTruth, Absent
<1> QED
    BY <1>1, <1>2, <1>3, <1>4 DEF Inv

-----------------------------------------------------------------------------
(* One lemma per action. *)

(* The new event is numbered next, of which there are no rows. *)
LEMMA LifecycleEventInv ==
    ASSUME Inv, NEW e \in Event, LifecycleEvent(e)
    PROVE  Inv'
<1> DEFINE m == {r \in RuleNo : matches(config.rules[r], e)}
<1>1. /\ e.no \in EventNo /\ e.no = next /\ next' = next + 1 /\ next \in Nat
      /\ cpc = "idle" /\ m \subseteq RuleNo
      /\ matched' = [matched EXCEPT ![next] = m]
      /\ UNCHANGED <<config, up, shutdown, chan, wpc, work, outcome, rows, skipped, sent,
                     arrived, undone>>
    BY DeliveryAssumption DEF LifecycleEvent, Event, EventNo, worker
<1>2. \/ /\ m = {} /\ cpc' = "idle" /\ event' = 0 /\ todo' = {} /\ inserted' = {}
         /\ settled' = settled \cup {next}
      \/ /\ m # {} /\ cpc' = "insert" /\ event' = next /\ todo' = m /\ inserted' = {}
         /\ settled' = settled
    BY <1>1 DEF LifecycleEvent, Idle
<1> HIDE DEF m
<1>3. TypeOK'
    <2>1. next' \in 1..(MaxEvents + 1)
        BY <1>1, DeliveryAssumption DEF EventNo
    <2> QED
        BY <1>1, <1>2, <2>1 DEF Inv, TypeOK
<1> USE TypeFacts
<1>4. ConsumerInv'
    BY <1>1, <1>2 DEF ConsumerInv, Dispatching
<1>5. EventInv'
    BY <1>1, <1>2 DEF Inv, EventInv, FutureInv, Dispatching
<1>6. FutureInv'
    BY <1>1, <1>2 DEF Inv, FutureInv
<1>7. ChannelInv'
    BY <1>1, <1>2 DEF Inv, ChannelInv, Dispatching, ReceiverGone
<1>71. WorkerInv'
    BY <1>1, <1>2 DEF Inv, WorkerInv, Dispatching, Working
<1>8. SentInv'
    BY <1>1, <1>2 DEF Inv, SentInv, FutureInv, Dispatching, attempt
<1>9. TruthInv'
    BY <1>1 DEF Inv, TruthInv, RowsTellTheTruth, attempt
<1>10. SettledInv'
    <2>1. \A n \in settled : n \in EventNo /\ n < next /\ matched'[n] = matched[n]
        BY <1>1 DEF Inv, FutureInv
    <2>2. matched'[next] = m /\ \A r \in RuleNo : rows[<<next, r>>] = Absent
        BY <1>1 DEF Inv, FutureInv
    <2> SUFFICES ASSUME NEW n \in settled', NEW r \in RuleNo
                 PROVE  (rows[<<n, r>>] # Absent <=> r \in matched[n] /\ <<n, r>> \notin skipped)'
        BY DEF SettledInv
    <2>3. CASE n \in settled
        BY <1>1, <2>1, <2>3 DEF Inv, SettledInv
    <2>4. CASE n = next /\ m = {}
        BY <1>1, <2>2, <2>4
    <2> QED
        BY <1>2, <2>3, <2>4
<1> QED
    BY <1>3, <1>4, <1>5, <1>6, <1>7, <1>71, <1>8, <1>9, <1>10 DEF Inv

(* The row is new, and of the event at hand. *)
LEMMA InsertPendingInv ==
    ASSUME Inv, InsertPending
    PROVE  Inv'
<1> DEFINE r == Least(todo)
           rest == todo \ {r}
           done == inserted \cup {r}
<1>1. /\ TypeOK /\ cpc = "insert" /\ Dispatching /\ event \in EventNo /\ next = event + 1
      /\ todo \subseteq RuleNo /\ inserted \subseteq RuleNo /\ r \in todo /\ r \in RuleNo
    BY LeastFacts DEF Inv, TypeOK, ConsumerInv, Dispatching, InsertPending
<1>2. /\ rows' = [rows EXCEPT ![<<event, r>>] = Pending]
      /\ UNCHANGED <<config, up, shutdown, chan, wpc, work, outcome, next, matched, skipped,
                     sent, arrived, undone>>
    BY DEF InsertPending, worker
<1>3. /\ event' = event /\ settled' = settled /\ todo' = rest /\ inserted' = done
      /\ Dispatching'
      /\ \/ cpc' = "insert" /\ rest # {}
         \/ cpc' = "send" /\ rest = {}
    <2>1. AfterInsert(rest, done)
        BY DEF InsertPending
    <2>2. done # {}
        OBVIOUS
    <2> HIDE DEF rest, done
    <2>3. CASE rest # {}
        BY <2>1, <2>3 DEF AfterInsert, Dispatching
    <2>4. CASE rest = {}
        BY <2>1, <2>2, <2>4 DEF AfterInsert, Dispatching
    <2> QED
        BY <2>3, <2>4
<1> HIDE DEF r
<1> USE TypeFacts
<1>4. /\ rows[<<event, r>>] = Absent
      /\ <<event, r>> \in Attempt
      /\ \A a \in Attempt : a # <<event, r>> => rows'[a] = rows[a]
      /\ rows'[<<event, r>>] = Pending
    BY <1>1, <1>2 DEF Inv, EventInv
<1>5. TypeOK'
    <2>1. rows' \in [Attempt -> Row]
        BY <1>2, <1>4 DEF Inv, TypeOK, Row
    <2> QED
        BY <1>1, <1>2, <1>3, <2>1 DEF Inv, TypeOK
<1>6. ConsumerInv'
    BY <1>1, <1>2, <1>3 DEF ConsumerInv, Dispatching
<1>7. EventInv'
    <2>1. /\ event \notin settled /\ todo \subseteq matched[event]
          /\ \A q \in todo : <<event, q>> \notin skipped
          /\ \A q \in inserted : rows[<<event, q>>] = Pending
        BY <1>1 DEF Inv, EventInv
    <2>2. \A q \in RuleNo : rows[<<event, q>>] # Absent
                               <=> q \in matched[event] \ todo /\ <<event, q>> \notin skipped
        BY <1>1 DEF Inv, EventInv
    <2>3. \A q \in RuleNo : q # r => rows'[<<event, q>>] = rows[<<event, q>>]
        BY <1>1, <1>4
    <2>4. \A q \in inserted' : rows'[<<event, q>>] = Pending
        BY <1>1, <1>3, <1>4, <2>1, <2>3
    <2>5. Pending # Absent
        BY DEF Pending, Absent
    <2>6. \A q \in RuleNo : rows'[<<event, q>>] # Absent
                               <=> q \in matched[event] \ rest /\ <<event, q>> \notin skipped
        BY <1>1, <1>4, <2>1, <2>2, <2>3, <2>5
    <2> QED
        BY <1>2, <1>3, <2>1, <2>4, <2>6 DEF EventInv
<1>8. FutureInv'
    BY <1>1, <1>2, <1>3, <1>4 DEF Inv, FutureInv
<1>9. ChannelInv'
    <2>1. \A i \in 1..Len(chan), q \in RuleNo : q \in chan[i].rules =>
              rows'[<<chan[i].no, q>>] = rows[<<chan[i].no, q>>]
        BY <1>1, <1>4 DEF Inv, ChannelInv
    <2> QED
        BY <1>1, <1>2, <1>3, <2>1 DEF Inv, ChannelInv, ReceiverGone
<1>10. WorkerInv'
    BY <1>1, <1>2, <1>3, <1>4 DEF Inv, WorkerInv, Working
<1>11. SentInv'
    <2>1. \A a \in sent : rows'[a] = rows[a]
        BY <1>1, <1>4 DEF Inv, SentInv
    <2> QED
        BY <1>1, <1>2, <1>3, <2>1 DEF Inv, SentInv, attempt
<1>12. TruthInv'
    BY <1>2, <1>4 DEF Inv, TruthInv, RowsTellTheTruth, attempt, Pending
<1>13. SettledInv'
    BY <1>1, <1>2, <1>3, <1>4 DEF Inv, SettledInv, EventInv
<1> QED
    BY <1>5, <1>6, <1>7, <1>8, <1>9, <1>10, <1>11, <1>12, <1>13 DEF Inv

(* The attempt is skipped; the rows stay as they are. *)
LEMMA InsertFailsInv ==
    ASSUME Inv, InsertFails
    PROVE  Inv'
<1> DEFINE r == Least(todo)
           rest == todo \ {r}
<1>1. /\ TypeOK /\ cpc = "insert" /\ Dispatching /\ event \in EventNo /\ next = event + 1
      /\ todo \subseteq RuleNo /\ inserted \subseteq RuleNo /\ r \in todo /\ r \in RuleNo
    BY LeastFacts DEF Inv, TypeOK, ConsumerInv, Dispatching, InsertFails
<1>2. /\ skipped' = skipped \cup {<<event, r>>}
      /\ UNCHANGED <<config, up, shutdown, chan, wpc, work, outcome, rows, next, matched,
                     sent, arrived, undone>>
    BY DEF InsertFails, worker
<1>3. \/ /\ event' = event /\ settled' = settled /\ todo' = rest /\ inserted' = inserted
         /\ Dispatching'
         /\ \/ cpc' = "insert" /\ rest # {}
            \/ cpc' = "send" /\ rest = {} /\ inserted # {}
      \/ /\ event' = 0 /\ todo' = {} /\ inserted' = {} /\ cpc' = "idle" /\ ~Dispatching'
         /\ settled' = settled \cup {event}
         /\ rest = {} /\ inserted = {}
    <2>1. AfterInsert(rest, inserted)
        BY DEF InsertFails
    <2> HIDE DEF rest
    <2>2. CASE rest # {}
        BY <2>1, <2>2 DEF AfterInsert, Dispatching
    <2>3. CASE rest = {} /\ inserted # {}
        BY <2>1, <2>3 DEF AfterInsert, Dispatching
    <2>4. CASE rest = {} /\ inserted = {}
        BY <2>1, <2>4 DEF AfterInsert, Idle, Dispatching
    <2> QED
        BY <2>2, <2>3, <2>4
<1> HIDE DEF r
<1> USE TypeFacts
<1>4. <<event, r>> \in Attempt
    BY <1>1
<1>5. TypeOK'
    <2>1. skipped' \subseteq Attempt
        BY <1>2, <1>4 DEF Inv, TypeOK
    <2>2. settled' \subseteq EventNo /\ event' \in EventNo \cup {0}
        BY <1>1, <1>3
    <2>3. todo' \subseteq RuleNo /\ inserted' \subseteq RuleNo
        BY <1>1, <1>3
    <2> QED
        BY <1>1, <1>2, <1>3, <2>1, <2>2, <2>3 DEF Inv, TypeOK
<1>6. ConsumerInv'
    BY <1>1, <1>2, <1>3 DEF ConsumerInv, Dispatching
<1>7. /\ event \notin settled /\ todo \subseteq matched[event]
      /\ \A q \in todo : <<event, q>> \notin skipped
      /\ \A q \in inserted : rows[<<event, q>>] = Pending
    BY <1>1 DEF Inv, EventInv
<1>8. \A q \in RuleNo : rows[<<event, q>>] # Absent
                           <=> q \in matched[event] \ rest /\ <<event, q>> \notin skipped'
    <2>1. \A q \in RuleNo : rows[<<event, q>>] # Absent
                               <=> q \in matched[event] \ todo /\ <<event, q>> \notin skipped
        BY <1>1 DEF Inv, EventInv
    <2>2. \A q \in RuleNo : <<event, q>> \in skipped' <=> <<event, q>> \in skipped \/ q = r
        BY <1>1, <1>2
    <2> QED
        BY <1>1, <2>1, <2>2
<1>9. EventInv'
    <2>1. CASE Dispatching'
        <3>1. \A q \in rest : <<event, q>> \notin skipped'
            BY <1>1, <1>2, <1>7
        <3> QED
            BY <1>2, <1>3, <1>7, <1>8, <2>1, <3>1 DEF EventInv
    <2> QED
        BY <2>1 DEF EventInv
<1>10. FutureInv'
    BY <1>1, <1>2, <1>3 DEF Inv, FutureInv
<1>11. ChannelInv'
    BY <1>1, <1>2, <1>3 DEF Inv, ChannelInv, ReceiverGone
<1>12. WorkerInv'
    BY <1>1, <1>2, <1>3 DEF Inv, WorkerInv, Working
<1>13. SentInv'
    BY <1>1, <1>2, <1>3 DEF Inv, SentInv, attempt
<1>14. TruthInv'
    BY <1>2 DEF Inv, TruthInv, RowsTellTheTruth, attempt
<1>15. SettledInv'
    <2> SUFFICES ASSUME NEW n \in settled', NEW q \in RuleNo
                 PROVE  (rows[<<n, q>>] # Absent <=> q \in matched[n] /\ <<n, q>> \notin skipped)'
        BY DEF SettledInv
    <2>1. CASE n \in settled
        BY <1>1, <1>2, <1>7, <2>1 DEF Inv, SettledInv
    <2>2. CASE n = event /\ rest = {}
        BY <1>2, <1>8, <2>2
    <2> QED
        BY <1>3, <2>1, <2>2
<1> QED
    BY <1>5, <1>6, <1>9, <1>10, <1>11, <1>12, <1>13, <1>14, <1>15 DEF Inv

(* The consumer is done with the event: the channel has it, or it is dropped. *)
LEMMA DispatchEndsInv ==
    ASSUME Inv, SendDispatch \/ SendToClosed
    PROVE  Inv'
<1> DEFINE d == [no |-> event, rules |-> inserted]
<1>1. /\ TypeOK /\ cpc = "send" /\ Dispatching /\ event \in EventNo /\ next = event + 1
      /\ todo = {} /\ inserted \subseteq RuleNo /\ inserted # {}
    BY DEF Inv, TypeOK, ConsumerInv, Dispatching, SendDispatch, SendToClosed
<1>2. /\ event' = 0 /\ todo' = {} /\ inserted' = {} /\ cpc' = "idle" /\ ~Dispatching'
      /\ settled' = settled \cup {event}
      /\ UNCHANGED <<config, up, shutdown, wpc, work, outcome, rows, next, matched, skipped,
                     sent, arrived, undone>>
    BY DEF SendDispatch, SendToClosed, Idle, Dispatching, worker
<1>3. \/ chan' = chan
      \/ ~ReceiverGone /\ Len(chan) < config.capacity /\ chan' = Append(chan, d)
    BY DEF SendDispatch, SendToClosed
<1> USE TypeFacts
<1>4. d \in Dispatch /\ chan \in Seq(Dispatch) /\ config.capacity \in Nat
    BY <1>1, DeliveryAssumption DEF Dispatch, TypeOK, Config
<1> HIDE DEF d
<1>5. /\ chan' \in Seq(Dispatch) /\ Len(chan') <= config.capacity
      /\ \A i \in 1..Len(chan') : \/ i \in 1..Len(chan) /\ chan'[i] = chan[i]
                                  \/ i = Len(chan) + 1 /\ chan'[i] = d /\ ~ReceiverGone
    <2>1. CASE chan' = chan
        <3>1. Len(chan) <= config.capacity
            BY <1>1 DEF TypeOK
        <3>2. \A i \in 1..Len(chan') : i \in 1..Len(chan) /\ chan'[i] = chan[i]
            BY <2>1
        <3> QED
            BY <1>4, <2>1, <3>1, <3>2
    <2>2. CASE ~ReceiverGone /\ Len(chan) < config.capacity /\ chan' = Append(chan, d)
        <3>1. /\ chan' \in Seq(Dispatch) /\ Len(chan') = Len(chan) + 1
              /\ \A i \in 1..Len(chan) : chan'[i] = chan[i]
              /\ chan'[Len(chan) + 1] = d
            BY <1>4, <2>2
        <3>2. \A i \in 1..Len(chan') : i \in 1..Len(chan) \/ i = Len(chan) + 1
            BY <3>1
        <3> QED
            BY <1>1, <1>4, <2>2, <3>1, <3>2
    <2> QED
        BY <1>3, <2>1, <2>2
<1>6. TypeOK'
    BY <1>1, <1>2, <1>5 DEF TypeOK
<1>7. ConsumerInv' /\ EventInv'
    BY <1>2 DEF ConsumerInv, EventInv, Dispatching
<1>8. FutureInv'
    BY <1>1, <1>2 DEF Inv, FutureInv
<1>9. /\ d.no = event /\ d.rules = inserted
      /\ \A r \in inserted : rows[<<event, r>>] = Pending
    BY <1>1 DEF Inv, EventInv, d
<1>10. ChannelInv'
    <2>1. ReceiverGone' => chan' = <<>>
        BY <1>2, <1>3 DEF Inv, ChannelInv, ReceiverGone
    <2>2. \A i \in 1..Len(chan') :
              /\ chan'[i].rules # {}
              /\ chan'[i].no < next
              /\ \A r \in chan'[i].rules : rows[<<chan'[i].no, r>>] = Pending
        BY <1>1, <1>5, <1>9 DEF Inv, ChannelInv
    <2>3. \A i, j \in 1..Len(chan') : i < j => chan'[i].no < chan'[j].no
        BY <1>1, <1>5, <1>9 DEF Inv, ChannelInv
    <2> QED
        BY <1>2, <2>1, <2>2, <2>3 DEF ChannelInv
<1>11. WorkerInv'
    BY <1>1, <1>2, <1>5, <1>9 DEF Inv, WorkerInv, Working
<1>12. SentInv'
    BY <1>1, <1>2, <1>5, <1>9 DEF Inv, SentInv, attempt
<1>13. TruthInv'
    BY <1>2 DEF Inv, TruthInv, RowsTellTheTruth, attempt
<1>14. SettledInv'
    BY <1>1, <1>2 DEF Inv, SettledInv, EventInv
<1> QED
    BY <1>6, <1>7, <1>8, <1>10, <1>11, <1>12, <1>13, <1>14 DEF Inv

(* Steps that leave the channel, the worker and the records alone. *)
LEMMA QuietInv ==
    ASSUME Inv, ConsumerExit \/ Shutdown \/ Boot \/ UNCHANGED vars
    PROVE  Inv'
<1>1. /\ up' \in BOOLEAN /\ shutdown' \in BOOLEAN
      /\ cpc' \in {"idle", "insert", "send", "exited"}
      /\ cpc' = cpc \/ (cpc = "idle" /\ cpc' = "exited")
      /\ UNCHANGED <<config, event, todo, inserted, chan, wpc, work, outcome, rows, next,
                     matched, skipped, sent, arrived, undone, settled>>
    BY DEF Inv, TypeOK, ConsumerInv, Dispatching, ConsumerExit, Idle, Shutdown, Boot, vars,
           volatile, consumer, worker, history
<1>2. Dispatching' = Dispatching
    BY <1>1 DEF Dispatching
<1>3. TypeOK'
    BY <1>1 DEF Inv, TypeOK
<1>4. ConsumerInv'
    BY <1>1, <1>2 DEF Inv, ConsumerInv, Dispatching
<1>5. EventInv' /\ FutureInv' /\ SettledInv'
    BY <1>1, <1>2 DEF Inv, EventInv, FutureInv, SettledInv
<1>6. ChannelInv' /\ WorkerInv'
    BY <1>1, <1>2 DEF Inv, ChannelInv, WorkerInv, ReceiverGone, Working
<1>7. SentInv' /\ TruthInv'
    BY <1>1, <1>2 DEF Inv, SentInv, TruthInv, RowsTellTheTruth, attempt
<1> QED
    BY <1>3, <1>4, <1>5, <1>6, <1>7 DEF Inv

(* The worker leaves with an empty channel, or empties it by leaving. *)
LEMMA WorkerLeavesInv ==
    ASSUME Inv, WorkerShutdown \/ WorkerDrained
    PROVE  Inv'
<1>1. /\ wpc = "recv" /\ wpc' = "exited" /\ chan' = <<>>
      /\ UNCHANGED <<config, up, shutdown, cpc, event, todo, inserted, work, outcome, rows, next,
                     matched, skipped, sent, arrived, undone, settled>>
    BY DEF WorkerShutdown, WorkerDrained, consumer, history
<1>2. Dispatching' = Dispatching
    BY <1>1 DEF Dispatching
<1>3. TypeOK'
    <2>1. config.capacity \in Nat
        BY DeliveryAssumption DEF Inv, TypeOK, Config
    <2>2. Len(chan') <= config.capacity /\ chan' \in Seq(Dispatch)
        BY <1>1, <2>1
    <2> QED
        BY <1>1, <2>2 DEF Inv, TypeOK
<1>4. ConsumerInv' /\ EventInv' /\ FutureInv' /\ SettledInv'
    BY <1>1, <1>2 DEF Inv, ConsumerInv, EventInv, FutureInv, SettledInv
<1>5. ChannelInv' /\ WorkerInv'
    BY <1>1, <1>2 DEF Inv, ChannelInv, WorkerInv, ReceiverGone, Working
<1>6. SentInv' /\ TruthInv'
    BY <1>1, <1>2 DEF Inv, SentInv, TruthInv, RowsTellTheTruth, attempt
<1> QED
    BY <1>3, <1>4, <1>5, <1>6 DEF Inv

(* A stop forgets what is under way and keeps the records. *)
LEMMA StopInv ==
    ASSUME Inv, Stop
    PROVE  Inv'
<1>1. /\ up' = FALSE /\ shutdown' = FALSE /\ chan' = <<>>
      /\ cpc' = "idle" /\ event' = 0 /\ todo' = {} /\ inserted' = {}
      /\ wpc' = "recv" /\ work' = NoWork /\ outcome' = "none"
      /\ UNCHANGED <<config, rows, next, matched, skipped, sent, arrived, undone, settled>>
    BY DEF Stop, Fresh, Idle, history
<1>2. TypeOK'
    <2>1. config.capacity \in Nat
        BY DeliveryAssumption DEF Inv, TypeOK, Config
    <2>2. Len(chan') <= config.capacity /\ chan' \in Seq(Dispatch)
        BY <1>1, <2>1
    <2> QED
        BY <1>1, <2>2 DEF Inv, TypeOK
<1>3. ConsumerInv' /\ EventInv'
    BY <1>1 DEF ConsumerInv, EventInv, Dispatching
<1>4. FutureInv' /\ SettledInv'
    BY <1>1 DEF Inv, FutureInv, SettledInv
<1>5. ChannelInv' /\ WorkerInv'
    BY <1>1 DEF ChannelInv, WorkerInv, ReceiverGone, Working
<1>6. SentInv' /\ TruthInv'
    BY <1>1 DEF Inv, SentInv, TruthInv, RowsTellTheTruth, Dispatching
<1> QED
    BY <1>2, <1>3, <1>4, <1>5, <1>6 DEF Inv

(* The worker takes the oldest dispatch; all of the channel is younger. *)
LEMMA RecvInv ==
    ASSUME Inv, Recv
    PROVE  Inv'
<1>1. /\ TypeOK /\ wpc = "recv" /\ wpc' = "send" /\ chan # <<>>
      /\ work' = Head(chan) /\ chan' = Tail(chan)
      /\ UNCHANGED <<config, up, shutdown, cpc, event, todo, inserted, outcome, rows, next,
                     matched, skipped, sent, arrived, undone, settled>>
    BY DEF Inv, Recv, consumer, history
<1> USE TypeFacts
<1>2. /\ chan \in Seq(Dispatch) /\ Len(chan) <= config.capacity /\ config.capacity \in Nat
    BY <1>1, DeliveryAssumption DEF TypeOK, Config
<1>3. /\ 1 \in 1..Len(chan) /\ work' = chan[1] /\ work' \in Dispatch
      /\ chan' \in Seq(Dispatch) /\ Len(chan') = Len(chan) - 1
      /\ \A i \in 1..Len(chan') : i + 1 \in 1..Len(chan) /\ chan'[i] = chan[i + 1]
    BY <1>1, <1>2
<1>4. Dispatching' = Dispatching
    BY <1>1 DEF Dispatching
<1>5. TypeOK'
    <2>1. Len(chan') <= config.capacity
        BY <1>1, <1>2, <1>3
    <2> QED
        BY <1>1, <1>3, <2>1 DEF TypeOK
<1>6. ConsumerInv' /\ EventInv' /\ FutureInv' /\ SettledInv'
    BY <1>1, <1>4 DEF Inv, ConsumerInv, EventInv, FutureInv, SettledInv
<1>7. ChannelInv'
    <2>1. \A i \in 1..Len(chan) :
              /\ chan[i].rules # {}
              /\ chan[i].no < next
              /\ Dispatching => chan[i].no < event
              /\ \A r \in chan[i].rules : rows[<<chan[i].no, r>>] = Pending
        BY DEF Inv, ChannelInv
    <2>2. \A i, j \in 1..Len(chan) : i < j => chan[i].no < chan[j].no
        BY DEF Inv, ChannelInv
    <2>3. ASSUME NEW i \in 1..Len(chan'), NEW j \in 1..Len(chan'), i < j
          PROVE  chan'[i].no < chan'[j].no
        <3>1. i \in Int /\ j \in Int /\ i + 1 < j + 1
            BY <2>3
        <3>2. i + 1 \in 1..Len(chan) /\ j + 1 \in 1..Len(chan)
            BY <1>3
        <3>3. chan[i + 1].no < chan[j + 1].no
            BY <2>2, <3>1, <3>2
        <3> QED
            BY <1>3, <3>3
    <2>4. \A i \in 1..Len(chan') :
              /\ chan'[i].rules # {}
              /\ chan'[i].no < next
              /\ Dispatching => chan'[i].no < event
              /\ \A r \in chan'[i].rules : rows[<<chan'[i].no, r>>] = Pending
        BY <1>3, <2>1
    <2> QED
        BY <1>1, <1>4, <2>3, <2>4 DEF ChannelInv, ReceiverGone
<1>8. WorkerInv'
    <2>1. \A i \in 1..Len(chan') : work'.no < chan'[i].no
        <3>1. \A j \in 1..Len(chan) : 1 < j => chan[1].no < chan[j].no
            BY <1>3 DEF Inv, ChannelInv
        <3>2. \A i \in 1..Len(chan') : 1 < i + 1
            BY <1>1, <1>3
        <3> QED
            BY <1>3, <3>1, <3>2
    <2>2. /\ work'.rules # {} /\ work'.no < next
          /\ Dispatching => work'.no < event
          /\ \A r \in work'.rules : rows[<<work'.no, r>>] = Pending
        BY <1>3 DEF Inv, ChannelInv
    <2> QED
        BY <1>1, <1>3, <1>4, <2>1, <2>2 DEF WorkerInv, Working
<1>9. SentInv'
    <2> SUFFICES ASSUME NEW a \in sent
                 PROVE  /\ rows[a] # Absent
                        /\ Dispatching => a[1] < event
                        /\ \A i \in 1..Len(chan') : a[1] < chan'[i].no
                        /\ \A r \in work'.rules : Before(a, <<work'.no, r>>)
        BY <1>1, <1>4 DEF Inv, SentInv
    <2>1. \A i \in 1..Len(chan) : a[1] < chan[i].no
        BY DEF Inv, SentInv
    <2> QED
        BY <1>1, <1>3, <2>1 DEF Inv, SentInv, Before
<1>10. TruthInv'
    BY <1>1 DEF Inv, TruthInv, RowsTellTheTruth
<1> QED
    BY <1>5, <1>6, <1>7, <1>8, <1>9, <1>10 DEF Inv

(* The target at hand: the least rule of the dispatch at hand, its row Pending. *)
LEMMA AttemptFacts ==
    ASSUME Inv, Working
    PROVE  /\ Least(work.rules) \in work.rules /\ Least(work.rules) \in RuleNo
           /\ \A s \in work.rules : Least(work.rules) <= s
           /\ work \in Dispatch /\ work.no \in EventNo
           /\ attempt = <<work.no, Least(work.rules)>> /\ attempt \in Attempt
           /\ rows[attempt] = Pending
           /\ target.target \in TargetKind
<1> USE TypeFacts
<1>1. TypeOK /\ work \in Dispatch /\ work.rules # {}
      /\ \A r \in work.rules : rows[<<work.no, r>>] = Pending
    BY DEF Inv, WorkerInv
<1>2. /\ Least(work.rules) \in work.rules /\ Least(work.rules) \in RuleNo
      /\ \A s \in work.rules : Least(work.rules) <= s
    BY <1>1, LeastFacts
<1>3. config.rules \in [RuleNo -> Rule]
    BY <1>1, DeliveryAssumption DEF TypeOK, Config
<1>4. target.target \in TargetKind
    BY <1>2, <1>3 DEF target, Rule
<1> QED
    BY <1>1, <1>2, <1>4 DEF attempt

(* A refusal sends nothing, so the message of the attempt has not arrived. *)
LEMMA RefuseTargetInv ==
    ASSUME Inv, RefuseTarget
    PROVE  Inv'
<1>1. /\ wpc = "send" /\ wpc' = "complete" /\ outcome' = "Permanent"
      /\ UNCHANGED <<config, up, shutdown, cpc, event, todo, inserted, chan, work, rows, next,
                     matched, skipped, sent, arrived, undone, settled>>
    BY DEF RefuseTarget, consumer, history
<1>2. Dispatching' = Dispatching /\ attempt' = attempt
    BY <1>1 DEF Dispatching, attempt
<1>3. TypeOK'
    BY <1>1 DEF Inv, TypeOK, Outcome
<1>4. ConsumerInv' /\ EventInv' /\ FutureInv' /\ SettledInv'
    BY <1>1, <1>2 DEF Inv, ConsumerInv, EventInv, FutureInv, SettledInv
<1>5. ChannelInv' /\ WorkerInv'
    BY <1>1, <1>2 DEF Inv, ChannelInv, WorkerInv, ReceiverGone, Working, Outcome
<1>6. SentInv'
    BY <1>1, <1>2 DEF Inv, SentInv
<1>7. attempt \notin arrived
    <2>1. attempt \notin sent
        <3>1. Least(work.rules) \in work.rules /\ attempt = <<work.no, Least(work.rules)>>
              /\ work.no \in Nat /\ Least(work.rules) \in Nat
            BY <1>1, AttemptFacts, TypeFacts DEF Working, Inv
        <3>2. ~Before(attempt, attempt)
            BY <3>1 DEF Before
        <3> QED
            BY <1>1, <3>1, <3>2 DEF Inv, SentInv
    <2> QED
        BY <2>1 DEF Inv, SentInv
<1>8. TruthInv'
    BY <1>1, <1>2, <1>7 DEF Inv, TruthInv, RowsTellTheTruth
<1> QED
    BY <1>3, <1>4, <1>5, <1>6, <1>8 DEF Inv

(* A send adds its attempt to what was sent, and the worker holds its         *)
(* receipt, unless the sender panics and takes worker and channel along.      *)
LEMMA SendTargetInv ==
    ASSUME Inv, SendTarget
    PROVE  Inv'
<1>1. /\ wpc = "send" /\ sent' = sent \cup {attempt}
      /\ UNCHANGED <<config, up, shutdown, cpc, event, todo, inserted, rows, next, matched,
                     skipped, undone, settled>>
    BY DEF SendTarget, consumer
<1>2. PICK res \in Results[target.target] :
          /\ arrived' = IF res.arrived THEN arrived \cup {attempt} ELSE arrived
          /\ IF res.outcome = "panic"
             THEN wpc' = "dead" /\ work' = NoWork /\ chan' = <<>> /\ outcome' = "none"
             ELSE wpc' = "complete" /\ outcome' = res.outcome /\ UNCHANGED <<work, chan>>
    BY DEF SendTarget
<1>3. /\ Least(work.rules) \in work.rules /\ Least(work.rules) \in RuleNo
      /\ \A s \in work.rules : Least(work.rules) <= s
      /\ work \in Dispatch /\ work.no \in EventNo
      /\ attempt = <<work.no, Least(work.rules)>> /\ attempt \in Attempt
      /\ rows[attempt] = Pending
      /\ target.target \in TargetKind
    BY <1>1, AttemptFacts DEF Working
<1>4. /\ res.outcome \in Outcome \cup {"panic"}
      /\ res.outcome = "Delivered" => res.arrived = TRUE
      /\ res.outcome = "Permanent" => res.arrived = FALSE
    BY <1>3, ResultFacts
<1>5. Dispatching' = Dispatching /\ TypeOK
    BY <1>1 DEF Inv, Dispatching
<1> USE TypeFacts
<1>6. attempt \notin sent /\ attempt \notin arrived
    <2>1. ~Before(attempt, attempt)
        BY <1>3, <1>5 DEF Before
    <2> QED
        BY <1>1, <1>3, <2>1 DEF Inv, SentInv
<1>7. \/ /\ wpc' = "dead" /\ work' = NoWork /\ chan' = <<>> /\ outcome' = "none"
      \/ /\ wpc' = "complete" /\ outcome' = res.outcome /\ work' = work /\ chan' = chan
         /\ outcome' \in Outcome /\ attempt' = attempt
    BY <1>2, <1>4 DEF attempt
<1>8. /\ arrived' \subseteq arrived \cup {attempt} /\ arrived \subseteq arrived'
      /\ outcome' = "Delivered" => attempt \in arrived'
      /\ outcome' = "Permanent" => attempt \notin arrived'
    BY <1>2, <1>4, <1>6, <1>7
<1>9. TypeOK'
    <2>1. config.capacity \in Nat
        BY <1>5, DeliveryAssumption DEF TypeOK, Config
    <2>2. Len(chan') <= config.capacity /\ chan' \in Seq(Dispatch)
        <3>1. CASE chan' = <<>>
            BY <2>1, <3>1
        <3>2. CASE chan' = chan
            BY <1>5, <3>2 DEF TypeOK
        <3> QED
            BY <1>7, <3>1, <3>2
    <2>3. sent' \subseteq Attempt /\ arrived' \subseteq Attempt
        BY <1>1, <1>3, <1>5, <1>8 DEF TypeOK
    <2>4. outcome' \in Outcome \cup {"none"} /\ work' \in Dispatch \cup {NoWork}
          /\ wpc' \in {"recv", "send", "complete", "exited", "dead"}
        BY <1>3, <1>7
    <2> QED
        BY <1>1, <1>5, <2>2, <2>3, <2>4 DEF TypeOK
<1>10. ConsumerInv' /\ EventInv' /\ FutureInv' /\ SettledInv'
    BY <1>1, <1>5 DEF Inv, ConsumerInv, EventInv, FutureInv, SettledInv
<1>11. ChannelInv'
    BY <1>1, <1>5, <1>7 DEF Inv, ChannelInv, ReceiverGone
<1>12. WorkerInv'
    BY <1>1, <1>5, <1>7 DEF Inv, WorkerInv, Working
<1>13. SentInv'
    <2>1. arrived' \subseteq sent'
        BY <1>1, <1>8 DEF Inv, SentInv
    <2>2. Pending # Absent
        BY DEF Pending, Absent
    <2>3. /\ Dispatching => attempt[1] < event
          /\ \A i \in 1..Len(chan) : attempt[1] < chan[i].no
        BY <1>1, <1>3 DEF Inv, WorkerInv, Working
    <2>4. CASE wpc' = "dead" /\ chan' = <<>>
        <3>1. \A i \in 1..Len(chan') : FALSE
            BY <2>4
        <3>2. \A a \in sent' : rows'[a] # Absent /\ (Dispatching' => a[1] < event')
            BY <1>1, <1>3, <1>5, <2>2, <2>3 DEF Inv, SentInv
        <3> QED
            BY <2>1, <2>4, <3>1, <3>2 DEF SentInv
    <2>5. CASE wpc' = "complete" /\ work' = work /\ chan' = chan /\ attempt' = attempt
        BY <1>1, <1>3, <1>5, <2>1, <2>2, <2>3, <2>5 DEF Inv, SentInv
    <2> QED
        BY <1>7, <2>4, <2>5
<1>14. TruthInv'
    <2>1. rows[attempt].outcome = "none"
        BY <1>3 DEF Pending
    <2>2. RowsTellTheTruth'
        BY <1>1, <1>8, <2>1 DEF Inv, TruthInv, RowsTellTheTruth
    <2> QED
        BY <1>7, <1>8, <2>2 DEF TruthInv
<1> QED
    BY <1>9, <1>10, <1>11, <1>12, <1>13, <1>14 DEF Inv

(* One target of the dispatch is done with, whether its row was completed or  *)
(* not; the rest of the dispatch is as it was.                                *)
LEMMA CompletionInv ==
    ASSUME Inv, Complete \/ CompleteFails
    PROVE  Inv'
<1> DEFINE l == Least(work.rules)
           rest == work.rules \ {l}
<1>1. /\ wpc = "complete" /\ TargetDone
      /\ UNCHANGED <<config, up, shutdown, cpc, event, todo, inserted, chan, next, matched,
                     skipped, sent, arrived, settled>>
    BY DEF Complete, CompleteFails, consumer, history
<1>2. /\ l \in work.rules /\ l \in RuleNo
      /\ \A s \in work.rules : l <= s
      /\ work \in Dispatch /\ work.no \in EventNo
      /\ attempt = <<work.no, l>> /\ attempt \in Attempt
      /\ rows[attempt] = Pending
    BY <1>1, AttemptFacts DEF Working
<1>3. Dispatching' = Dispatching /\ TypeOK /\ outcome \in Outcome
    BY <1>1 DEF Inv, WorkerInv, Dispatching
<1> USE TypeFacts
<1>4. /\ \A a \in Attempt : a # attempt => rows'[a] = rows[a]
      /\ \/ rows'[attempt] = Pending
         \/ /\ rows'[attempt].status \in {"Succeeded", "FailedTransient", "FailedPermanent"}
            /\ rows'[attempt].outcome = outcome
      /\ rows' \in [Attempt -> Row]
      /\ undone' \subseteq Attempt
    <2>0. rows \in [Attempt -> Row] /\ undone \subseteq Attempt
        BY <1>3 DEF TypeOK
    <2>1. CASE Complete
        <3> DEFINE row == [status |-> status_for_outcome(outcome, FALSE), outcome |-> outcome]
        <3>1. status_for_outcome(outcome, FALSE) \in {"Succeeded", "FailedTransient", "FailedPermanent"}
            BY <1>3, Zenon DEF status_for_outcome, Outcome
        <3>2. row \in Row /\ row.outcome = outcome
              /\ row.status \in {"Succeeded", "FailedTransient", "FailedPermanent"}
            BY <1>3, <3>1 DEF Row
        <3>3. rows' = [rows EXCEPT ![attempt] = row] /\ undone' = undone
            BY <2>1 DEF Complete, history
        <3> HIDE DEF row
        <3> QED
            BY <1>2, <2>0, <3>2, <3>3
    <2>2. CASE CompleteFails
        BY <1>2, <2>0, <2>2 DEF CompleteFails
    <2> QED
        BY <2>1, <2>2
<1>5. rows'[attempt] # Absent
    BY <1>4 DEF Pending, Absent
<1>6. /\ outcome' = "none"
      /\ \/ wpc' = "recv" /\ work' = NoWork
         \/ /\ wpc' = "send" /\ work'.no = work.no /\ work'.rules = rest
            /\ work' \in Dispatch /\ rest # {}
    <2>1. work.rules \subseteq RuleNo /\ DOMAIN work = {"no", "rules"}
        BY <1>2, <1>3 DEF Dispatch
    <2>3. [work EXCEPT !.rules = rest] \in Dispatch
        BY <1>2, <2>1 DEF Dispatch
    <2>4. /\ outcome' = "none"
          /\ IF rest = {} THEN wpc' = "recv" /\ work' = NoWork
             ELSE wpc' = "send" /\ work' = [work EXCEPT !.rules = rest]
        BY <1>1 DEF TargetDone
    <2>5. [work EXCEPT !.rules = rest].no = work.no /\ [work EXCEPT !.rules = rest].rules = rest
        BY <2>1
    <2> HIDE DEF rest
    <2>6. CASE rest = {}
        BY <2>4, <2>6
    <2>7. CASE rest # {}
        <3>1. wpc' = "send" /\ work' = [work EXCEPT !.rules = rest]
            BY <2>4, <2>7
        <3>2. work'.no = work.no /\ work'.rules = rest /\ work' \in Dispatch
            BY <2>3, <2>5, <3>1
        <3> QED
            BY <2>4, <2>7, <3>1, <3>2
    <2> QED
        BY <2>6, <2>7
<1> HIDE DEF l
<1>7. TypeOK'
    BY <1>1, <1>3, <1>4, <1>6 DEF TypeOK
<1>8. ConsumerInv' /\ FutureInv'
    <2>1. \A n \in EventNo, r \in RuleNo : n >= next => rows'[<<n, r>>] = rows[<<n, r>>]
        BY <1>1, <1>2, <1>3, <1>4 DEF Inv, WorkerInv, Working
    <2> QED
        BY <1>1, <1>3, <2>1 DEF Inv, ConsumerInv, FutureInv
<1>9. EventInv'
    <2>1. Dispatching => \A r \in RuleNo : rows'[<<event, r>>] = rows[<<event, r>>]
        BY <1>1, <1>2, <1>3, <1>4 DEF Inv, WorkerInv, Working, ConsumerInv
    <2>2. inserted \subseteq RuleNo
        BY <1>3 DEF TypeOK
    <2> QED
        BY <1>1, <1>3, <2>1, <2>2 DEF Inv, EventInv
<1>10. \A i \in 1..Len(chan) : \A r \in RuleNo :
           rows'[<<chan[i].no, r>>] = rows[<<chan[i].no, r>>]
    BY <1>1, <1>2, <1>3, <1>4 DEF Inv, WorkerInv, Working
<1>11. ChannelInv'
    <2>1. \A i \in 1..Len(chan) : \A r \in chan[i].rules : rows'[<<chan[i].no, r>>] = Pending
        BY <1>3, <1>10 DEF Inv, ChannelInv
    <2> QED
        BY <1>1, <1>3, <1>6, <2>1 DEF Inv, ChannelInv, ReceiverGone
<1>12. WorkerInv'
    <2>1. \A r \in rest : rows'[<<work.no, r>>] = Pending
        BY <1>1, <1>2, <1>3, <1>4 DEF Inv, WorkerInv, Working
    <2> HIDE DEF rest
    <2>2. CASE wpc' = "recv" /\ work' = NoWork
        BY <2>2 DEF WorkerInv, Working
    <2>3. CASE /\ wpc' = "send" /\ work'.no = work.no /\ work'.rules = rest
               /\ work' \in Dispatch /\ rest # {}
        BY <1>1, <1>3, <2>1, <2>3 DEF Inv, WorkerInv, Working
    <2> QED
        BY <1>6, <2>2, <2>3
<1>13. SentInv'
    <2>1. \A a \in sent : rows'[a] # Absent
        BY <1>3, <1>4, <1>5 DEF Inv, SentInv
    <2>2. \A r \in rest : Before(attempt, <<work.no, r>>)
        <3>1. \A r \in rest : l < r
            BY <1>2, <1>3
        <3> QED
            BY <1>2, <3>1 DEF Before
    <2>3. \A a \in sent, r \in rest : Before(a, <<work.no, r>>)
        BY <1>1, <2>2 DEF Inv, SentInv
    <2> HIDE DEF rest
    <2> QED
        BY <1>1, <1>3, <1>6, <2>1, <2>3 DEF Inv, SentInv
<1>14. TruthInv'
    <2>1. /\ outcome = "Delivered" => attempt \in arrived
          /\ outcome = "Permanent" => attempt \notin arrived
        BY <1>1 DEF Inv, TruthInv
    <2>2. RowsTellTheTruth'
        BY <1>1, <1>4, <2>1 DEF Inv, TruthInv, RowsTellTheTruth, Pending
    <2> QED
        BY <1>6, <2>2 DEF TruthInv
<1>15. SettledInv'
    <2>1. \A n \in settled, r \in RuleNo : rows'[<<n, r>>] # Absent <=> rows[<<n, r>>] # Absent
        <3>1. Pending # Absent
            BY DEF Pending, Absent
        <3>2. \A n \in settled, r \in RuleNo : <<n, r>> \in Attempt
            BY <1>3
        <3> QED
            BY <1>2, <1>4, <1>5, <3>1, <3>2
    <2> QED
        BY <1>1, <2>1 DEF Inv, SettledInv
<1> QED
    BY <1>7, <1>8, <1>9, <1>11, <1>12, <1>13, <1>14, <1>15 DEF Inv

(* Every step preserves the invariant. *)
LEMMA NextInv == Inv /\ [Next]_vars => Inv'
<1> SUFFICES ASSUME Inv, [Next]_vars PROVE Inv'
    OBVIOUS
<1>1. CASE \E e \in Event : LifecycleEvent(e)
    BY <1>1, LifecycleEventInv
<1>2. CASE ConsumerStep
    BY <1>2, InsertPendingInv, InsertFailsInv, DispatchEndsInv DEF ConsumerStep
<1>3. CASE WorkerStep
    BY <1>3, RefuseTargetInv, SendTargetInv, CompletionInv DEF WorkerStep
<1>4. CASE Recv \/ WorkerShutdown \/ WorkerDrained
    BY <1>4, RecvInv, WorkerLeavesInv
<1>5. CASE ConsumerExit \/ Shutdown \/ Boot \/ UNCHANGED vars
    BY <1>5, QuietInv
<1>6. CASE Stop
    BY <1>6, StopInv
<1> QED
    BY <1>1, <1>2, <1>3, <1>4, <1>5, <1>6 DEF Next, ConsumerStep, WorkerStep

(* The invariant holds in every reachable state. *)
LEMMA Invariance == Spec => []Inv
    BY InitInv, NextInv, PTL DEF Spec

-----------------------------------------------------------------------------
(* The types of all variables, and the bound of the dispatch channel: the     *)
(* consumer waits for room, so there are never more than capacity dispatches. *)
THEOREM TypeCorrect == Spec => []TypeOK
<1>1. Inv => TypeOK
    BY DEF Inv
<1> QED
    BY <1>1, Invariance, PTL

(* Every attempt that is under way has a Pending row, nothing is sent without *)
(* a row, and once dispatch_lifecycle is through with an event exactly its    *)
(* matching rules have one, but for those whose own insert failed.            *)
THEOREM AuditTrailHolds == Spec => []AuditTrail
<1>1. Inv => AuditTrail
    <2> SUFFICES ASSUME Inv PROVE AuditTrail
        OBVIOUS
    <2>1. ASSUME NEW a \in InFlight PROVE rows[a] = Pending
        <3>1. CASE a \in {<<event, r>> : r \in inserted}
            BY <3>1 DEF Inv, ConsumerInv, EventInv
        <3>2. CASE a \in Queued
            <4>1. PICK i \in DOMAIN chan : a \in {<<chan[i].no, r>> : r \in chan[i].rules}
                BY <3>2 DEF Queued
            <4>2. DOMAIN chan = 1..Len(chan)
                BY DEF Inv, TypeOK
            <4> QED
                BY <4>1, <4>2 DEF Inv, ChannelInv
        <3>3. CASE a \in {<<work.no, r>> : r \in work.rules}
            BY <3>3 DEF Inv, WorkerInv, NoWork
        <3> QED
            BY <2>1, <3>1, <3>2, <3>3 DEF InFlight
    <2>2. \A a \in sent : rows[a] # Absent
        BY DEF Inv, SentInv
    <2> QED
        BY <2>1, <2>2 DEF AuditTrail, Inv, SettledInv
<1> QED
    BY <1>1, Invariance, PTL

(* A row that says Delivered stands for a message that arrived, and one that  *)
(* says Permanent for one that did not, whatever the three services answer.   *)
THEOREM RowsAreTrue == Spec => []RowsTellTheTruth
<1>1. Inv => RowsTellTheTruth
    BY DEF Inv, TruthInv
<1> QED
    BY <1>1, Invariance, PTL

(* complete's UPDATE does not look at the status of the row it changes; it    *)
(* never meets a finished one.                                                *)
THEOREM FinishedStaysFinished == Spec => FinishedIsFinal
<1> DEFINE Final == \A a \in Attempt :
                       rows[a].status \notin {"absent", "Pending"} => rows'[a] = rows[a]
<1>1. Inv /\ [Next]_vars => [Final]_vars
    <2> SUFFICES ASSUME Inv, Next PROVE Final
        OBVIOUS
    <2>1. CASE rows' = rows
        BY <2>1
    <2>2. CASE InsertPending
        <3>1. /\ TypeOK /\ Dispatching /\ todo \subseteq RuleNo /\ todo # {}
              /\ event \in EventNo
            BY <2>2 DEF Inv, TypeOK, ConsumerInv, Dispatching, InsertPending
        <3>2. Least(todo) \in todo /\ <<event, Least(todo)>> \in Attempt
            BY <3>1, LeastFacts DEF Attempt
        <3>3. rows[<<event, Least(todo)>>] = Absent
            BY <3>1, <3>2 DEF Inv, EventInv
        <3>4. \A a \in Attempt : a # <<event, Least(todo)>> => rows'[a] = rows[a]
            BY <2>2, <3>1 DEF InsertPending, TypeOK
        <3>5. Absent.status = "absent"
            BY DEF Absent
        <3> QED
            BY <3>3, <3>4, <3>5
    <2>3. CASE Complete
        <3>1. rows[attempt] = Pending /\ TypeOK
            BY <2>3, AttemptFacts DEF Inv, Working, Complete
        <3>2. \A a \in Attempt : a # attempt => rows'[a] = rows[a]
            BY <2>3, <3>1 DEF Complete, TypeOK
        <3>3. Pending.status = "Pending"
            BY DEF Pending
        <3> QED
            BY <3>1, <3>2, <3>3
    <2>4. CASE \E e \in Event : LifecycleEvent(e)
        BY <2>1, <2>4 DEF LifecycleEvent
    <2> QED
        BY <2>1, <2>2, <2>3, <2>4
           DEF Next, InsertFails, SendDispatch, SendToClosed, ConsumerExit, Recv, WorkerShutdown,
               WorkerDrained, RefuseTarget, SendTarget, CompleteFails, Shutdown, Stop, Boot
<1>2. [][Final]_vars => FinishedIsFinal
    BY PTL DEF FinishedIsFinal
<1> QED
    BY <1>1, <1>2, Invariance, PTL DEF Spec

(* Nobody is told of a resolution before the opening, or of anything twice:   *)
(* what the worker sends comes after all it has ever sent, over reboots too.  *)
THEOREM SendsAreOrdered == Spec => SentInOrderOnce
<1> DEFINE Ordered == SendTarget => \A a \in sent : Before(a, attempt)
<1>1. Inv => Ordered
    <2> SUFFICES ASSUME Inv, wpc = "send" PROVE \A a \in sent : Before(a, attempt)
        BY DEF SendTarget
    <2>1. attempt = <<work.no, Least(work.rules)>> /\ Least(work.rules) \in work.rules
        BY AttemptFacts DEF Working
    <2> QED
        BY <2>1 DEF Inv, SentInv
<1>2. [][Ordered]_vars => SentInOrderOnce
    BY PTL DEF SentInOrderOnce
<1> QED
    BY <1>1, <1>2, Invariance, PTL
=============================================================================
