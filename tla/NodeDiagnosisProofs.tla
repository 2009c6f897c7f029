------------------------ MODULE NodeDiagnosisProofs ------------------------
(***************************************************************************)
(* Proofs about NodeDiagnosis, for any settings: any results and replies   *)
(* of the calls, any debounces and gaps between batches, any number of     *)
(* steps back of the wall clock, with and without restarts.                *)
(*                                                                         *)
(* The rules draft only when their flag turns, so a draft under way is the *)
(* difference between what its rule believes and what the engine has open, *)
(* and there is at most one of each kind.  The debounces hold because what *)
(* a rule remembers is never older than what was really seen.              *)
(***************************************************************************)
EXTENDS NodeDiagnosis, SequenceTheorems, TLAPS

(* A state is ahead of the last poll by no more than the clock stepped back. *)
AheadInv == \A t \in State : ahead[t] <= Chosen.stepBack - stepBack

(* The drafts under way: one of a kind, in the sense of its rule; where     *)
(* there is none, rule and engine agree.                                    *)
DraftInv ==
    /\ \A i, j \in 1..Len(drafts) : drafts[i].kind = drafts[j].kind => i = j
    /\ \A k \in Kind : \A i \in 1..Len(drafts) :
          drafts[i].kind = k => (drafts[i].status = "Active" <=> Believes(k))
    /\ \A k \in Kind :
          (\A i \in 1..Len(drafts) : drafts[i].kind # k) =>
              /\ Believes(k) => k \in open
              /\ k \in open => Believes(k) \/ restarted

(* no_peers has not waited for longer than outbound peers have been missing. *)
NoPeersInv == np.first <= npOk

(* The counts of tip_lag are those of the last evaluations. *)
TipLagInv ==
    /\ tl.firing >= 1 => tlRuns[2] = "Firing"
    /\ tl.firing >= 2 => tlRuns[1] = "Firing"
    /\ tl.clearing >= 1 => tlRuns[2] = "NotFiring"
    /\ tl.clearing >= 2 => tlRuns[1] = "NotFiring"

Inv == TypeOK /\ AheadInv /\ DraftInv /\ NoPeersInv /\ TipLagInv

-----------------------------------------------------------------------------
(* The parameters of the behaviour at hand. *)
LEMMA SettingFacts ==
    ASSUME setting \in DOMAIN Settings
    PROVE  /\ Chosen \in Setting
           /\ Debounce \in Nat /\ Debounce > 0
           /\ FlatWindow \in Nat /\ FlatWindow > 0
           /\ Retention \in Nat /\ Retention > Debounce
           /\ Chosen.stepBack \in Nat
           /\ Chosen.gaps \subseteq Nat
           /\ Chosen.replies \subseteq [Target -> Reply]
<1>1. Chosen \in Setting /\ Retention > Debounce
    BY DiagnosisAssumption DEF Chosen, Retention, Debounce
<1> QED
    BY <1>1 DEF Setting, Debounce, FlatWindow, Retention

(* Ages grow up to their cap, and in step. *)
LEMMA OlderFacts ==
    ASSUME NEW cap \in Nat, NEW a \in NoAge..cap, NEW g \in Nat
    PROVE  /\ Older(a, g, cap) \in NoAge..cap
           /\ a >= 0 => Older(a, g, cap) >= 0
           /\ \A b \in NoAge..cap : a <= b => Older(a, g, cap) <= Older(b, g, cap)
BY DEF Older, NoAge

(* A debounced entry that ages keeps its type and its activity. *)
LEMMA AgedFacts ==
    ASSUME setting \in DOMAIN Settings, NEW e \in DebouncedEntry, NEW g \in Nat
    PROVE  /\ Aged(e, g) \in DebouncedEntry
           /\ Aged(e, g).active = e.active
           /\ Aged(e, g).first = Older(e.first, g, Debounce)
<1> USE SettingFacts
<1>1. e.first \in NoAge..Debounce /\ e.touched \in NoAge..Retention
    BY DEF DebouncedEntry
<1>2. Older(e.first, g, Debounce) \in NoAge..Debounce
    BY <1>1, OlderFacts
<1>3. Older(e.touched, g, Retention) \in NoAge..Retention
    BY <1>1, OlderFacts
<1> QED
    BY <1>2, <1>3 DEF Aged, DebouncedEntry

(* The type of tl in TypeOK, with its intervals named. *)
Ticks     == 0..DebounceTicks
Progress  == NoAge..2
WindowAge == NoAge..FlatWindow
IdleAge   == NoAge..Retention

TipLagEntry ==
    [firing : Ticks, clearing : Ticks, active : BOOLEAN,
     progress : Progress, changed : WindowAge, touched : IdleAge]

(* So does that of the tip-lag rule, with both of its counters. *)
LEMMA AgedTipLagFacts ==
    ASSUME setting \in DOMAIN Settings, NEW e \in TipLagEntry, NEW g \in Nat
    PROVE  /\ AgedTipLag(e, g) \in TipLagEntry
           /\ AgedTipLag(e, g).active = e.active
           /\ AgedTipLag(e, g).firing = e.firing
           /\ AgedTipLag(e, g).clearing = e.clearing
<1> USE SettingFacts
<1>1. e.changed \in WindowAge /\ e.touched \in IdleAge
    BY DEF TipLagEntry
<1>2. Older(e.changed, g, FlatWindow) \in WindowAge
    BY <1>1, OlderFacts DEF WindowAge
<1>3. Older(e.touched, g, Retention) \in IdleAge
    BY <1>1, OlderFacts DEF IdleAge
<1> QED
    BY <1>2, <1>3 DEF AgedTipLag, TipLagEntry

(* Pruning touches no entry with an open incident. *)
LEMMA PruneFacts ==
    ASSUME setting \in DOMAIN Settings, NEW e \in DebouncedEntry
    PROVE  /\ prune_stale(e, IdleEntry) \in DebouncedEntry
           /\ prune_stale(e, IdleEntry).active = e.active
           /\ prune_stale(e, IdleEntry).first \in {e.first, NoAge}
<1>1. IdleEntry \in DebouncedEntry /\ IdleEntry.active = FALSE /\ IdleEntry.first = NoAge
    BY SettingFacts DEF IdleEntry, DebouncedEntry, NoAge
<1>2. e.active \in BOOLEAN
    BY DEF DebouncedEntry
<1>3. CASE prune_stale(e, IdleEntry) = e
    BY <1>3
<1>4. CASE prune_stale(e, IdleEntry) = IdleEntry /\ ~e.active
    BY <1>1, <1>2, <1>4
<1> QED
    BY <1>3, <1>4 DEF prune_stale

(* What one evaluation does to a debounced rule: it is raised only when the   *)
(* condition has lasted for Debounce.                                         *)
LEMMA DebouncedFacts ==
    ASSUME setting \in DOMAIN Settings, NEW e \in DebouncedEntry,
           NEW c \in {"Firing", "NotFiring", "Unknown"}
    PROVE  /\ debounced(e, c) \in DebouncedEntry
           /\ c = "NotFiring" => debounced(e, c).first = NoAge
           /\ c # "Firing" => debounced(e, c).first \in {e.first, NoAge}
           /\ c = "Firing" => debounced(e, c).first \in {e.first, 0}
           /\ ~e.active /\ debounced(e, c).active => c = "Firing" /\ e.first >= Debounce
<1> USE SettingFacts
<1> DEFINE p == [prune_stale(e, IdleEntry) EXCEPT !.touched = 0]
           f == IF p.first = NoAge THEN 0 ELSE p.first
<1>1. /\ p \in DebouncedEntry /\ p.active = e.active /\ p.first \in {e.first, NoAge}
    <2>1. prune_stale(e, IdleEntry) \in DebouncedEntry
        BY PruneFacts
    <2>2. /\ p \in DebouncedEntry /\ p.active = prune_stale(e, IdleEntry).active
          /\ p.first = prune_stale(e, IdleEntry).first
        BY <2>1 DEF DebouncedEntry, NoAge
    <2> QED
        BY <2>2, PruneFacts
<1>2. e.first \in NoAge..Debounce /\ e.active \in BOOLEAN
    BY DEF DebouncedEntry
<1>3. c = "Firing" => debounced(e, c) = [p EXCEPT !.first = f, !.active = @ \/ f >= Debounce]
    BY Zenon DEF debounced
<1>4. c = "NotFiring" => debounced(e, c) = [p EXCEPT !.first = NoAge, !.active = FALSE]
    BY Zenon DEF debounced
<1>5. c = "Unknown" => debounced(e, c) = p
    BY Zenon DEF debounced
<1> HIDE DEF p
<1>6. CASE c = "Firing"
    <2> DEFINE b == p.active \/ f >= Debounce
    <2>1. f \in NoAge..Debounce /\ f \in {e.first, 0} /\ b \in BOOLEAN
        BY <1>1, <1>2 DEF NoAge
    <2>2. debounced(e, c) = [p EXCEPT !.first = f, !.active = b]
        BY <1>3, <1>6
    <2>3. b => p.active \/ f >= Debounce
        OBVIOUS
    <2> HIDE DEF f, b
    <2>4. /\ debounced(e, c) \in DebouncedEntry
          /\ debounced(e, c).first = f /\ debounced(e, c).active = b
        BY <1>1, <2>1, <2>2 DEF DebouncedEntry
    <2> QED
        BY <1>1, <1>2, <1>6, <2>1, <2>3, <2>4
<1>7. CASE c = "NotFiring"
    <2>1. NoAge \in NoAge..Debounce
        BY DEF NoAge
    <2>2. /\ debounced(e, c) \in DebouncedEntry
          /\ debounced(e, c).first = NoAge /\ debounced(e, c).active = FALSE
        BY <1>1, <1>4, <1>7, <2>1 DEF DebouncedEntry
    <2> QED
        BY <1>7, <2>2
<1>8. CASE c = "Unknown"
    BY <1>1, <1>2, <1>5, <1>8
<1> QED
    BY <1>6, <1>7, <1>8

(* Before a tip_lag entry is classified, it is pruned and its window tracked. *)
LEMMA UpdateStateFacts ==
    ASSUME setting \in DOMAIN Settings, NEW e \in TipLagEntry, NEW v,
           v["blockchain"] \in Chain
    PROVE  /\ UpdateState(e, v) \in TipLagEntry
           /\ UpdateState(e, v).active = e.active
           /\ UpdateState(e, v).firing \in {e.firing, 0}
           /\ UpdateState(e, v).clearing \in {e.clearing, 0}
<1> USE SettingFacts
<1> DEFINE q == prune_stale(e, IdleTipLag)
           p == [q EXCEPT !.touched = 0]
           chain == v["blockchain"]
<1>0. /\ 0 \in Ticks /\ NoAge \in Progress /\ NoAge \in WindowAge /\ 0 \in WindowAge
      /\ NoAge \in IdleAge /\ 0 \in IdleAge
    BY DEF NoAge, DebounceTicks, Ticks, Progress, WindowAge, IdleAge
<1>1. /\ IdleTipLag \in TipLagEntry /\ IdleTipLag.active = FALSE
      /\ IdleTipLag.firing = 0 /\ IdleTipLag.clearing = 0
    BY <1>0 DEF IdleTipLag, TipLagEntry
<1>2. q \in TipLagEntry /\ q.active = e.active /\ q.firing \in {e.firing, 0}
      /\ q.clearing \in {e.clearing, 0}
    <2>1. e.active \in BOOLEAN
        BY DEF TipLagEntry
    <2>2. CASE prune_stale(e, IdleTipLag) = e
        BY <2>2
    <2>3. CASE prune_stale(e, IdleTipLag) = IdleTipLag /\ ~e.active
        BY <1>1, <2>1, <2>3
    <2> QED
        BY <2>2, <2>3 DEF prune_stale
<1> HIDE DEF q
<1>3. /\ p \in TipLagEntry /\ p.active = q.active /\ p.firing = q.firing
      /\ p.clearing = q.clearing
    BY <1>0, <1>2 DEF TipLagEntry
<1>4. UpdateState(e, v) = track(p, chain)
    BY DEF UpdateState, q
<1> HIDE DEF p
<1>5. chain.progress \in Progress
    BY DEF Chain, NoAge, Progress
<1> HIDE DEF chain
<1>6. CASE p.progress = chain.progress
    BY <1>2, <1>3, <1>4, <1>6 DEF track
<1>7. CASE p.progress # chain.progress
    <2>1. UpdateState(e, v) = [p EXCEPT !.progress = chain.progress, !.changed = 0]
        BY <1>4, <1>7 DEF track
    <2>2. /\ UpdateState(e, v) \in TipLagEntry /\ UpdateState(e, v).active = p.active
          /\ UpdateState(e, v).firing = p.firing /\ UpdateState(e, v).clearing = p.clearing
        BY <1>0, <1>3, <1>5, <2>1 DEF TipLagEntry
    <2> QED
        BY <1>2, <1>3, <2>2
<1> QED
    BY <1>6, <1>7

(* What one evaluation does to tip_lag: one count grows and the other is      *)
(* reset; the flag turns only on the second evaluation in a row.              *)
LEMMA TipLagFacts ==
    ASSUME setting \in DOMAIN Settings, NEW e \in TipLagEntry, NEW v,
           v["blockchain"] \in Chain \cup {Unseen}
    PROVE  /\ tip_lag(e, v) \in TipLagEntry
           /\ Classification(e, v) \in {"Firing", "NotFiring"}
           /\ ~TipLagReads(v) => tip_lag(e, v) = e
           /\ TipLagReads(v) /\ Classification(e, v) = "Firing" =>
                 /\ tip_lag(e, v).clearing = 0
                 /\ tip_lag(e, v).firing >= 2 => e.firing >= 1
                 /\ e.active => tip_lag(e, v).active
                 /\ tip_lag(e, v).active => e.active \/ e.firing >= 1
           /\ TipLagReads(v) /\ Classification(e, v) = "NotFiring" =>
                 /\ tip_lag(e, v).firing = 0
                 /\ tip_lag(e, v).clearing >= 2 => e.clearing >= 1
                 /\ tip_lag(e, v).active => e.active
                 /\ e.active => tip_lag(e, v).active \/ e.clearing >= 1
<1> DEFINE p == UpdateState(e, v)
           c == Classification(e, v)
           on == p.active \/ Count(p.firing) >= DebounceTicks
           off == p.active /\ Count(p.clearing) < DebounceTicks
<1>1. c \in {"Firing", "NotFiring"}
    BY DEF Classification
<1>2. CASE ~TipLagReads(v)
    <2>1. tip_lag(e, v) = e
        BY <1>2, Zenon DEF tip_lag
    <2> QED
        BY <1>1, <1>2, <2>1
<1>3. CASE TipLagReads(v)
    <2>0. v["blockchain"] \in Chain
        BY <1>3 DEF TipLagReads
    <2>1. /\ p \in TipLagEntry /\ p.active = e.active /\ p.firing \in {e.firing, 0}
          /\ p.clearing \in {e.clearing, 0}
        BY <2>0, UpdateStateFacts
    <2>2. /\ p.firing \in 0..2 /\ p.clearing \in 0..2 /\ p.active \in BOOLEAN
          /\ e.firing \in 0..2 /\ e.clearing \in 0..2 /\ e.active \in BOOLEAN
        BY <2>1 DEF TipLagEntry, DebounceTicks, Ticks
    <2>3. c = "Firing" => tip_lag(e, v) = [p EXCEPT !.clearing = 0, !.firing = Count(@),
                                                    !.active = on]
        BY <1>3, Zenon DEF tip_lag
    <2>4. c = "NotFiring" => tip_lag(e, v) = [p EXCEPT !.firing = 0, !.clearing = Count(@),
                                                       !.active = off]
        BY <1>3, Zenon DEF tip_lag
    <2> HIDE DEF p, c
    <2>5. CASE c = "Firing"
        <3> DEFINE n == Count(p.firing)
        <3>1. /\ n \in Ticks /\ 0 \in Ticks /\ (n >= 2 => p.firing >= 1) /\ on \in BOOLEAN
              /\ on <=> p.active \/ p.firing >= 1
            BY <2>2 DEF Count, DebounceTicks, Ticks
        <3>2. tip_lag(e, v) = [p EXCEPT !.clearing = 0, !.firing = n, !.active = on]
            BY <2>3, <2>5
        <3> HIDE DEF n, on
        <3>3. /\ tip_lag(e, v) \in TipLagEntry /\ tip_lag(e, v).clearing = 0
              /\ tip_lag(e, v).firing = n /\ tip_lag(e, v).active = on
            BY <2>1, <3>1, <3>2 DEF TipLagEntry
        <3>4. e.active => on
            BY <2>1, <3>1
        <3>5. on => e.active \/ e.firing >= 1
            BY <2>1, <2>2, <3>1
        <3>6. n >= 2 => e.firing >= 1
            BY <2>1, <2>2, <3>1
        <3> QED
            BY <1>1, <1>3, <2>5, <3>3, <3>4, <3>5, <3>6 DEF c
    <2>6. CASE c = "NotFiring"
        <3> DEFINE n == Count(p.clearing)
        <3>1. /\ n \in Ticks /\ 0 \in Ticks /\ (n >= 2 => p.clearing >= 1) /\ off \in BOOLEAN
              /\ off <=> p.active /\ ~(p.clearing >= 1)
            BY <2>2 DEF Count, DebounceTicks, Ticks
        <3>2. tip_lag(e, v) = [p EXCEPT !.firing = 0, !.clearing = n, !.active = off]
            BY <2>4, <2>6
        <3> HIDE DEF n, off
        <3>3. /\ tip_lag(e, v) \in TipLagEntry /\ tip_lag(e, v).firing = 0
              /\ tip_lag(e, v).clearing = n /\ tip_lag(e, v).active = off
            BY <2>1, <3>1, <3>2 DEF TipLagEntry
        <3>4. off => e.active
            BY <2>1, <3>1
        <3>5. e.active => off \/ e.clearing >= 1
            BY <2>1, <2>2, <3>1
        <3>6. n >= 2 => e.clearing >= 1
            BY <2>1, <2>2, <3>1
        <3> QED
            BY <1>1, <1>3, <2>6, <3>3, <3>4, <3>5, <3>6 DEF c
    <2> QED
        BY <1>1, <2>5, <2>6 DEF c
<1> QED
    BY <1>2, <1>3

-----------------------------------------------------------------------------
(* TypeOK in three parts, so that a step need only look at those it changes. *)
ReadModelTypes ==
    /\ setting \in DOMAIN Settings
    /\ view \in [State -> Chain \cup Network \cup Peers \cup {Unseen}]
    /\ view["blockchain"] \in Chain \cup {Unseen}
    /\ view["network"] \in Network \cup {Unseen}
    /\ view["peers"] \in Peers \cup {Unseen}
    /\ health \in [Target -> {"Ok", "Critical", Unseen}]
    /\ ahead \in [State -> -Chosen.stepBack..Chosen.stepBack]

RuleTypes ==
    /\ ru \in DebouncedEntry /\ np \in DebouncedEntry /\ tl \in TipLagEntry
    /\ tl.firing = 0 \/ tl.clearing = 0
    /\ npOk \in 0..Debounce
    /\ tlRuns \in [1..2 -> {"none", "Firing", "NotFiring"}]

OtherTypes ==
    /\ drafts \in Seq([kind : Kind, status : {"Active", "Cleared"}]) /\ Len(drafts) <= 3
    /\ open \subseteq Kind
    /\ stepBack \in 0..Chosen.stepBack
    /\ turn \in 0..1 /\ healthy \in BOOLEAN /\ down \in BOOLEAN
    /\ restarted \in BOOLEAN

(* TypeOK in three parts, before and after a step. *)
LEMMA TypeParts ==
    /\ TypeOK <=> ReadModelTypes /\ RuleTypes /\ OtherTypes
    /\ TypeOK' <=> ReadModelTypes' /\ RuleTypes' /\ OtherTypes'
BY DEF TypeOK, ReadModelTypes, RuleTypes, OtherTypes, TipLagEntry, Ticks, Progress, WindowAge,
       IdleAge

(* The constants of a deployment do not change while its setting does not. *)
LEMMA SameSetting ==
    ASSUME setting' = setting
    PROVE  /\ Chosen' = Chosen /\ Debounce' = Debounce /\ FlatWindow' = FlatWindow
           /\ Retention' = Retention
           /\ DebouncedEntry' = DebouncedEntry /\ TipLagEntry' = TipLagEntry
BY DEF Chosen, Debounce, FlatWindow, Retention, DebouncedEntry, TipLagEntry, WindowAge, IdleAge

(* What each rule believes is the activity of its entry. *)
LEMMA BelievesFacts ==
    /\ Believes("rpc_unreachable") = ru.active /\ Believes("no_peers") = np.active
    /\ Believes("tip_lag") = tl.active
    /\ Believes("rpc_unreachable")' = ru'.active /\ Believes("no_peers")' = np'.active
    /\ Believes("tip_lag")' = tl'.active
BY Zenon DEF Believes

(* The states the calls return are of the types the rules expect. *)
LEMMA SampleFacts ==
    ASSUME setting \in DOMAIN Settings, NEW s \in Sample
    PROVE  s["blockchain"] \in Chain /\ s["network"] \in Network /\ s["peers"] \in Peers
<1>1. /\ Chosen.chains \subseteq GetBlockchainInfoResponse
      /\ Chosen.networks \subseteq GetNetworkInfoResponse
      /\ Chosen.peerSets \subseteq PeerInfoEntries
    BY SettingFacts DEF Setting
<1>2. s["blockchain"] \in Chain
    <2>1. PICK r \in Chosen.chains : s["blockchain"] = blockchain_state(r)
        BY DEF Sample
    <2> QED
        BY <1>1, <2>1 DEF GetBlockchainInfoResponse, blockchain_state, Chain
<1>3. s["network"] \in Network
    <2>1. PICK r \in Chosen.networks : s["network"] = network_state(r)
        BY DEF Sample
    <2> QED
        BY <1>1, <2>1 DEF GetNetworkInfoResponse, network_state, Network
<1>4. s["peers"] \in Peers
    <2>1. PICK r \in Chosen.peerSets : s["peers"] = peer_summary_state(r)
        BY DEF Sample
    <2> QED
        BY <1>1, <2>1 DEF PeerInfoEntries, peer_summary_state, Peers
<1> QED
    BY <1>2, <1>3, <1>4

(* The read models take a part of the batch. *)
LEMMA ApplyInv ==
    ASSUME Inv, NEW ok, NEW s, NEW n,
           ok = {} \/ s \in Sample, Apply(ok, s, n), stepBack' = stepBack
    PROVE  /\ ReadModelTypes' /\ AheadInv' /\ setting' = setting
           /\ turn' \in 0..1
<1> DEFINE fresh == Fresh(ok, n)
           SB == Chosen.stepBack
<1>1. ReadModelTypes /\ stepBack \in 0..SB /\ turn \in 0..1
    BY TypeParts DEF Inv, OtherTypes
<1>2. SB \in Nat /\ setting \in DOMAIN Settings
    BY <1>1, SettingFacts DEF ReadModelTypes
<1>3. fresh \subseteq State /\ fresh \subseteq ok
    BY DEF Fresh
<1>4. /\ setting' = setting /\ Chosen' = Chosen
      /\ view' = NewView(fresh, s) /\ turn' = 1 - turn
      /\ ahead' = [t \in State |-> IF t \in fresh THEN 0
                                   ELSE IF ahead[t] > -SB THEN ahead[t] - 1
                                   ELSE ahead[t]]
      /\ health' = [t \in Target |-> IF t \in ok /\ Place(ok, t) + 1 < n THEN "Ok"
                                     ELSE health[t]]
    BY SameSetting DEF Apply
<1> HIDE DEF fresh, SB
<1>6. /\ view' \in [State -> Chain \cup Network \cup Peers \cup {Unseen}]
      /\ view'["blockchain"] \in Chain \cup {Unseen}
      /\ view'["network"] \in Network \cup {Unseen}
      /\ view'["peers"] \in Peers \cup {Unseen}
    <2>0. /\ view \in [State -> Chain \cup Network \cup Peers \cup {Unseen}]
          /\ view["blockchain"] \in Chain \cup {Unseen}
          /\ view["network"] \in Network \cup {Unseen}
          /\ view["peers"] \in Peers \cup {Unseen}
        BY <1>1 DEF ReadModelTypes
    <2>1. fresh # {} => s["blockchain"] \in Chain /\ s["network"] \in Network
                        /\ s["peers"] \in Peers
        BY <1>2, <1>3, SampleFacts
    <2>2. view' = [t \in State |-> IF t \in fresh THEN s[t] ELSE view[t]]
        BY <1>4 DEF NewView
    <2>4. /\ view'["blockchain"] \in Chain \cup {Unseen}
          /\ view'["network"] \in Network \cup {Unseen}
          /\ view'["peers"] \in Peers \cup {Unseen}
        BY <2>0, <2>1, <2>2 DEF State
    <2>5. ASSUME NEW t \in State PROVE view'[t] \in Chain \cup Network \cup Peers \cup {Unseen}
        BY <2>4 DEF State
    <2> QED
        BY <2>2, <2>4, <2>5
<1>7. health' \in [Target -> {"Ok", "Critical", Unseen}]
    BY <1>1, <1>4 DEF ReadModelTypes
<1>8. ahead' \in [State -> -SB..SB] /\ AheadInv'
    <2>1. \A t \in State : ahead[t] \in -SB..SB /\ ahead[t] <= SB - stepBack
        BY <1>1 DEF ReadModelTypes, Inv, AheadInv, SB
    <2>2. \A t \in State : ahead'[t] \in -SB..SB /\ ahead'[t] <= SB - stepBack
        BY <1>1, <1>2, <1>4, <2>1
    <2>3. ahead' \in [State -> -SB..SB]
        BY <1>4, <2>2
    <2> QED
        BY <1>4, <2>2, <2>3 DEF AheadInv, SB
<1> QED
    BY <1>1, <1>2, <1>4, <1>6, <1>7, <1>8 DEF ReadModelTypes, SB

-----------------------------------------------------------------------------
DraftOf == [kind : Kind, status : {"Active", "Cleared"}]

(* A rule drafts when its flag turns, and what it drafts is the new flag. *)
LEMMA DraftFacts ==
    ASSUME NEW k \in Kind, NEW b, NEW a, b.active \in BOOLEAN, a.active \in BOOLEAN,
           NEW d, d = Draft(k, b, a)
    PROVE  /\ d \in Seq(DraftOf) /\ Len(d) \in {0, 1}
           /\ Len(d) = 0 => a.active = b.active
           /\ Len(d) = 1 => /\ a.active # b.active
                            /\ d[1] \in DraftOf
                            /\ d[1].kind = k
                            /\ d[1].status = "Active" <=> a.active
<1>1. CASE a.active = b.active
    BY <1>1 DEF Draft
<1>2. CASE a.active # b.active
    <2> DEFINE x == [kind |-> k, status |-> IF a.active THEN "Active" ELSE "Cleared"]
    <2>1. d = <<x>>
        BY <1>2 DEF Draft
    <2>2. x \in DraftOf /\ x.kind = k /\ (x.status = "Active" <=> a.active)
        BY DEF DraftOf
    <2> HIDE DEF x
    <2>3. d \in Seq(DraftOf) /\ Len(d) = 1 /\ d[1] = x
        BY <2>1, <2>2
    <2> QED
        BY <1>2, <2>2, <2>3
<1> QED
    BY <1>1, <1>2

(* A sequence, and at most one more element. *)
LEMMA ConcatFacts ==
    ASSUME NEW w \in Seq(DraftOf), NEW z \in Seq(DraftOf), Len(z) \in {0, 1}
    PROVE  /\ w \o z \in Seq(DraftOf) /\ Len(w \o z) = Len(w) + Len(z)
           /\ \A i \in 1..Len(w) : (w \o z)[i] = w[i]
           /\ Len(z) = 1 => (w \o z)[Len(w) + 1] = z[1]
<1>1. /\ w \o z \in Seq(DraftOf) /\ Len(w \o z) = Len(w) + Len(z)
      /\ \A i \in 1..Len(w) + Len(z) :
            (w \o z)[i] = IF i <= Len(w) THEN w[i] ELSE z[i - Len(w)]
    BY ConcatProperties
<1>2. Len(w) \in Nat
    OBVIOUS
<1>3. \A i \in 1..Len(w) : i \in 1..Len(w) + Len(z) /\ i <= Len(w)
    BY <1>2
<1>4. Len(z) = 1 => /\ Len(w) + 1 \in 1..Len(w) + Len(z) /\ ~(Len(w) + 1 <= Len(w))
                    /\ (Len(w) + 1) - Len(w) = 1
    BY <1>2
<1> QED
    BY <1>1, <1>3, <1>4

(* Where an element of three lists of at most one, joined, comes from. *)
LEMMA Places ==
    ASSUME NEW a \in {0, 1}, NEW b \in {0, 1}, NEW c \in {0, 1},
           NEW i \in 1..(a + b + c)
    PROVE  (a = 1 /\ i = 1) \/ (b = 1 /\ i = a + 1) \/ (c = 1 /\ i = a + b + 1)
<1>1. i = 1 \/ i = 2 \/ i = 3
    OBVIOUS
<1> QED
    BY <1>1

(* Three sequences of at most one element, one after another. *)
LEMMA DraftsFacts ==
    ASSUME NEW x \in Seq(DraftOf), NEW y \in Seq(DraftOf), NEW z \in Seq(DraftOf),
           Len(x) \in {0, 1}, Len(y) \in {0, 1}, Len(z) \in {0, 1}
    PROVE  /\ x \o y \o z \in Seq(DraftOf) /\ Len(x \o y \o z) = Len(x) + Len(y) + Len(z)
           /\ \A i \in 1..Len(x \o y \o z) :
                 \/ Len(x) = 1 /\ i = 1 /\ (x \o y \o z)[i] = x[1]
                 \/ Len(y) = 1 /\ i = Len(x) + 1 /\ (x \o y \o z)[i] = y[1]
                 \/ Len(z) = 1 /\ i = Len(x) + Len(y) + 1 /\ (x \o y \o z)[i] = z[1]
           /\ Len(x) = 1 => (x \o y \o z)[1] = x[1]
           /\ Len(y) = 1 => (x \o y \o z)[Len(x) + 1] = y[1]
           /\ Len(z) = 1 => (x \o y \o z)[Len(x) + Len(y) + 1] = z[1]
<1> DEFINE w == x \o y
           s == w \o z
<1>1. /\ w \in Seq(DraftOf) /\ Len(w) = Len(x) + Len(y)
      /\ Len(x) = 1 => w[1] = x[1]
      /\ Len(y) = 1 => w[Len(x) + 1] = y[1]
    BY ConcatFacts
<1> HIDE DEF w
<1>2. /\ s \in Seq(DraftOf) /\ Len(s) = Len(w) + Len(z)
      /\ \A i \in 1..Len(w) : s[i] = w[i]
      /\ Len(z) = 1 => s[Len(w) + 1] = z[1]
    BY <1>1, ConcatFacts
<1> HIDE DEF s
<1>3. /\ Len(x) = 1 => s[1] = x[1]
      /\ Len(y) = 1 => s[Len(x) + 1] = y[1]
      /\ Len(z) = 1 => s[Len(x) + Len(y) + 1] = z[1]
    BY <1>1, <1>2
<1>4. ASSUME NEW i \in 1..Len(s)
      PROVE  \/ Len(x) = 1 /\ i = 1
             \/ Len(y) = 1 /\ i = Len(x) + 1
             \/ Len(z) = 1 /\ i = Len(x) + Len(y) + 1
    <2> DEFINE a == Len(x)  b == Len(y)  c == Len(z)
    <2>1. i \in 1..(a + b + c)
        BY <1>1, <1>2
    <2>2. a \in {0, 1} /\ b \in {0, 1} /\ c \in {0, 1}
        OBVIOUS
    <2> HIDE DEF a, b, c
    <2>3. (a = 1 /\ i = 1) \/ (b = 1 /\ i = a + 1) \/ (c = 1 /\ i = a + b + 1)
        BY <2>1, <2>2, Places
    <2> QED
        BY <2>3 DEF a, b, c
<1>5. /\ s \in Seq(DraftOf) /\ Len(s) = Len(x) + Len(y) + Len(z)
      /\ \A i \in 1..Len(s) :
            \/ Len(x) = 1 /\ i = 1 /\ s[i] = x[1]
            \/ Len(y) = 1 /\ i = Len(x) + 1 /\ s[i] = y[1]
            \/ Len(z) = 1 /\ i = Len(x) + Len(y) + 1 /\ s[i] = z[1]
    BY <1>1, <1>2, <1>3, <1>4
<1> QED
    BY <1>3, <1>5, Zenon DEF s, w

(* The drafts of one evaluation of the three rules. *)
LEMMA NewDraftsInv ==
    ASSUME Inv, drafts = <<>>, open' = open, restarted' = restarted,
           ru'.active \in BOOLEAN, np'.active \in BOOLEAN, tl'.active \in BOOLEAN,
           NEW b, NEW c, NEW d,
           b.active = ru.active, c.active = np.active, d.active = tl.active,
           drafts' = Draft("rpc_unreachable", b, ru') \o Draft("no_peers", c, np')
                        \o Draft("tip_lag", d, tl')
    PROVE  /\ DraftInv' /\ drafts' \in Seq(DraftOf) /\ Len(drafts') <= 3
           /\ \A i \in 1..Len(drafts') :
                 /\ drafts'[i].kind = "no_peers" =>
                       /\ np'.active # np.active
                       /\ drafts'[i].status = "Active" <=> np'.active
                 /\ drafts'[i].kind = "tip_lag" =>
                       /\ tl'.active # tl.active
                       /\ drafts'[i].status = "Active" <=> tl'.active
<1> DEFINE x == Draft("rpc_unreachable", b, ru')
           y == Draft("no_peers", c, np')
           z == Draft("tip_lag", d, tl')
<1>0. ru.active \in BOOLEAN /\ np.active \in BOOLEAN /\ tl.active \in BOOLEAN
    BY TypeParts DEF Inv, RuleTypes, DebouncedEntry, TipLagEntry
<1>1. /\ x \in Seq(DraftOf) /\ Len(x) \in {0, 1}
      /\ Len(x) = 0 => ru'.active = ru.active
      /\ Len(x) = 1 => /\ ru'.active # ru.active /\ x[1].kind = "rpc_unreachable"
                       /\ x[1].status = "Active" <=> ru'.active
    BY <1>0, DraftFacts DEF Kind
<1>2. /\ y \in Seq(DraftOf) /\ Len(y) \in {0, 1}
      /\ Len(y) = 0 => np'.active = np.active
      /\ Len(y) = 1 => /\ np'.active # np.active /\ y[1].kind = "no_peers"
                       /\ y[1].status = "Active" <=> np'.active
    BY <1>0, DraftFacts DEF Kind
<1>3. /\ z \in Seq(DraftOf) /\ Len(z) \in {0, 1}
      /\ Len(z) = 0 => tl'.active = tl.active
      /\ Len(z) = 1 => /\ tl'.active # tl.active /\ z[1].kind = "tip_lag"
                       /\ z[1].status = "Active" <=> tl'.active
    BY <1>0, DraftFacts DEF Kind
<1>4. drafts' = x \o y \o z
    OBVIOUS
<1> HIDE DEF x, y, z
<1>5. /\ drafts' \in Seq(DraftOf) /\ Len(drafts') = Len(x) + Len(y) + Len(z)
      /\ \A i \in 1..Len(drafts') :
            \/ Len(x) = 1 /\ i = 1 /\ drafts'[i] = x[1]
            \/ Len(y) = 1 /\ i = Len(x) + 1 /\ drafts'[i] = y[1]
            \/ Len(z) = 1 /\ i = Len(x) + Len(y) + 1 /\ drafts'[i] = z[1]
      /\ Len(x) = 1 => drafts'[1] = x[1]
      /\ Len(y) = 1 => drafts'[Len(x) + 1] = y[1]
      /\ Len(z) = 1 => drafts'[Len(x) + Len(y) + 1] = z[1]
    <2>1. /\ x \in Seq(DraftOf) /\ Len(x) \in {0, 1} /\ y \in Seq(DraftOf) /\ Len(y) \in {0, 1}
          /\ z \in Seq(DraftOf) /\ Len(z) \in {0, 1}
        BY <1>1, <1>2, <1>3
    <2> DEFINE s == x \o y \o z
    <2>2. /\ s \in Seq(DraftOf) /\ Len(s) = Len(x) + Len(y) + Len(z)
          /\ \A i \in 1..Len(s) :
                \/ Len(x) = 1 /\ i = 1 /\ s[i] = x[1]
                \/ Len(y) = 1 /\ i = Len(x) + 1 /\ s[i] = y[1]
                \/ Len(z) = 1 /\ i = Len(x) + Len(y) + 1 /\ s[i] = z[1]
        BY <2>1, DraftsFacts
    <2>3. /\ Len(x) = 1 => s[1] = x[1]
          /\ Len(y) = 1 => s[Len(x) + 1] = y[1]
          /\ Len(z) = 1 => s[Len(x) + Len(y) + 1] = z[1]
        BY <2>1, DraftsFacts
    <2>4. drafts' = s
        BY <1>4
    <2> HIDE DEF s
    <2> QED
        BY <2>2, <2>3, <2>4
<1>6. ASSUME NEW i \in 1..Len(drafts'), NEW j \in 1..Len(drafts'),
             drafts'[i].kind = drafts'[j].kind
      PROVE  i = j
    BY <1>1, <1>2, <1>3, <1>5, <1>6
<1>7. ASSUME NEW i \in 1..Len(drafts')
      PROVE  /\ drafts'[i].kind = "rpc_unreachable" =>
                   ru'.active # ru.active /\ (drafts'[i].status = "Active" <=> ru'.active)
             /\ drafts'[i].kind = "no_peers" =>
                   np'.active # np.active /\ (drafts'[i].status = "Active" <=> np'.active)
             /\ drafts'[i].kind = "tip_lag" =>
                   tl'.active # tl.active /\ (drafts'[i].status = "Active" <=> tl'.active)
             /\ drafts'[i].kind \in Kind
    BY <1>1, <1>2, <1>3, <1>5 DEF Kind
<1>8. ASSUME NEW k \in Kind, NEW i \in 1..Len(drafts'), drafts'[i].kind = k
      PROVE  drafts'[i].status = "Active" <=> Believes(k)'
    <2>1. CASE k = "rpc_unreachable"
        BY <1>7, <1>8, <2>1, BelievesFacts
    <2>2. CASE k = "no_peers"
        BY <1>7, <1>8, <2>2, BelievesFacts
    <2>3. CASE k = "tip_lag"
        BY <1>7, <1>8, <2>3, BelievesFacts
    <2> QED
        BY <2>1, <2>2, <2>3 DEF Kind
<1>9. ASSUME NEW k \in Kind, \A i \in 1..Len(drafts') : drafts'[i].kind # k
      PROVE  Believes(k)' = Believes(k)
    <2>1. /\ Len(x) = 1 => 1 \in 1..Len(drafts')
          /\ Len(y) = 1 => Len(x) + 1 \in 1..Len(drafts')
          /\ Len(z) = 1 => Len(x) + Len(y) + 1 \in 1..Len(drafts')
        BY <1>1, <1>2, <1>3, <1>5
    <2>2. CASE k = "rpc_unreachable"
        BY <1>1, <1>5, <1>9, <2>1, <2>2, BelievesFacts
    <2>3. CASE k = "no_peers"
        BY <1>2, <1>5, <1>9, <2>1, <2>3, BelievesFacts
    <2>4. CASE k = "tip_lag"
        BY <1>3, <1>5, <1>9, <2>1, <2>4, BelievesFacts
    <2> QED
        BY <2>2, <2>3, <2>4 DEF Kind
<1>10. \A k \in Kind : /\ Believes(k) => k \in open
                       /\ k \in open => Believes(k) \/ restarted
    <2>1. \A i \in 1..Len(drafts) : FALSE
        OBVIOUS
    <2> QED
        BY <2>1 DEF Inv, DraftInv
<1>11. DraftInv'
    BY <1>6, <1>8, <1>9, <1>10 DEF DraftInv
<1>12. Len(drafts') <= 3
    BY <1>1, <1>2, <1>3, <1>5
<1> QED
    BY <1>5, <1>7, <1>11, <1>12

-----------------------------------------------------------------------------
(* The read models and the rules after a boot. *)
LEMMA ColdStartTypes ==
    ASSUME setting \in DOMAIN Settings
    PROVE  /\ IdleEntry \in DebouncedEntry /\ IdleEntry.active = FALSE /\ IdleEntry.first = NoAge
           /\ IdleTipLag \in TipLagEntry /\ IdleTipLag.active = FALSE
           /\ IdleTipLag.firing = 0 /\ IdleTipLag.clearing = 0
           /\ [x \in State |-> 0] \in [State -> -Chosen.stepBack..Chosen.stepBack]
<1> USE SettingFacts
<1>1. /\ 0 \in Ticks /\ NoAge \in Progress /\ NoAge \in WindowAge /\ NoAge \in IdleAge
      /\ NoAge \in NoAge..Debounce /\ NoAge \in NoAge..Retention
    BY DEF NoAge, DebounceTicks, Ticks, Progress, WindowAge, IdleAge
<1>2. /\ IdleEntry \in DebouncedEntry /\ IdleEntry.active = FALSE /\ IdleEntry.first = NoAge
    BY <1>1 DEF IdleEntry, DebouncedEntry
<1>3. /\ IdleTipLag \in TipLagEntry /\ IdleTipLag.active = FALSE
      /\ IdleTipLag.firing = 0 /\ IdleTipLag.clearing = 0
    BY <1>1 DEF IdleTipLag, TipLagEntry
<1> QED
    BY <1>2, <1>3

(* The invariant holds at the start. *)
LEMMA InitInv == Init => Inv
<1> SUFFICES ASSUME Init PROVE Inv
    OBVIOUS
<1>1. /\ setting \in DOMAIN Settings
      /\ view = [x \in State |-> Unseen] /\ health = [x \in Target |-> Unseen]
      /\ ahead = [x \in State |-> 0]
      /\ ru = IdleEntry /\ np = IdleEntry /\ tl = IdleTipLag
      /\ drafts = <<>> /\ open = {} /\ stepBack = Chosen.stepBack
      /\ turn = 0 /\ healthy = FALSE /\ down = FALSE /\ restarted = FALSE
      /\ npOk = 0 /\ tlRuns = <<"none", "none">>
    BY DEF Init, ColdStart
<1> USE SettingFacts, ColdStartTypes
<1>2. ReadModelTypes
    BY <1>1 DEF ReadModelTypes, State
<1>3. RuleTypes
    <2>1. npOk \in 0..Debounce /\ tlRuns \in [1..2 -> {"none", "Firing", "NotFiring"}]
        BY <1>1
    <2> QED
        BY <1>1, <2>1 DEF RuleTypes
<1>4. OtherTypes
    <2>1. drafts \in Seq([kind : Kind, status : {"Active", "Cleared"}]) /\ Len(drafts) <= 3
        BY <1>1
    <2>2. stepBack \in 0..Chosen.stepBack /\ turn \in 0..1
        BY <1>1
    <2> QED
        BY <1>1, <2>1, <2>2 DEF OtherTypes
<1>5. AheadInv /\ NoPeersInv /\ TipLagInv
    BY <1>1 DEF AheadInv, NoPeersInv, TipLagInv, NoAge
<1>6. DraftInv
    <2>1. \A k \in Kind : Believes(k) = FALSE
        BY <1>1, BelievesFacts DEF Kind
    <2> QED
        BY <1>1, <2>1 DEF DraftInv
<1> QED
    BY <1>2, <1>3, <1>4, <1>5, <1>6, TypeParts DEF Inv

(* A batch that is not evaluated ages the rules and changes nothing else of them. *)
LEMMA NoEvaluationInv ==
    ASSUME Inv, NEW g \in Nat, NoEvaluation(g), setting' = setting, turn' \in 0..1,
           down' \in BOOLEAN, ReadModelTypes', AheadInv'
    PROVE  Inv'
<1>1. /\ setting \in DOMAIN Settings
      /\ ru \in DebouncedEntry /\ np \in DebouncedEntry /\ tl \in TipLagEntry
      /\ tl.firing = 0 \/ tl.clearing = 0
      /\ npOk \in 0..Debounce
      /\ tlRuns \in [1..2 -> {"none", "Firing", "NotFiring"}]
    BY TypeParts DEF Inv, ReadModelTypes, RuleTypes
<1> USE SettingFacts, SameSetting
<1>2. /\ ru' = Aged(ru, g) /\ np' = Aged(np, g) /\ tl' = AgedTipLag(tl, g)
      /\ npOk' = Older(npOk, g, Debounce)
      /\ healthy' = FALSE
      /\ UNCHANGED <<drafts, open, stepBack, restarted, tlRuns>>
    BY DEF NoEvaluation
<1>3. /\ ru' \in DebouncedEntry /\ np' \in DebouncedEntry /\ tl' \in TipLagEntry
      /\ ru'.active = ru.active /\ np'.active = np.active /\ tl'.active = tl.active
      /\ tl'.firing = tl.firing /\ tl'.clearing = tl.clearing
      /\ np'.first = Older(np.first, g, Debounce)
    BY <1>1, <1>2, AgedFacts, AgedTipLagFacts
<1>4. npOk' \in 0..Debounce /\ NoPeersInv'
    <2>1. np.first \in NoAge..Debounce /\ npOk \in NoAge..Debounce /\ np.first <= npOk /\ npOk >= 0
        BY <1>1 DEF DebouncedEntry, Inv, NoPeersInv, NoAge
    <2>2. /\ Older(npOk, g, Debounce) \in NoAge..Debounce /\ Older(npOk, g, Debounce) >= 0
          /\ Older(np.first, g, Debounce) <= Older(npOk, g, Debounce)
        BY <1>1, <2>1, OlderFacts
    <2> QED
        BY <1>1, <1>2, <1>3, <2>2 DEF NoPeersInv, NoAge
<1>5. RuleTypes'
    BY <1>1, <1>2, <1>3, <1>4 DEF RuleTypes
<1>6. OtherTypes'
    BY <1>2, TypeParts DEF Inv, OtherTypes
<1>7. TipLagInv'
    BY <1>2, <1>3 DEF Inv, TipLagInv
<1>8. DraftInv'
    <2>1. \A k \in Kind : Believes(k)' = Believes(k)
        BY <1>3, BelievesFacts DEF Kind
    <2> QED
        BY <1>2, <2>1 DEF Inv, DraftInv
<1> QED
    BY <1>4, <1>5, <1>6, <1>7, <1>8, TypeParts DEF Inv

(* What a poll takes from the setting. *)
LEMMA PollFacts ==
    ASSUME Inv, NEW ok, NEW g \in Chosen.gaps
    PROVE  g \in Nat /\ \A s \in Samples(ok) : s \in Sample
<1>1. setting \in DOMAIN Settings
    BY DEF Inv, TypeOK
<1> QED
    BY <1>1, SettingFacts DEF Samples

(* A poll that nothing answered. *)
LEMMA EmptyBatchInv ==
    ASSUME Inv, NEW ok, NEW g \in Chosen.gaps,
           EmptyBatch(ok, g)
    PROVE  Inv'
<1>1. /\ ok = {} /\ Apply(ok, SomeSample, 0) /\ NoEvaluation(g) /\ down' \in BOOLEAN
      /\ stepBack' = stepBack
    BY DEF EmptyBatch, NoEvaluation
<1>2. /\ ReadModelTypes' /\ AheadInv' /\ setting' = setting
      /\ turn' \in 0..1
    BY <1>1, ApplyInv
<1> QED
    BY <1>1, <1>2, PollFacts, NoEvaluationInv

(* A batch of which only the first n observations were stored. *)
LEMMA AppendFailsInv ==
    ASSUME Inv, NEW ok, NEW g \in Chosen.gaps,
           NEW s \in Samples(ok), NEW n, AppendFails(ok, s, n, g)
    PROVE  Inv'
<1>1. /\ Apply(ok, s, n) /\ NoEvaluation(g) /\ down' \in BOOLEAN /\ stepBack' = stepBack
    BY DEF AppendFails, NoEvaluation
<1>2. /\ ReadModelTypes' /\ AheadInv' /\ setting' = setting
      /\ turn' \in 0..1
    BY <1>1, PollFacts, ApplyInv
<1> QED
    BY <1>1, <1>2, PollFacts, NoEvaluationInv

(* no_peers: the condition of the last Debounce intervals decides. *)
LEMMA NoPeersStep ==
    ASSUME Inv, NEW g \in Nat, NEW c \in {"Firing", "NotFiring", "Unknown"},
           np' = debounced(Aged(np, g), c),
           npOk' = IF c = "NotFiring" THEN 0 ELSE Older(npOk, g, Debounce)
    PROVE  /\ np' \in DebouncedEntry /\ npOk' \in 0..Debounce
           /\ np'.first <= npOk'
           /\ ~np.active /\ np'.active => npOk' >= Debounce
<1> DEFINE e == Aged(np, g)
           old == Older(npOk, g, Debounce)
<1>1. /\ setting \in DOMAIN Settings /\ np \in DebouncedEntry /\ npOk \in 0..Debounce
      /\ np.first <= npOk
    BY TypeParts DEF Inv, ReadModelTypes, RuleTypes, NoPeersInv
<1> USE SettingFacts
<1>2. /\ e \in DebouncedEntry /\ e.active = np.active
      /\ e.first = Older(np.first, g, Debounce)
    BY <1>1, AgedFacts
<1>3. /\ old \in 0..Debounce /\ e.first <= old
    <2>1. np.first \in NoAge..Debounce /\ npOk \in NoAge..Debounce /\ npOk >= 0
        BY <1>1 DEF DebouncedEntry, NoAge
    <2>2. /\ Older(npOk, g, Debounce) \in NoAge..Debounce /\ Older(npOk, g, Debounce) >= 0
          /\ Older(np.first, g, Debounce) <= Older(npOk, g, Debounce)
        BY <1>1, <2>1, OlderFacts
    <2> QED
        BY <1>1, <1>2, <2>2 DEF NoAge
<1>4. /\ np' \in DebouncedEntry
      /\ c = "NotFiring" => np'.first = NoAge
      /\ c # "Firing" => np'.first \in {e.first, NoAge}
      /\ c = "Firing" => np'.first \in {e.first, 0}
      /\ ~e.active /\ np'.active => c = "Firing" /\ e.first >= Debounce
    BY <1>1, <1>2, DebouncedFacts
<1>5. e.first \in Int /\ e.first >= NoAge
    BY <1>1, <1>2 DEF DebouncedEntry, NoAge
<1>6. npOk' = IF c = "NotFiring" THEN 0 ELSE old
    OBVIOUS
<1> HIDE DEF e, old
<1>7. CASE c = "NotFiring"
    BY <1>1, <1>2, <1>4, <1>6, <1>7 DEF NoAge
<1>8. CASE c # "NotFiring"
    BY <1>1, <1>2, <1>3, <1>4, <1>5, <1>6, <1>8 DEF NoAge
<1> QED
    BY <1>7, <1>8

(* tip_lag: the last two evaluations decide. *)
LEMMA TipLagStep ==
    ASSUME Inv, NEW g \in Nat, NEW v, v["blockchain"] \in Chain \cup {Unseen},
           tl' = tip_lag(AgedTipLag(tl, g), v),
           tlRuns' = IF TipLagReads(v)
                     THEN <<tlRuns[2], Classification(AgedTipLag(tl, g), v)>> ELSE tlRuns
    PROVE  /\ tl' \in TipLagEntry /\ TipLagInv'
           /\ tl'.firing = 0 \/ tl'.clearing = 0
           /\ tlRuns' \in [1..2 -> {"none", "Firing", "NotFiring"}]
           /\ ~tl.active /\ tl'.active => tlRuns' = <<"Firing", "Firing">>
           /\ tl.active /\ ~tl'.active => tlRuns' = <<"NotFiring", "NotFiring">>
<1> DEFINE e == AgedTipLag(tl, g)
           c == Classification(e, v)
<1>1. /\ setting \in DOMAIN Settings /\ tl \in TipLagEntry
      /\ tl.firing = 0 \/ tl.clearing = 0
      /\ tlRuns \in [1..2 -> {"none", "Firing", "NotFiring"}]
      /\ TipLagInv
    BY TypeParts DEF Inv, ReadModelTypes, RuleTypes
<1>2. /\ e \in TipLagEntry /\ e.active = tl.active
      /\ e.firing = tl.firing /\ e.clearing = tl.clearing
    BY <1>1, AgedTipLagFacts
<1>3. /\ tl' \in TipLagEntry
      /\ c \in {"Firing", "NotFiring"}
      /\ ~TipLagReads(v) => tl' = e
      /\ TipLagReads(v) /\ c = "Firing" =>
            /\ tl'.clearing = 0
            /\ tl'.firing >= 2 => e.firing >= 1
            /\ e.active => tl'.active
            /\ tl'.active => e.active \/ e.firing >= 1
      /\ TipLagReads(v) /\ c = "NotFiring" =>
            /\ tl'.firing = 0
            /\ tl'.clearing >= 2 => e.clearing >= 1
            /\ tl'.active => e.active
            /\ e.active => tl'.active \/ e.clearing >= 1
    BY <1>1, <1>2, TipLagFacts
<1>4. tlRuns' = IF TipLagReads(v) THEN <<tlRuns[2], c>> ELSE tlRuns
    OBVIOUS
<1> HIDE DEF e, c
<1>5. CASE ~TipLagReads(v)
    BY <1>1, <1>2, <1>3, <1>4, <1>5 DEF TipLagInv
<1>6. CASE TipLagReads(v)
    <2>1. tlRuns' = <<tlRuns[2], c>> /\ tlRuns'[1] = tlRuns[2] /\ tlRuns'[2] = c
        BY <1>4, <1>6
    <2>2. tlRuns[2] \in {"none", "Firing", "NotFiring"}
        BY <1>1
    <2>3. tlRuns' \in [1..2 -> {"none", "Firing", "NotFiring"}]
        BY <1>3, <2>1, <2>2
    <2>4. /\ tl.firing >= 1 => tlRuns[2] = "Firing"
          /\ tl.clearing >= 1 => tlRuns[2] = "NotFiring"
        BY <1>1 DEF TipLagInv
    <2>5. CASE c = "Firing"
        BY <1>2, <1>3, <1>6, <2>1, <2>3, <2>4, <2>5 DEF TipLagInv
    <2>6. CASE c = "NotFiring"
        BY <1>2, <1>3, <1>6, <2>1, <2>3, <2>4, <2>6 DEF TipLagInv
    <2> QED
        BY <1>3, <2>5, <2>6
<1> QED
    BY <1>5, <1>6

(* What the three rules promise about their drafts in a step. *)
Promises ==
    /\ Drafted("no_peers", "Active") => npOk' >= Debounce
    /\ Drafted("tip_lag", "Active") => tlRuns' = <<"Firing", "Firing">>
    /\ Drafted("tip_lag", "Cleared") => tlRuns' = <<"NotFiring", "NotFiring">>

(* A whole batch: the read models first, then the rules, then their drafts. *)
LEMMA ProcessBatchInv ==
    ASSUME Inv, NEW ok, NEW g \in Chosen.gaps,
           NEW s \in Samples(ok), ProcessBatch(ok, s, g)
    PROVE  Inv' /\ Promises
<1> DEFINE v == view'
           age == AgedTipLag(tl, g)
           b == prune_stale(Aged(ru, g), IdleEntry)
           c == prune_stale(Aged(np, g), IdleEntry)
           d == IF TipLagReads(v) THEN prune_stale(age, IdleTipLag) ELSE age
<1>1. /\ drafts = <<>> /\ Apply(ok, s, 2 * Cardinality(ok)) /\ stepBack' = stepBack
      /\ healthy' \in BOOLEAN /\ down' \in BOOLEAN /\ open' = open /\ restarted' = restarted
    BY DEF ProcessBatch
<1>2. /\ ru' = debounced(Aged(ru, g), IF all_four_critical(health') THEN "Firing" ELSE "NotFiring")
      /\ np' = debounced(Aged(np, g), classify(v))
      /\ tl' = tip_lag(age, v)
      /\ npOk' = IF classify(v) = "NotFiring" THEN 0 ELSE Older(npOk, g, Debounce)
      /\ tlRuns' = IF TipLagReads(v) THEN <<tlRuns[2], Classification(age, v)>> ELSE tlRuns
    BY DEF ProcessBatch, rpc_unreachable, no_peers
<1>3. drafts' = Draft("rpc_unreachable", b, ru') \o Draft("no_peers", c, np')
                   \o Draft("tip_lag", d, tl')
    BY DEF ProcessBatch
<1>4. g \in Nat /\ s \in Sample
    BY PollFacts
<1>5. /\ ReadModelTypes' /\ AheadInv' /\ setting' = setting
      /\ turn' \in 0..1
    BY <1>1, <1>4, ApplyInv
<1>6. /\ setting \in DOMAIN Settings
      /\ ru \in DebouncedEntry /\ np \in DebouncedEntry /\ tl \in TipLagEntry
    BY TypeParts DEF Inv, ReadModelTypes, RuleTypes
<1>7. ru' \in DebouncedEntry
    <2> DEFINE f == IF all_four_critical(health') THEN "Firing" ELSE "NotFiring"
    <2>1. f \in {"Firing", "NotFiring", "Unknown"} /\ Aged(ru, g) \in DebouncedEntry
          /\ ru' = debounced(Aged(ru, g), f)
        BY <1>2, <1>4, <1>6, AgedFacts
    <2> HIDE DEF f
    <2> QED
        BY <1>6, <2>1, DebouncedFacts
<1>8. /\ np' \in DebouncedEntry /\ npOk' \in 0..Debounce /\ np'.first <= npOk'
      /\ ~np.active /\ np'.active => npOk' >= Debounce
    <2>1. classify(v) \in {"Firing", "NotFiring", "Unknown"}
        BY DEF classify
    <2> QED
        BY <1>2, <1>4, <2>1, NoPeersStep
<1>9. /\ tl' \in TipLagEntry /\ TipLagInv'
      /\ tl'.firing = 0 \/ tl'.clearing = 0
      /\ tlRuns' \in [1..2 -> {"none", "Firing", "NotFiring"}]
      /\ ~tl.active /\ tl'.active => tlRuns' = <<"Firing", "Firing">>
      /\ tl.active /\ ~tl'.active => tlRuns' = <<"NotFiring", "NotFiring">>
    <2>1. v["blockchain"] \in Chain \cup {Unseen}
        BY <1>5 DEF ReadModelTypes
    <2> QED
        BY <1>2, <1>4, <2>1, TipLagStep
<1>10. b.active = ru.active /\ c.active = np.active
    <2>1. /\ Aged(ru, g) \in DebouncedEntry /\ Aged(ru, g).active = ru.active
          /\ Aged(np, g) \in DebouncedEntry /\ Aged(np, g).active = np.active
        BY <1>4, <1>6, AgedFacts
    <2> QED
        BY <1>6, <2>1, PruneFacts
<1>11. d.active = tl.active
    <2>1. age \in TipLagEntry /\ age.active = tl.active
        BY <1>4, <1>6, AgedTipLagFacts
    <2>2. age.active \in BOOLEAN /\ IdleTipLag.active = FALSE
        BY <1>6, <2>1, ColdStartTypes DEF TipLagEntry
    <2> HIDE DEF age
    <2>3. prune_stale(age, IdleTipLag).active = age.active
        <3>1. CASE prune_stale(age, IdleTipLag) = age
            BY <3>1
        <3>2. CASE prune_stale(age, IdleTipLag) = IdleTipLag /\ ~age.active
            BY <2>2, <3>2
        <3> QED
            BY <3>1, <3>2 DEF prune_stale
    <2> QED
        BY <2>1, <2>3
<1>12. ru'.active \in BOOLEAN /\ np'.active \in BOOLEAN /\ tl'.active \in BOOLEAN
    BY <1>7, <1>8, <1>9 DEF DebouncedEntry, TipLagEntry
<1> HIDE DEF b, c, d, v, age
<1>13. /\ DraftInv' /\ drafts' \in Seq(DraftOf) /\ Len(drafts') <= 3
       /\ \A i \in 1..Len(drafts') :
             /\ drafts'[i].kind = "no_peers" =>
                   /\ np'.active # np.active
                   /\ drafts'[i].status = "Active" <=> np'.active
             /\ drafts'[i].kind = "tip_lag" =>
                   /\ tl'.active # tl.active
                   /\ drafts'[i].status = "Active" <=> tl'.active
    BY <1>1, <1>3, <1>10, <1>11, <1>12, NewDraftsInv
<1>14. Inv'
    <2>1. RuleTypes'
        BY <1>5, <1>7, <1>8, <1>9, SameSetting DEF RuleTypes
    <2>2. OtherTypes'
        <3>1. open \subseteq Kind /\ restarted \in BOOLEAN /\ stepBack \in 0..Chosen.stepBack
            BY TypeParts DEF Inv, OtherTypes
        <3> QED
            BY <1>1, <1>5, <1>13, <3>1, SameSetting DEF OtherTypes, DraftOf
    <2> QED
        BY <1>5, <1>8, <1>9, <1>13, <2>1, <2>2, TypeParts DEF Inv, NoPeersInv
<1>15. Promises
    <2>1. ASSUME Drafted("no_peers", "Active") PROVE npOk' >= Debounce
        <3>1. PICK i \in 1..Len(drafts') : drafts'[i] = [kind |-> "no_peers", status |-> "Active"]
            BY <2>1 DEF Drafted
        <3>2. drafts'[i].kind = "no_peers" /\ drafts'[i].status = "Active"
            BY <3>1
        <3> QED
            BY <1>8, <1>13, <3>2
    <2>2. ASSUME Drafted("tip_lag", "Active") PROVE tlRuns' = <<"Firing", "Firing">>
        <3>1. PICK i \in 1..Len(drafts') : drafts'[i] = [kind |-> "tip_lag", status |-> "Active"]
            BY <2>2 DEF Drafted
        <3>2. drafts'[i].kind = "tip_lag" /\ drafts'[i].status = "Active"
            BY <3>1
        <3> QED
            BY <1>9, <1>13, <3>2
    <2>3. ASSUME Drafted("tip_lag", "Cleared") PROVE tlRuns' = <<"NotFiring", "NotFiring">>
        <3>1. PICK i \in 1..Len(drafts') : drafts'[i] = [kind |-> "tip_lag", status |-> "Cleared"]
            BY <2>3 DEF Drafted
        <3>2. drafts'[i].kind = "tip_lag" /\ drafts'[i].status = "Cleared"
            BY <3>1
        <3>3. tl.active \in BOOLEAN
            BY <1>6 DEF TipLagEntry
        <3> QED
            BY <1>9, <1>12, <1>13, <3>2, <3>3
    <2> QED
        BY <2>1, <2>2, <2>3 DEF Promises
<1> QED
    BY <1>14, <1>15

(* The engine takes the oldest draft, after which it agrees with the rule. *)
LEMMA HandleDraftInv ==
    ASSUME Inv, HandleDraft
    PROVE  Inv'
<1> DEFINE h == Head(drafts)
<1>1. /\ drafts # <<>> /\ drafts' = Tail(drafts)
      /\ open' = IF h.status = "Active" THEN open \cup {h.kind} ELSE open \ {h.kind}
      /\ UNCHANGED <<setting, view, health, ahead, ru, np, tl, stepBack, turn, healthy, down,
                     restarted, npOk, tlRuns>>
    BY DEF HandleDraft, readModels, rules, watched
<1>2. /\ drafts \in Seq(DraftOf) /\ Len(drafts) <= 3
    BY TypeParts DEF Inv, OtherTypes, DraftOf
<1>3. /\ 1 \in 1..Len(drafts) /\ h = drafts[1] /\ h \in DraftOf
      /\ drafts' \in Seq(DraftOf) /\ Len(drafts') = Len(drafts) - 1
      /\ Len(drafts) \in Nat
      /\ \A i \in 1..Len(drafts') : i + 1 \in 1..Len(drafts) /\ drafts'[i] = drafts[i + 1]
    BY <1>1, <1>2
<1>4. h.kind \in Kind /\ h.status \in {"Active", "Cleared"}
    BY <1>3 DEF DraftOf
<1> HIDE DEF h
<1>5. ReadModelTypes' /\ RuleTypes'
    BY <1>1, SameSetting, TypeParts DEF Inv, ReadModelTypes, RuleTypes
<1>6. OtherTypes'
    <2>1. Len(drafts') <= 3
        BY <1>2, <1>3
    <2>2. open' \subseteq Kind
        BY <1>1, <1>4, TypeParts DEF Inv, OtherTypes
    <2> QED
        BY <1>1, <1>3, <2>1, <2>2, SameSetting, TypeParts DEF Inv, OtherTypes, DraftOf
<1>7. AheadInv' /\ NoPeersInv' /\ TipLagInv'
    BY <1>1, SameSetting DEF Inv, AheadInv, NoPeersInv, TipLagInv
<1>8. DraftInv'
    <2>1. \A k \in Kind : Believes(k)' = Believes(k)
        BY <1>1, BelievesFacts DEF Kind
    <2>2. \A i, j \in 1..Len(drafts) : drafts[i].kind = drafts[j].kind => i = j
        BY DEF Inv, DraftInv
    <2>3. ASSUME NEW i \in 1..Len(drafts'), NEW j \in 1..Len(drafts'),
                 drafts'[i].kind = drafts'[j].kind
          PROVE  i = j
        <3>1. i + 1 \in 1..Len(drafts) /\ drafts'[i] = drafts[i + 1]
            BY <1>3
        <3>2. j + 1 \in 1..Len(drafts) /\ drafts'[j] = drafts[j + 1]
            BY <1>3
        <3>3. i + 1 = j + 1
            BY <2>2, <2>3, <3>1, <3>2
        <3> QED
            BY <3>3
    <2>4. ASSUME NEW k \in Kind, NEW i \in 1..Len(drafts'), drafts'[i].kind = k
          PROVE  drafts'[i].status = "Active" <=> Believes(k)'
        BY <1>3, <2>1, <2>4 DEF Inv, DraftInv
    <2>5. ASSUME NEW k \in Kind, \A i \in 1..Len(drafts') : drafts'[i].kind # k
          PROVE  /\ Believes(k)' => k \in open'
                 /\ k \in open' => Believes(k)' \/ restarted'
        <3>1. CASE k = h.kind
            <4>1. h.status = "Active" <=> Believes(k)
                BY <1>3, <3>1 DEF Inv, DraftInv
            <4> QED
                BY <1>1, <2>1, <3>1, <4>1
        <3>2. CASE k # h.kind
            <4>1. \A i \in 1..Len(drafts) : i = 1 \/ (i - 1 \in 1..Len(drafts') /\ (i - 1) + 1 = i)
                BY <1>3
            <4>2. ASSUME NEW i \in 1..Len(drafts) PROVE drafts[i].kind # k
                <5>1. CASE i = 1
                    BY <1>3, <3>2, <5>1
                <5>2. CASE i - 1 \in 1..Len(drafts') /\ (i - 1) + 1 = i
                    <6>1. drafts'[i - 1] = drafts[i]
                        BY <1>3, <5>2
                    <6> QED
                        BY <2>5, <5>2, <6>1
                <5> QED
                    BY <4>1, <5>1, <5>2
            <4>3. /\ Believes(k) => k \in open
                  /\ k \in open => Believes(k) \/ restarted
                BY <4>2 DEF Inv, DraftInv
            <4> QED
                BY <1>1, <2>1, <3>2, <4>3
        <3> QED
            BY <3>1, <3>2
    <2> QED
        BY <2>3, <2>4, <2>5 DEF DraftInv
<1> QED
    BY <1>5, <1>6, <1>7, <1>8, TypeParts DEF Inv

(* The states in view get further ahead, by one step of the clock. *)
LEMMA StepBackInv ==
    ASSUME Inv, StepBack
    PROVE  Inv'
<1>1. /\ stepBack > 0 /\ stepBack' = stepBack - 1
      /\ ahead' = [t \in State |-> IF view[t] = Unseen THEN ahead[t] ELSE ahead[t] + 1]
      /\ UNCHANGED <<setting, view, health, ru, np, tl, drafts, open, turn, healthy, down,
                     restarted, npOk, tlRuns>>
    BY DEF StepBack, rules, watched
<1> DEFINE SB == Chosen.stepBack
<1>2. ReadModelTypes /\ setting \in DOMAIN Settings /\ SB \in Nat /\ stepBack \in 0..SB
    BY TypeParts, SettingFacts DEF Inv, ReadModelTypes, OtherTypes
<1>3. SB' = SB
    BY <1>1, SameSetting
<1>4. /\ \A t \in State : ahead'[t] \in -SB..SB /\ ahead'[t] <= SB - stepBack'
      /\ ahead' \in [State -> -SB..SB]
    <2>1. \A t \in State : ahead[t] \in -SB..SB /\ ahead[t] <= SB - stepBack
        BY <1>2 DEF ReadModelTypes, Inv, AheadInv
    <2> HIDE DEF SB
    <2>2. \A t \in State : ahead'[t] \in -SB..SB /\ ahead'[t] <= SB - stepBack'
        BY <1>1, <1>2, <2>1
    <2> QED
        BY <1>1, <2>2
<1>5. ReadModelTypes' /\ AheadInv'
    BY <1>1, <1>2, <1>3, <1>4 DEF ReadModelTypes, AheadInv
<1>6. RuleTypes'
    BY <1>1, SameSetting, TypeParts DEF Inv, RuleTypes
<1>7. OtherTypes'
    <2>1. stepBack' \in 0..SB
        BY <1>1, <1>2
    <2> QED
        BY <1>1, <1>3, <2>1, TypeParts DEF Inv, OtherTypes
<1>8. NoPeersInv' /\ TipLagInv'
    BY <1>1 DEF Inv, NoPeersInv, TipLagInv
<1>9. DraftInv'
    <2>1. \A k \in Kind : Believes(k)' = Believes(k)
        BY <1>1, BelievesFacts DEF Kind
    <2> QED
        BY <1>1, <2>1 DEF Inv, DraftInv
<1> QED
    BY <1>5, <1>6, <1>7, <1>8, <1>9, TypeParts DEF Inv

(* A restart forgets rules and drafts together. *)
LEMMA RestartInv ==
    ASSUME Inv, Restart
    PROVE  Inv'
<1>1. /\ view' = [x \in State |-> Unseen] /\ health' = [x \in Target |-> Unseen]
      /\ ahead' = [x \in State |-> 0]
      /\ ru' = IdleEntry /\ np' = IdleEntry /\ tl' = IdleTipLag
      /\ drafts' = <<>> /\ open' = open /\ stepBack' = stepBack /\ setting' = setting
      /\ turn' = turn /\ healthy' = FALSE /\ down' = FALSE /\ restarted' = TRUE
      /\ npOk' = 0 /\ tlRuns' = <<"none", "none">>
    BY DEF Restart, ColdStart
<1>2. setting \in DOMAIN Settings
    BY DEF Inv, TypeOK
<1> USE SettingFacts, ColdStartTypes, SameSetting
<1>3. ReadModelTypes'
    BY <1>1, <1>2 DEF ReadModelTypes, State
<1>4. RuleTypes'
    <2>1. npOk' \in 0..Debounce /\ tlRuns' \in [1..2 -> {"none", "Firing", "NotFiring"}]
        BY <1>1, <1>2
    <2> QED
        BY <1>1, <1>2, <2>1 DEF RuleTypes
<1>5. OtherTypes'
    <2>1. drafts' \in Seq([kind : Kind, status : {"Active", "Cleared"}]) /\ Len(drafts') <= 3
        BY <1>1
    <2> QED
        BY <1>1, <2>1, TypeParts DEF Inv, OtherTypes
<1>6. AheadInv'
    <2>1. stepBack \in 0..Chosen.stepBack
        BY TypeParts DEF Inv, OtherTypes
    <2> QED
        BY <1>1, <1>2, <2>1 DEF AheadInv
<1>7. NoPeersInv' /\ TipLagInv'
    BY <1>1, <1>2 DEF NoPeersInv, TipLagInv, NoAge
<1>8. DraftInv'
    <2>1. \A k \in Kind : Believes(k)' = FALSE
        BY <1>1, <1>2, BelievesFacts DEF Kind
    <2> QED
        BY <1>1, <2>1 DEF DraftInv
<1> QED
    BY <1>3, <1>4, <1>5, <1>6, <1>7, <1>8, TypeParts DEF Inv

(* A step of something else. *)
LEMMA StutterInv ==
    ASSUME Inv, UNCHANGED vars
    PROVE  Inv'
<1>1. UNCHANGED <<setting, view, health, ahead, ru, np, tl, drafts, open, stepBack, turn,
                  healthy, down, restarted, npOk, tlRuns>>
    BY DEF vars, readModels, rules, watched
<1>2. ReadModelTypes' /\ RuleTypes' /\ OtherTypes'
    BY <1>1, SameSetting, TypeParts DEF Inv, ReadModelTypes, RuleTypes, OtherTypes
<1>3. AheadInv' /\ NoPeersInv' /\ TipLagInv'
    BY <1>1, SameSetting DEF Inv, AheadInv, NoPeersInv, TipLagInv
<1>4. DraftInv'
    <2>1. \A k \in Kind : Believes(k)' = Believes(k)
        BY <1>1, BelievesFacts DEF Kind
    <2> QED
        BY <1>1, <2>1 DEF Inv, DraftInv
<1> QED
    BY <1>2, <1>3, <1>4, TypeParts DEF Inv

(* Every step preserves the invariant, and keeps what the rules promise. *)
LEMMA NextInv == Inv /\ [Next]_vars => Inv' /\ [Promises]_vars
<1> SUFFICES ASSUME Inv, [Next]_vars PROVE Inv' /\ [Promises]_vars
    OBVIOUS
<1>1. CASE Poll
    <2>1. PICK rep \in Chosen.replies, g \in Chosen.gaps : \E ok \in {Answered(rep)} :
              \/ EmptyBatch(ok, g)
              \/ \E s \in Samples(ok) :
                    \/ \E n \in Chosen.failAt : AppendFails(ok, s, n, g)
                    \/ ProcessBatch(ok, s, g)
        BY <1>1 DEF Poll
    <2>2. PICK ok \in {Answered(rep)} :
              \/ EmptyBatch(ok, g)
              \/ \E s \in Samples(ok) :
                    \/ \E n \in Chosen.failAt : AppendFails(ok, s, n, g)
                    \/ ProcessBatch(ok, s, g)
        BY <2>1
    <2>4. ASSUME drafts' = drafts PROVE Promises
        <3>1. drafts = <<>> => \A i \in 1..Len(drafts') : FALSE
            BY <2>4
        <3> QED
            BY <3>1 DEF Promises, Drafted
    <2>5. CASE EmptyBatch(ok, g)
        BY <2>4, <2>5, EmptyBatchInv DEF EmptyBatch, NoEvaluation
    <2>6. CASE \E s \in Samples(ok), n \in Chosen.failAt : AppendFails(ok, s, n, g)
        BY <2>4, <2>6, AppendFailsInv DEF AppendFails, NoEvaluation
    <2>7. CASE \E s \in Samples(ok) : ProcessBatch(ok, s, g)
        BY <2>7, ProcessBatchInv
    <2> QED
        BY <2>2, <2>5, <2>6, <2>7
<1>2. CASE HandleDraft
    <2>1. Promises
        BY <1>2 DEF Promises, Drafted, HandleDraft
    <2> QED
        BY <1>2, <2>1, HandleDraftInv
<1>3. CASE StepBack \/ Restart
    <2>1. drafts' = <<>> \/ drafts' = drafts
        BY <1>3 DEF StepBack, Restart
    <2>2. Promises
        <3>1. drafts = <<>> => \A i \in 1..Len(drafts') : FALSE
            BY <2>1
        <3> QED
            BY <3>1 DEF Promises, Drafted
    <2> QED
        BY <1>3, <2>2, StepBackInv, RestartInv
<1>4. CASE UNCHANGED vars
    BY <1>4, StutterInv
<1> QED
    BY <1>1, <1>2, <1>3, <1>4 DEF Next

(* The invariant holds in every reachable state. *)
LEMMA Invariance == Spec => []Inv /\ [][Promises]_vars
    BY InitInv, NextInv, PTL DEF Spec

-----------------------------------------------------------------------------
(* The types of all variables, the bounds on ages and on the drafts of one    *)
(* evaluation, and that the counters of tip_lag are never both positive.      *)
THEOREM TypeCorrect == Spec => []TypeOK
<1>1. Inv => TypeOK
    BY DEF Inv
<1> QED
    BY <1>1, Invariance, PTL

(* With no draft under way, an active rule has its incident open, and an open *)
(* incident has its rule active unless a restart made the rule forget.        *)
THEOREM RulesAndEngineAgree == Spec => []RuleAndEngineAgree
<1>1. Inv => RuleAndEngineAgree
    <2> SUFFICES ASSUME Inv, drafts = <<>>
                 PROVE  \A k \in Kind : /\ Believes(k) => k \in open
                                        /\ k \in open => Believes(k) \/ restarted
        BY DEF RuleAndEngineAgree
    <2>1. \A i \in 1..Len(drafts) : FALSE
        OBVIOUS
    <2> QED
        BY <2>1 DEF Inv, DraftInv
<1> QED
    BY <1>1, Invariance, PTL

(* bitcoin.no_peers waits out its debounce, whatever gaps, failures, pruning  *)
(* and clock steps come between.                                              *)
THEOREM NoPeersWaits == Spec => NoPeersDebounced
<1>1. [Promises]_vars => [Drafted("no_peers", "Active") => npOk' >= Debounce]_vars
    BY DEF Promises
<1> QED
    BY <1>1, Invariance, PTL DEF NoPeersDebounced

(* bitcoin.tip_lag_or_ibd_stalled turns only on two like evaluations in a row. *)
THEOREM TipLagWaits == Spec => TipLagHysteresis
<1>1. [Promises]_vars =>
        [/\ Drafted("tip_lag", "Active")  => tlRuns' = <<"Firing", "Firing">>
         /\ Drafted("tip_lag", "Cleared") => tlRuns' = <<"NotFiring", "NotFiring">>]_vars
    BY DEF Promises
<1> QED
    BY <1>1, Invariance, PTL DEF TipLagHysteresis
=============================================================================
