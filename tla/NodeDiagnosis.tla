--------------------------- MODULE NodeDiagnosis ---------------------------
(***************************************************************************)
(* How one Bitcoin node's condition becomes incident signals: a poll of    *)
(* the RPC collector (src/collectors/bitcoin_core/rpc.rs), process_batch   *)
(* of the consumer (src/runtime/consumer.rs), the latest-value projections *)
(* (src/read_models/projections) and the three diagnostic rules            *)
(* (src/diagnostics/rules/bitcoin).  The drafts of the rules then reach    *)
(* the engine, reduced here to "is an incident of this kind open?"         *)
(* (module IncidentEngine has the rest).                                   *)
(*                                                                         *)
(* Time is counted in poll intervals and kept as ages, capped where the    *)
(* code stops telling them apart, so that behaviours may go on for ever.   *)
(* The monotonic clock drives the debounces; observations carry wall-clock *)
(* times, which may step back.                                             *)
(***************************************************************************)
EXTENDS Integers, Sequences, FiniteSets, BitcoinRpc

CONSTANTS
    Unseen,      \* no observation yet
    Settings     \* what a behaviour may be about: a Setting for each name

Target  == {"blockchain", "mempool", "network", "peers"}

(* The states of the observations, as far as a rule reads them. *)
Chain   == [blocks : Nat, headers : Nat, progress : 0..2, ibd : BOOLEAN]
Network == [out : Nat \cup {Absent}, active : Flag]
Peers   == [peer_count : Nat, outbound_count : Nat]

(* What occurs in a behaviour, chosen at its start and kept.                *)
(*   chains, networks, peerSets: results of the calls                       *)
(*   replies: what comes back from the four calls of a poll                 *)
(*   failAt: places in a batch at which an append may fail                  *)
(*   debounce, flatWindow, retention: 60 s of the first two rules, 5 min of *)
(*     A2 and the 1 h after which an idle entry is pruned, in poll intervals*)
(*   gaps: poll intervals that may pass between two batches; 0 when the     *)
(*     second one waited in the channel behind the first                    *)
(*   stepBack: bound, how far the wall clock may step back in all           *)
(*   restarts: whether the process restarts                                 *)
Setting == [chains : SUBSET GetBlockchainInfoResponse,
            networks : SUBSET GetNetworkInfoResponse, peerSets : SUBSET PeerInfoEntries,
            replies : SUBSET [Target -> Reply], failAt : SUBSET Nat,
            debounce : Nat \ {0}, flatWindow : Nat \ {0}, retention : Nat,
            gaps : SUBSET Nat, stepBack : Nat, restarts : BOOLEAN]

ASSUME DiagnosisAssumption ==
    /\ \A x \in DOMAIN Settings : /\ Settings[x] \in Setting
                                  /\ Settings[x].retention > Settings[x].debounce
    /\ Unseen \notin Chain \cup Network \cup Peers \cup {"Ok", "Critical"}

State  == {"blockchain", "network", "peers"}   \* no rule reads the mempool state
Kind   == {"rpc_unreachable", "no_peers", "tip_lag"}

VARIABLES
    setting,   \* a name
    (* read models: the latest state per name, the latest health per target *)
    view, health,
    ahead,     \* observed_at of each latest state minus that of the last poll
    (* SubjectState of the three rules *)
    ru, np, tl,
    drafts,    \* drafts on their way to the engine
    open,      \* durable: the kinds with an open incident
    stepBack,  \* what is left of Chosen.stepBack
    (* history, read by no action *)
    turn,      \* flips with every poll, so that no poll is a stuttering step
    healthy,   \* the last poll found, and the store took, a healthy node
    down,      \* the last poll got no answer at all
    restarted, \* the process restarted at some point
    npOk,      \* age of the last evaluation that saw outbound peers, or of the boot
    tlRuns     \* classifications of the last two tip_lag evaluations

readModels == <<view, health, ahead>>
rules      == <<ru, np, tl>>
watched    == <<npOk, tlRuns>>
vars       == <<setting, readModels, rules, drafts, open, stepBack, turn, healthy, down, restarted, watched>>

Chosen == Settings[setting]

(* What the calls may return, as the states of observations. *)
Sample == [blockchain : {blockchain_state(r) : r \in Chosen.chains},
           network    : {network_state(r) : r \in Chosen.networks},
           peers      : {peer_summary_state(r) : r \in Chosen.peerSets}]

Debounce   == Chosen.debounce
FlatWindow == Chosen.flatWindow
Retention  == Chosen.retention

NoAge == -1

(* The age a, g poll intervals later, counted up to cap. *)
Older(a, g, cap) == IF a = NoAge THEN a ELSE IF a + g > cap THEN cap ELSE a + g

(* SubjectState::default of the debounced rules and of tip_lag *)
IdleEntry  == [first |-> NoAge, active |-> FALSE, touched |-> NoAge]
IdleTipLag == [firing |-> 0, clearing |-> 0, active |-> FALSE,
               progress |-> NoAge, changed |-> NoAge, touched |-> NoAge]

(* An entry g poll intervals later: Instants become ages. *)
Aged(e, g) ==
    [e EXCEPT !.first = Older(@, g, Debounce), !.touched = Older(@, g, Retention)]

AgedTipLag(e, g) ==
    [e EXCEPT !.changed = Older(@, g, FlatWindow), !.touched = Older(@, g, Retention)]

-----------------------------------------------------------------------------
(* The rules.  Slip: the pruning forgets an entry with an open incident. *)
PruneActiveToo(e, idle) == IF e.touched >= Retention THEN idle ELSE e

(* prune_stale, for the entry of the subject at hand *)
prune_stale(e, idle) == IF ~e.active /\ e.touched >= Retention THEN idle ELSE e

(* BitcoinRpcUnreachableRule: a target without a health value is not Critical *)
all_four_critical(h) == \A t \in Target : h[t] = "Critical"

(* BitcoinNoPeersRule: classify *)
classify(v) ==
    IF v["network"] = Unseen \/ v["peers"] = Unseen THEN "Unknown"
    ELSE IF v["network"].active = "absent" THEN "Unknown"
    ELSE IF v["network"].active = "false" THEN "NotFiring"
    ELSE LET outbound == IF v["network"].out # Absent THEN v["network"].out
                         ELSE v["peers"].outbound_count
         IN  IF outbound = 0 THEN "Firing" ELSE "NotFiring"

(* Slip: a clearing evaluation does not restart the debounce. *)
DebouncedKeepsFirst(e0, condition) ==
    LET e     == [prune_stale(e0, IdleEntry) EXCEPT !.touched = 0]
        first == IF e.first = NoAge THEN 0 ELSE e.first
    IN  CASE condition = "Firing"    -> [e EXCEPT !.first = first,
                                                  !.active = @ \/ first >= Debounce]
          [] condition = "NotFiring" -> [e EXCEPT !.active = FALSE]
          [] OTHER                   -> e

(* What evaluate of the two debounced rules does with its condition. *)
debounced(e0, condition) ==
    LET e     == [prune_stale(e0, IdleEntry) EXCEPT !.touched = 0]
        first == IF e.first = NoAge THEN 0 ELSE e.first
    IN  CASE condition = "Firing"    -> [e EXCEPT !.first = first,
                                                  !.active = @ \/ first >= Debounce]
          [] condition = "NotFiring" -> [e EXCEPT !.first = NoAge, !.active = FALSE]
          [] OTHER                   -> e

rpc_unreachable(e, h) == debounced(e, IF all_four_critical(h) THEN "Firing" ELSE "NotFiring")

no_peers(e, v) == debounced(e, classify(v))

(* BitcoinTipLagOrIbdStalledRule: progress 2 stands for more than 0.999 *)
A1_MAX_HEADER_BLOCK_GAP == 1000
A2_MIN_HEADER_BLOCK_GAP == A1_MAX_HEADER_BLOCK_GAP
A1_MIN_PEER_COUNT       == 8

(* saturating_sub: a node whose blocks are ahead of its headers has no gap. *)
Gap(chain) == IF chain.headers > chain.blocks THEN chain.headers - chain.blocks ELSE 0

a1_holds(chain, peers) ==
    /\ chain.ibd
    /\ Gap(chain) < A1_MAX_HEADER_BLOCK_GAP
    /\ chain.progress = 2
    /\ peers.peer_count >= A1_MIN_PEER_COUNT

a2_holds(chain, changed) ==
    Gap(chain) >= A2_MIN_HEADER_BLOCK_GAP /\ changed >= FlatWindow

(* The flat-window tracker: a changed progress restarts it. *)
track(e, chain) ==
    IF e.progress = chain.progress THEN e
    ELSE [e EXCEPT !.progress = chain.progress, !.changed = 0]

(* update_state_and_classify: the entry, and what it is classified as *)
UpdateState(e0, v) ==
    track([prune_stale(e0, IdleTipLag) EXCEPT !.touched = 0], v["blockchain"])

Classification(e0, v) ==
    IF \/ a1_holds(v["blockchain"], v["peers"])
       \/ a2_holds(v["blockchain"], UpdateState(e0, v).changed)
    THEN "Firing" ELSE "NotFiring"

(* evaluate returns early without both inputs *)
TipLagReads(v) == v["blockchain"] # Unseen /\ v["peers"] # Unseen

DebounceTicks == 2

(* A count of evaluations, kept up to DebounceTicks. *)
Count(n) == IF n < DebounceTicks THEN n + 1 ELSE n

(* Slip: a clearing evaluation does not restart the count of firing ones. *)
TipLagKeepsCount(e0, v) ==
    LET e == UpdateState(e0, v)
    IN  CASE ~TipLagReads(v) -> e0
          [] TipLagReads(v) /\ Classification(e0, v) = "Firing" ->
                [e EXCEPT !.clearing = 0, !.firing = Count(@),
                          !.active = @ \/ Count(e.firing) >= DebounceTicks]
          [] TipLagReads(v) /\ Classification(e0, v) = "NotFiring" ->
                [e EXCEPT !.clearing = Count(@),
                          !.active = @ /\ Count(e.clearing) < DebounceTicks]

(* Slip: a single clearing evaluation closes the incident. *)
TipLagClearsAtOnce(e0, v) ==
    LET e == UpdateState(e0, v)
    IN  CASE ~TipLagReads(v) -> e0
          [] TipLagReads(v) /\ Classification(e0, v) = "Firing" ->
                [e EXCEPT !.clearing = 0, !.firing = Count(@),
                          !.active = @ \/ Count(e.firing) >= DebounceTicks]
          [] TipLagReads(v) /\ Classification(e0, v) = "NotFiring" ->
                [e EXCEPT !.firing = 0, !.clearing = Count(@), !.active = FALSE]

tip_lag(e0, v) ==
    LET e == UpdateState(e0, v)
    IN  CASE ~TipLagReads(v) -> e0
          [] TipLagReads(v) /\ Classification(e0, v) = "Firing" ->
                [e EXCEPT !.clearing = 0, !.firing = Count(@),
                          !.active = @ \/ Count(e.firing) >= DebounceTicks]
          [] TipLagReads(v) /\ Classification(e0, v) = "NotFiring" ->
                [e EXCEPT !.firing = 0, !.clearing = Count(@),
                          !.active = @ /\ Count(e.clearing) < DebounceTicks]

(* A rule drafts a signal when the flag of the entry it works on turns; the  *)
(* pruning that comes before drafts nothing.                                 *)
Draft(kind, before, after) ==
    IF before.active = after.active THEN <<>>
    ELSE <<[kind |-> kind, status |-> IF after.active THEN "Active" ELSE "Cleared"]>>

-----------------------------------------------------------------------------
(* The boot: read models and rules start empty, whatever is stored. *)
ColdStart(v, h, a, r, n, t) ==
    /\ v = [x \in State |-> Unseen]
    /\ h = [x \in Target |-> Unseen]
    /\ a = [x \in State |-> 0]
    /\ r = IdleEntry /\ n = IdleEntry /\ t = IdleTipLag

Init ==
    /\ setting \in DOMAIN Settings
    /\ ColdStart(view, health, ahead, ru, np, tl)
    /\ drafts = <<>> /\ open = {} /\ stepBack = Chosen.stepBack
    /\ turn = 0 /\ healthy = FALSE /\ down = FALSE /\ restarted = FALSE
    /\ npOk = 0 /\ tlRuns = <<"none", "none">>

(***************************************************************************)
(* poll calls the four RPCs at once.  Each call that answers adds a state  *)
(* and an Ok health observation to the batch, in the order of Rank; if any *)
(* fails, the batch is ProbeResult::Failed with those as its partial       *)
(* observations.  Its one Critical health value is dropped again by        *)
(* observations_from_batch, so that only Ok ever reaches the projections.  *)
(***************************************************************************)
Rank(t) == CASE t = "blockchain" -> 1 [] t = "mempool" -> 2
             [] t = "network" -> 3    [] t = "peers" -> 4

(* The place of t's state observation in the batch; its health comes next. *)
Place(ok, t) == 2 * Cardinality({u \in ok : Rank(u) < Rank(t)})

(* Projection::apply ignores an observation that is not newer than the one   *)
(* it holds.  One poll interval separates the polls on the wall clock.       *)
Newer(t) == view[t] = Unseen \/ ahead[t] <= 0

(* The states of sample s that projections take, of the first n observations *)
Fresh(ok, n) == {t \in ok \cap State : Place(ok, t) < n /\ Newer(t)}

NewView(fresh, s) == [t \in State |-> IF t \in fresh THEN s[t] ELSE view[t]]

(* The calls of a poll that yield a result. *)
Answered(rep) == {t \in Target : call(rep[t]) = "Ok"}

(* What the calls in ok may answer; what the others would have is fixed. *)
SomeSample == CHOOSE s \in Sample : TRUE

Samples(ok) == {s \in Sample : \A t \in State \ ok : s[t] = SomeSample[t]}

(* append, then apply, of the first n observations of the batch *)
Apply(ok, s, n) ==
    LET fresh == Fresh(ok, n)
    IN  /\ UNCHANGED setting
        /\ view' = NewView(fresh, s)
        /\ turn' = 1 - turn
        /\ ahead' = [t \in State |-> IF t \in fresh THEN 0
                                     ELSE IF ahead[t] > -Chosen.stepBack THEN ahead[t] - 1
                                     ELSE ahead[t]]
        /\ health' = [t \in Target |-> IF t \in ok /\ Place(ok, t) + 1 < n THEN "Ok"
                                       ELSE health[t]]

(* No evaluation: the rules' Instants grow older and nothing else. *)
NoEvaluation(g) ==
    /\ ru' = Aged(ru, g) /\ np' = Aged(np, g) /\ tl' = AgedTipLag(tl, g)
    /\ npOk' = Older(npOk, g, Debounce)
    /\ healthy' = FALSE
    /\ UNCHANGED <<drafts, open, stepBack, restarted, tlRuns>>

(* No call answers: the batch has no observation, hence no subject. *)
EmptyBatch(ok, g) ==
    /\ drafts = <<>>
    /\ ok = {}
    /\ Apply(ok, SomeSample, 0)
    /\ NoEvaluation(g)
    /\ down' = TRUE

(* The append after the first n observations fails: the rest is skipped. *)
AppendFails(ok, s, n, g) ==
    /\ drafts = <<>>
    /\ n < 2 * Cardinality(ok)
    /\ Apply(ok, s, n)
    /\ NoEvaluation(g)
    /\ down' = FALSE

HealthySample(s) ==
    /\ ~s.blockchain.ibd /\ Gap(s.blockchain) < A2_MIN_HEADER_BLOCK_GAP
    /\ s.network.active = "true" /\ s.network.out > 0

(* The whole batch is stored and applied, and the rules run in order. *)
ProcessBatch(ok, s, g) ==
    LET all  == 2 * Cardinality(ok)
        v    == view'
        age  == AgedTipLag(tl, g)
    IN  /\ drafts = <<>>
        /\ ok # {}
        /\ Apply(ok, s, all)
        /\ ru' = rpc_unreachable(Aged(ru, g), health')
        /\ np' = no_peers(Aged(np, g), v)
        /\ tl' = tip_lag(age, v)
        /\ drafts' = Draft("rpc_unreachable", prune_stale(Aged(ru, g), IdleEntry), ru')
                        \o Draft("no_peers", prune_stale(Aged(np, g), IdleEntry), np')
                        \o Draft("tip_lag", IF TipLagReads(v) THEN prune_stale(age, IdleTipLag)
                                            ELSE age, tl')
        /\ healthy' = (ok = Target /\ HealthySample(s))
        /\ down' = FALSE
        /\ npOk' = IF classify(v) = "NotFiring" THEN 0 ELSE Older(npOk, g, Debounce)
        /\ tlRuns' = IF TipLagReads(v) THEN <<tlRuns[2], Classification(age, v)>> ELSE tlRuns
        /\ UNCHANGED <<open, stepBack, restarted>>

(* The engine takes the next draft; module IncidentEngine has the detail. *)
HandleDraft ==
    /\ drafts # <<>>
    /\ open' = IF Head(drafts).status = "Active" THEN open \cup {Head(drafts).kind}
               ELSE open \ {Head(drafts).kind}
    /\ drafts' = Tail(drafts)
    /\ UNCHANGED <<setting, readModels, rules, stepBack, turn, healthy, down, restarted, watched>>

(* The wall clock steps back by one poll interval. *)
StepBack ==
    /\ stepBack > 0
    /\ stepBack' = stepBack - 1
    /\ ahead' = [t \in State |-> IF view[t] = Unseen THEN ahead[t] ELSE ahead[t] + 1]
    /\ UNCHANGED <<setting, view, health, rules, drafts, open, turn, healthy, down,
                   restarted, watched>>

(* The process stops and boots again; incidents are durable, drafts are not. *)
Restart ==
    /\ Chosen.restarts
    /\ ColdStart(view', health', ahead', ru', np', tl')
    /\ drafts' = <<>>
    /\ healthy' = FALSE /\ down' = FALSE /\ restarted' = TRUE
    /\ npOk' = 0 /\ tlRuns' = <<"none", "none">>
    /\ UNCHANGED <<setting, open, stepBack, turn>>

Poll ==
    \E rep \in Chosen.replies, g \in Chosen.gaps : \E ok \in {Answered(rep)} :
        \/ EmptyBatch(ok, g)
        \/ \E s \in Samples(ok) :
              \/ \E n \in Chosen.failAt : AppendFails(ok, s, n, g)
              \/ ProcessBatch(ok, s, g)

Next == Poll \/ HandleDraft \/ StepBack \/ Restart

Spec == Init /\ [][Next]_vars

(* The supervisor polls for ever and the consumer never stops (module        *)
(* Runtime).  A poll is the step that flips turn: said of the flip, the      *)
(* fairness is that of Poll, since drafts are handled in the end, and TLC    *)
(* need not try every poll on every step.                                    *)
FairSpec == Spec /\ WF_turn(turn' = 1 - turn) /\ WF_vars(HandleDraft)

-----------------------------------------------------------------------------
DebouncedEntry == [first : NoAge..Debounce, active : BOOLEAN, touched : NoAge..Retention]

(* The state has its shape; the two hysteresis counters of the tip_lag rule  *)
(* are never both positive, since each evaluation resets one of them.        *)
TypeOK ==
    /\ setting \in DOMAIN Settings
    /\ view \in [State -> Chain \cup Network \cup Peers \cup {Unseen}]
    /\ view["blockchain"] \in Chain \cup {Unseen}
    /\ view["network"] \in Network \cup {Unseen}
    /\ view["peers"] \in Peers \cup {Unseen}
    /\ health \in [Target -> {"Ok", "Critical", Unseen}]
    /\ ahead \in [State -> -Chosen.stepBack..Chosen.stepBack]
    /\ ru \in DebouncedEntry /\ np \in DebouncedEntry
    /\ tl \in [firing : 0..DebounceTicks, clearing : 0..DebounceTicks, active : BOOLEAN,
               progress : NoAge..2, changed : NoAge..FlatWindow, touched : NoAge..Retention]
    /\ tl.firing = 0 \/ tl.clearing = 0
    /\ drafts \in Seq([kind : Kind, status : {"Active", "Cleared"}]) /\ Len(drafts) <= 3
    /\ open \subseteq Kind
    /\ stepBack \in 0..Chosen.stepBack
    /\ turn \in 0..1 /\ healthy \in BOOLEAN /\ down \in BOOLEAN
    /\ restarted \in BOOLEAN
    /\ npOk \in 0..Debounce
    /\ tlRuns \in [1..2 -> {"none", "Firing", "NotFiring"}]

(* What a rule believes (active_emitted) and what the engine has open agree  *)
(* whenever no draft is under way: an active rule has its incident open,     *)
(* and until a restart forgets the rules' state an open incident has its     *)
(* rule active, so that the rule can still clear it.  The pruning of idle    *)
(* entries and the loss of drafts must not break this.                       *)
Believes(k) == CASE k = "rpc_unreachable" -> ru.active
                 [] k = "no_peers"        -> np.active
                 [] k = "tip_lag"         -> tl.active

RuleAndEngineAgree ==
    drafts = <<>> =>
        \A k \in Kind : /\ Believes(k) => k \in open
                        /\ k \in open => Believes(k) \/ restarted

Drafted(kind, status) ==
    drafts = <<>> /\ \E i \in 1..Len(drafts') : drafts'[i] = [kind |-> kind, status |-> status]

(* bitcoin.no_peers is only raised when no evaluation of the last Debounce   *)
(* intervals, on the monotonic clock, saw outbound peers: gaps between       *)
(* batches, partial polls and pruned entries never shorten the debounce.     *)
NoPeersDebounced == [][Drafted("no_peers", "Active") => npOk' >= Debounce]_vars

(* bitcoin.tip_lag_or_ibd_stalled is raised only after two firing            *)
(* evaluations in a row and cleared only after two that did not fire.        *)
TipLagHysteresis ==
    [][/\ Drafted("tip_lag", "Active")  => tlRuns' = <<"Firing", "Firing">>
       /\ Drafted("tip_lag", "Cleared") => tlRuns' = <<"NotFiring", "NotFiring">>]_vars

(* Once every poll finds a healthy node every incident is resolved, though   *)
(* the wall clock may have stepped back and made the projections ignore      *)
(* the first of those polls.  A restart forgets the rules' state, see        *)
(* IncidentsEnd.                                                             *)
RecoveryResolves == <>[]healthy => <>[](open = {} \/ restarted)

(* The same for every behaviour: "Clears when the outbound peer count        *)
(* returns to non-zero", "Clears when neither pattern holds across two       *)
(* consecutive polls" (docs/src/operator/incident-catalog.md).               *)
IncidentsEnd == <>[]healthy => <>[](open = {})

(* A node that no longer answers is reported: "Fires when all four Bitcoin   *)
(* RPC health-check targets report HealthStatus::Critical for >= 60 seconds" *)
(* (docs/OPERATOR_GUIDE.md).                                                 *)
OutageIsReported == <>[]down => <>("rpc_unreachable" \in open)
=============================================================================
