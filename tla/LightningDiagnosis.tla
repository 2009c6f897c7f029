------------------------- MODULE LightningDiagnosis -------------------------
(***************************************************************************)
(* How the condition of an LND node and of one of its channels becomes     *)
(* incidents: a poll of the gRPC collector (src/collectors/lnd), the       *)
(* consumer's process_batch, and the two rules lnd.chain_backend_lag and   *)
(* lnd.channel_inactive (src/diagnostics/rules/lnd).  The first compares   *)
(* two nodes' heights as two collectors last reported them; the second     *)
(* follows each channel for itself.                                        *)
(*                                                                         *)
(* Time is counted in poll intervals and kept as ages, capped where no     *)
(* rule tells them apart, so that behaviours may go on for ever.  In every *)
(* interval each collector polls once, successfully or not.  The rules     *)
(* are complete but not in main.rs's list yet; the model has them called   *)
(* the way process_batch calls the others.                                 *)
(***************************************************************************)
EXTENDS Integers, Sequences, FiniteSets

CONSTANTS
    Nothing,      \* None
    Deployments,  \* what a behaviour may be about, see Deployment
    LagBlocks,    \* DEFAULT_LAG_BLOCKS_THRESHOLD
    LagPersist,   \* DEFAULT_LAG_PERSIST, in poll intervals
    MaxStateAge,  \* DEFAULT_MAX_STATE_AGE
    PublicDebounce, PrivateDebounce,
    Retention,    \* STATE_RETENTION
    ActiveTTL,    \* ACTIVE_EMITTED_TTL
    Heights       \* bound: block heights

(* feed "poll": the collector's batches; feed "channel": batches that begin *)
(* with the channel's observation, as the rule's own tests make them and a  *)
(* stream collector would.                                                  *)
Deployment == [bitcoind : BOOLEAN, channel : {"none", "public", "private"},
               feed : {"poll", "channel"}]

(* An hour of retention, a day of it for an open incident and 90 s of       *)
(* freshness are all longer than a poll interval of 10 to 30 s.             *)
ASSUME LightningAssumption ==
    /\ Deployments \subseteq Deployment
    /\ \A n \in {LagBlocks, LagPersist, MaxStateAge, PublicDebounce, PrivateDebounce,
                 Retention, ActiveTTL} : n \in Nat
    /\ MaxStateAge > 0 /\ Retention > 1 /\ ActiveTTL >= Retention
    /\ Heights \subseteq Nat

Rule == {"lag", "inactive"}

(* Ages stop where nothing tells them apart any more. *)
LongestDebounce ==
    CHOOSE n \in {LagPersist, PublicDebounce, PrivateDebounce} :
        \A m \in {LagPersist, PublicDebounce, PrivateDebounce} : m =< n

ViewCap   == MaxStateAge + 1
FirstCap  == LongestDebounce
SteadyCap == LongestDebounce + 3

(* What the read models and a rule keep. *)
View   == [height : Heights, age : 0..ViewCap]
Detail == [active : BOOLEAN, online : BOOLEAN \cup {Nothing}]
Entry  == [first : 0..FirstCap \cup {Nothing}, emitted : BOOLEAN, touched : 0..ActiveTTL]

ASSUME NothingAssumption ==
    Nothing \notin Nat \cup {"Warning", "Critical"} \cup View \cup Detail \cup Entry

Older(age, cap) == IF age < cap THEN age + 1 ELSE cap

VARIABLES
    deployed,
    tip, synced,       \* the height of bitcoind, and of LND
    channel, online,   \* the channel, and whether its peer is connected
    lnd, btc, detail,  \* read models: latest LndNode, BitcoinBlockchain and LndChannel state
    entry,             \* SubjectState of each rule
    open,              \* durable: the severity of the open incident, if there is one
    polled,            \* which collectors polled in this interval
    calm,              \* history: age of the last evaluation that found all well
    behind,            \* history: LND has been behind at some moment
    steady,            \* history: intervals since anything changed or failed
    orphan             \* history: a restart or a long silence made the rule forget

world   == <<tip, synced, channel, online>>
views   == <<lnd, btc, detail>>
history == <<calm, behind, steady, orphan>>
vars    == <<deployed, world, views, entry, open, polled, history>>

Idle == [first |-> Nothing, emitted |-> FALSE, touched |-> 0]

Init ==
    /\ deployed \in Deployments
    /\ tip \in Heights /\ synced = tip
    /\ channel = (IF deployed.channel = "none" THEN "none" ELSE "active") /\ online = TRUE
    /\ lnd = Nothing /\ btc = Nothing /\ detail = Nothing
    /\ entry = [r \in Rule |-> Nothing]
    /\ open = [r \in Rule |-> Nothing]
    /\ polled = {}
    /\ calm = [r \in Rule |-> FirstCap] /\ behind = FALSE
    /\ steady = 0 /\ orphan = [r \in Rule |-> FALSE]

---------------------------------------------------------------------------
(* The rules. *)

Minus(a, b) == IF a > b THEN a - b ELSE 0     \* saturating_sub

(* What really holds, as opposed to what was reported. *)
Behind   == deployed.bitcoind /\ Minus(tip, synced) > LagBlocks
Inactive == channel = "inactive"
Holds(r) == IF r = "lag" THEN Behind ELSE Inactive

(* Slip: an entry with an incident outstanding is dropped as early as an idle one. *)
PruneActiveToo(e) == IF e = Nothing \/ e.touched >= Retention THEN Nothing ELSE e

(* prune_stale, for one entry. *)
prune_stale(e) ==
    IF e = Nothing \/ e.touched >= (IF e.emitted THEN ActiveTTL ELSE Retention)
      THEN Nothing ELSE e

Quiet(e) == [entry |-> e, draft |-> "none"]

(* Slip: the start of the stretch survives a good report. *)
DebounceKeepsFirst(e, bad, debounce) ==
    LET first == IF e.first = Nothing /\ bad THEN 0 ELSE e.first
        held  == [e EXCEPT !.first = first, !.touched = 0]
    IN  IF bad /\ ~e.emitted /\ first >= debounce
          THEN [entry |-> [held EXCEPT !.emitted = TRUE], draft |-> "Active"]
        ELSE IF ~bad /\ e.emitted
          THEN [entry |-> [held EXCEPT !.emitted = FALSE], draft |-> "Cleared"]
        ELSE Quiet(held)

(* Slip: the stretch is forgotten with the entry's flag, but nothing is drafted. *)
DebounceForgetsToClear(e, bad, debounce) ==
    LET first == IF bad THEN (IF e.first = Nothing THEN 0 ELSE e.first) ELSE Nothing
        held  == [e EXCEPT !.first = first, !.touched = 0]
    IN  IF bad /\ ~e.emitted /\ first >= debounce
          THEN [entry |-> [held EXCEPT !.emitted = TRUE], draft |-> "Active"]
        ELSE Quiet([held EXCEPT !.emitted = bad /\ @])

(* The body the two rules share: a bad report starts or continues a         *)
(* stretch, which is drafted once when it has lasted; a good one ends it.   *)
debounced(e, bad, debounce) ==
    LET first == IF bad THEN (IF e.first = Nothing THEN 0 ELSE e.first) ELSE Nothing
        held  == [e EXCEPT !.first = first, !.touched = 0]
    IN  IF bad /\ ~e.emitted /\ first >= debounce
          THEN [entry |-> [held EXCEPT !.emitted = TRUE], draft |-> "Active"]
        ELSE IF ~bad /\ e.emitted
          THEN [entry |-> [held EXCEPT !.emitted = FALSE], draft |-> "Cleared"]
        ELSE Quiet(held)

EntryOf(e) == IF prune_stale(e) = Nothing THEN Idle ELSE prune_stale(e)

(* The heights are compared when both are known and neither is too old. *)
comparable(l, b) ==
    l # Nothing /\ b # Nothing /\ l.age =< MaxStateAge /\ b.age =< MaxStateAge

Lags(l, b) == Minus(b.height, l.height) > LagBlocks

(* LndChainBackendLagRule::evaluate on the node: nothing is pruned or       *)
(* touched when the heights cannot be compared.                             *)
chain_backend_lag(e, l, b) ==
    IF ~comparable(l, b) THEN Quiet(e)
    ELSE debounced(EntryOf(e), Lags(l, b), LagPersist)

(* LndChannelInactiveRule::evaluate on the channel, whatever the age of its state. *)
channel_inactive(e, d) ==
    IF d = Nothing THEN Quiet(e)
    ELSE debounced(EntryOf(e), ~d.active,
                   IF deployed.channel = "private" THEN PrivateDebounce ELSE PublicDebounce)

severity_and_confidence(peer_online) == IF peer_online = TRUE THEN "Critical" ELSE "Warning"

(* The engine's part: both confidences reach their kinds' floors. *)
Rank(s) == CASE s = Nothing -> 0 [] s = "Warning" -> 1 [] s = "Critical" -> 2

HandleDraft(r, draft, severity) ==
    CASE draft = "none"    -> open[r]
      [] draft = "Cleared" -> Nothing
      [] draft = "Active"  -> IF Rank(severity) > Rank(open[r]) THEN severity ELSE open[r]

---------------------------------------------------------------------------
(* The world and the clock. *)

(* Blocks are found, LND follows at once or later; the channel changes; a   *)
(* closed channel stays closed.                                             *)
WorldChanges ==
    /\ \/ /\ deployed.bitcoind
          /\ tip' \in {h \in Heights : h >= tip}
          /\ synced' \in {h \in Heights : synced =< h /\ h =< tip'}
          /\ UNCHANGED <<channel, online>>
       \/ /\ channel \in {"active", "inactive"}
          /\ channel' \in {"active", "inactive", "closed"} /\ online' \in BOOLEAN
          /\ UNCHANGED <<tip, synced>>
    /\ world' # world
    /\ UNCHANGED <<deployed, views, entry, open, polled, calm, orphan>>
    /\ steady' = 0
    /\ behind' = (behind \/ Behind')

OlderView(v)  == IF v = Nothing THEN v ELSE [v EXCEPT !.age = Older(@, ViewCap)]
OlderEntry(e) ==
    IF e = Nothing THEN e
    ELSE [e EXCEPT !.first = IF @ = Nothing THEN @ ELSE Older(@, FirstCap),
                  !.touched = Older(@, ActiveTTL)]

Collectors == {"lnd"} \cup (IF deployed.bitcoind THEN {"bitcoind"} ELSE {})

Tick ==
    /\ polled = Collectors /\ polled' = {}
    /\ lnd' = OlderView(lnd) /\ btc' = OlderView(btc) /\ UNCHANGED detail
    /\ entry' = [r \in Rule |-> OlderEntry(entry[r])]
    /\ calm' = [r \in Rule |-> Older(calm[r], FirstCap)]
    /\ steady' = Older(steady, SteadyCap)
    /\ orphan' = [r \in Rule |-> orphan[r] \/
                     (open[r] # Nothing /\ entry'[r] # Nothing /\ entry'[r].touched >= ActiveTTL)]
    /\ UNCHANGED <<deployed, world, open, behind>>

---------------------------------------------------------------------------
(* Polls. *)

(* The observations of a poll in which the given calls answered, in order:  *)
(* per call its states and an Ok health.  The health of the first call that *)
(* failed travels beside them and is dropped by observations_from_batch.    *)
observations(answered) ==
    (IF "get_info" \in answered THEN <<"node", "health">> ELSE <<>>)
    \o (IF "list_channels" \in answered
          THEN <<"summary">> \o (IF channel \in {"active", "inactive"} THEN <<"channel">> ELSE <<>>)
               \o <<"health">>
          ELSE <<>>)
    \o (IF "list_peers" \in answered THEN <<"health">> ELSE <<>>)

(* batches of the other feed *)
batch(answered) == IF deployed.feed = "poll" THEN observations(answered)
                   ELSE IF "list_channels" \in answered /\ channel \in {"active", "inactive"}
                     THEN <<"channel">> ELSE <<>>

(* process_batch hands the rules the subject of the first observation. *)
SubjectOf(b) == IF b[1] = "channel" THEN "channel" ELSE "node"

node_state_from == [height |-> synced, age |-> 0]
channel_state_from(answered) ==
    [active |-> channel = "active",
     online |-> IF "list_peers" \in answered THEN online ELSE Nothing]

Seen(b, n, what) == \E i \in 1..n : b[i] = what

Calls == {"get_info", "list_channels", "list_peers"}

(* What a rule that was evaluated leaves behind; well is what it saw. *)
Evaluated(r, result, severity, well) ==
    /\ entry' = [entry EXCEPT ![r] = result.entry]
    /\ open' = [open EXCEPT ![r] = HandleDraft(r, result.draft, severity)]
    /\ calm' = IF well THEN [calm EXCEPT ![r] = 0] ELSE calm
    /\ orphan' = [orphan EXCEPT ![r] = @ /\ open'[r] # Nothing /\ result.draft # "Active"]

(* One poll and its batch: n observations are appended and applied, and the *)
(* rules run if that is all of them.                                        *)
PollLnd(answered, n) ==
    LET b == batch(answered) IN
    /\ "lnd" \notin polled /\ polled' = polled \cup {"lnd"}
    /\ n \in 0..Len(b)
    /\ lnd' = IF Seen(b, n, "node") THEN node_state_from ELSE lnd
    /\ detail' = IF Seen(b, n, "channel") THEN channel_state_from(answered) ELSE detail
    /\ \/ /\ n = Len(b) /\ b # <<>> /\ SubjectOf(b) = "node"
          /\ Evaluated("lag", chain_backend_lag(entry["lag"], lnd', btc), "Critical",
                       comparable(lnd', btc) /\ ~Lags(lnd', btc))
       \/ /\ n = Len(b) /\ b # <<>> /\ SubjectOf(b) = "channel"
          /\ Evaluated("inactive", channel_inactive(entry["inactive"], detail'),
                       severity_and_confidence(detail'.online), detail'.active)
       \/ /\ n < Len(b) \/ b = <<>>
          /\ UNCHANGED <<entry, open, calm, orphan>>
    /\ steady' = IF answered = Calls /\ n = Len(b) THEN steady ELSE 0
    /\ UNCHANGED <<deployed, world, btc, behind>>

(* The other collector; neither rule looks at its subject. *)
PollBitcoind(ok) ==
    /\ deployed.bitcoind /\ "bitcoind" \notin polled
    /\ polled' = polled \cup {"bitcoind"}
    /\ btc' = IF ok THEN [height |-> tip, age |-> 0] ELSE btc
    /\ steady' = IF ok THEN steady ELSE 0
    /\ UNCHANGED <<deployed, world, lnd, detail, entry, open, calm, behind, orphan>>

(* Views and rules start empty; incidents are loaded. *)
Restart ==
    /\ lnd' = Nothing /\ btc' = Nothing /\ detail' = Nothing
    /\ entry' = [r \in Rule |-> Nothing]
    /\ calm' = [r \in Rule |-> FirstCap]
    /\ orphan' = [r \in Rule |-> open[r] # Nothing]
    /\ steady' = 0
    /\ UNCHANGED <<deployed, world, open, polled, behind>>

Next ==
    \/ WorldChanges \/ Tick \/ Restart
    \/ \E answered \in SUBSET Calls, n \in 0..6 : PollLnd(answered, n)
    \/ \E ok \in BOOLEAN : PollBitcoind(ok)

Spec == Init /\ [][Next]_vars

---------------------------------------------------------------------------
(* Properties. *)

DebounceOf(r) == IF r = "lag" THEN LagPersist
                 ELSE IF deployed.channel = "private" THEN PrivateDebounce ELSE PublicDebounce

(* An incident opens only when no evaluation found the subject well for the *)
(* whole debounce before it, across partial polls, failing appends, pruning *)
(* and restarts.                                                            *)
Debounced ==
    [][\A r \in Rule : open[r] = Nothing /\ open'[r] # Nothing => calm[r] >= DebounceOf(r)]_vars

(* A rule and the engine agree on what is open, unless a restart or a day   *)
(* of silence made the rule forget.                                         *)
RuleAndEngineAgree ==
    \A r \in Rule :
        LET active == entry[r] # Nothing /\ entry[r].emitted
        IN  /\ active => open[r] # Nothing
            /\ open[r] # Nothing => active \/ orphan[r]

(* The first observation of a batch decides which rule it reaches. *)
IsEvaluated(r) == IF r = "lag" THEN deployed.bitcoind /\ deployed.feed = "poll"
                  ELSE deployed.feed = "channel"

(* While nothing changes and nothing fails, a condition that holds is       *)
(* reported within three intervals of its debounce (the reports of both     *)
(* collectors, then the evaluation), and one that is over is resolved       *)
(* within three, unless the rule forgot its incident or the channel was     *)
(* closed.                                                                  *)
InTime ==
    \A r \in Rule : IsEvaluated(r) =>
        /\ Holds(r) /\ steady >= DebounceOf(r) + 3 => open[r] # Nothing
        /\ ~Holds(r) /\ channel # "closed" /\ steady >= 3 => open[r] = Nothing \/ orphan[r]

(* "Both snapshots gated on a 90s freshness window so a paused collector    *)
(* can't fabricate phantom lag": a lag incident is open only if LND has     *)
(* really been behind at some moment.                                       *)
NoPhantomLag == open["lag"] # Nothing => behind
=============================================================================
