---------------------- MODULE LightningDiagnosisProofs ----------------------
(***************************************************************************)
(* Proofs about LightningDiagnosis, for every deployment and for any       *)
(* debounces, thresholds and retentions that LightningAssumption allows.   *)
(*                                                                         *)
(* That a rule speaks in time is a safety property here, because steady    *)
(* counts the undisturbed intervals.  Its proof follows a report on its    *)
(* way: what the read models hold after one such interval, what the rule's *)
(* entry says after the evaluation in the second, and how the stretch in   *)
(* the entry then grows in step with steady until it is drafted.           *)
(***************************************************************************)
EXTENDS LightningDiagnosis, SequenceTheorems, TLAPS

Maybe(S)  == S \cup {Nothing}
Severity  == {"Warning", "Critical"}
Stretch   == 0..FirstCap
Untouched == 0..ActiveTTL

TypeOK ==
    /\ deployed \in Deployment
    /\ tip \in Heights /\ synced \in Heights
    /\ channel \in {"none", "active", "inactive", "closed"} /\ online \in BOOLEAN
    /\ lnd \in Maybe(View) /\ btc \in Maybe(View) /\ detail \in Maybe(Detail)
    /\ entry \in [Rule -> Maybe(Entry)] /\ open \in [Rule -> Maybe(Severity)]
    /\ polled \subseteq Collectors
    /\ calm \in [Rule -> Stretch] /\ steady \in 0..SteadyCap
    /\ orphan \in [Rule -> BOOLEAN]

(* An open incident whose rule has not been evaluated for a day counts as forgotten. *)
OrphanInv ==
    \A r \in Rule :
        entry[r] # Nothing /\ open[r] # Nothing /\ entry[r].touched >= ActiveTTL => orphan[r]

(* A stretch is not longer than the time since the last good report. *)
CalmInv ==
    \A r \in Rule : entry[r] # Nothing /\ entry[r].first # Nothing => entry[r].first <= calm[r]

(* Without a channel there is nothing to report of one. *)
NoChannelInv == channel = "none" => detail = Nothing /\ open["inactive"] = Nothing

(* After one undisturbed interval the reports are those of the world: from  *)
(* this interval, or from the one before.                                   *)
ReportInv ==
    IsEvaluated("lag") =>
        /\ "lnd" \in polled /\ steady >= 1 => lnd = [height |-> synced, age |-> 0]
        /\ "lnd" \notin polled /\ steady >= 2 => lnd = [height |-> synced, age |-> 1]
        /\ "bitcoind" \in polled /\ steady >= 1 => btc = [height |-> tip, age |-> 0]
        /\ "bitcoind" \notin polled /\ steady >= 2 => btc = [height |-> tip, age |-> 1]

(* LND has been polled after k undisturbed intervals. *)
Done(k) == steady >= k + 1 \/ (steady >= k /\ "lnd" \in polled)

(* A rule that batches reach, about something that is there to report. *)
Watches(r) == IsEvaluated(r) /\ (r = "inactive" => channel \in {"active", "inactive"})

(* What such a rule has in its entry once it was evaluated on those reports. *)
Timely(r) ==
    Watches(r) /\ Done(2) =>
        /\ entry[r] # Nothing
        /\ entry[r].touched = IF "lnd" \in polled THEN 0 ELSE 1
        /\ ~Holds(r) => ~entry[r].emitted
        /\ Holds(r) => /\ entry[r].first # Nothing
                       /\ entry[r].first + 2 >= steady \/ entry[r].first = FirstCap
                       /\ Done(DebounceOf(r) + 2) => entry[r].emitted

TimelyInv == \A r \in Rule : Timely(r)

Inv == /\ TypeOK /\ RuleAndEngineAgree /\ OrphanInv /\ CalmInv /\ NoChannelInv
       /\ ReportInv /\ TimelyInv
-----------------------------------------------------------------------------
(* The caps are above every debounce. *)
LEMMA CapFacts ==
    /\ FirstCap \in Nat /\ SteadyCap = FirstCap + 3 /\ ViewCap \in Nat /\ ViewCap >= 2
    /\ LagPersist <= FirstCap /\ PublicDebounce <= FirstCap /\ PrivateDebounce <= FirstCap
    /\ \A r \in Rule : DebounceOf(r) \in 0..FirstCap
<1>1. /\ LagPersist \in Nat /\ PublicDebounce \in Nat /\ PrivateDebounce \in Nat
      /\ MaxStateAge \in Nat /\ MaxStateAge > 0
    BY LightningAssumption
<1> DEFINE S == {LagPersist, PublicDebounce, PrivateDebounce}
<1>2. \E n \in S : \A m \in S : m <= n
    BY <1>1
<1>3. LongestDebounce \in S /\ \A m \in S : m <= LongestDebounce
    BY <1>2 DEF LongestDebounce
<1>4. FirstCap \in Nat /\ LagPersist <= FirstCap /\ PublicDebounce <= FirstCap /\ PrivateDebounce <= FirstCap
    BY <1>1, <1>3 DEF FirstCap
<1> QED
    BY <1>1, <1>4 DEF SteadyCap, FirstCap, ViewCap, DebounceOf

(* None is none of the values. *)
LEMMA NothingFacts ==
    /\ \A n \in Nat : n # Nothing
    /\ \A s \in Severity : s # Nothing
    /\ \A v \in View : v # Nothing
    /\ \A d \in Detail : d # Nothing
    /\ \A e \in Entry : e # Nothing
BY NothingAssumption DEF Severity

(* An entry, field by field, with its intervals named. *)
LEMMA EntryType == Entry = [first : Maybe(Stretch), emitted : BOOLEAN, touched : Untouched]
BY DEF Entry, Maybe, Stretch, Untouched

(* A new entry, and one a poll old, have ages within their caps. *)
LEMMA SmallAges == 0 \in Stretch /\ 0 \in Untouched /\ 1 \in Untouched /\ ActiveTTL > 1 /\ ActiveTTL \in Nat
BY CapFacts, LightningAssumption DEF Stretch, Untouched

(* The rule works on its entry unless that is gone or too old, and then on a new one. *)
LEMMA EntryOfFacts ==
    ASSUME NEW e \in Maybe(Entry)
    PROVE  /\ EntryOf(e) \in Entry
           /\ \/ EntryOf(e) = e /\ e # Nothing
              \/ /\ EntryOf(e).first = Nothing /\ EntryOf(e).emitted = FALSE
                 /\ e # Nothing => e.touched >= Retention /\ (e.emitted => e.touched >= ActiveTTL)
<1>1. Idle \in Entry /\ Idle.first = Nothing /\ Idle.emitted = FALSE
    BY EntryType, SmallAges DEF Idle, Maybe
<1>2. e # Nothing => e \in Entry
    BY DEF Maybe
<1>3. CASE prune_stale(e) = e /\ e # Nothing
    BY <1>2, <1>3 DEF EntryOf
<1>4. CASE prune_stale(e) = Nothing
    <2>1. EntryOf(e) = Idle
        BY <1>4 DEF EntryOf
    <2>2. e # Nothing => e.touched >= (IF e.emitted THEN ActiveTTL ELSE Retention)
        BY <1>4, <1>2 DEF prune_stale
    <2>3. e # Nothing => e.touched \in Nat /\ e.emitted \in BOOLEAN
        BY <1>2, SmallAges DEF Entry
    <2>4. e # Nothing => e.touched >= Retention /\ (e.emitted => e.touched >= ActiveTTL)
        BY <2>2, <2>3, LightningAssumption
    <2> QED
        BY <1>1, <2>1, <2>4
<1> QED
    BY <1>3, <1>4 DEF prune_stale

(* Replacing fields of an entry. *)
LEMMA EntryExcept ==
    ASSUME NEW e \in Entry, NEW x \in Maybe(Stretch), NEW z \in Untouched, NEW y \in BOOLEAN
    PROVE  /\ [e EXCEPT !.first = x, !.touched = z] = [first |-> x, emitted |-> e.emitted, touched |-> z]
           /\ [e EXCEPT !.first = x, !.touched = z, !.emitted = y] = [first |-> x, emitted |-> y, touched |-> z]
<1> DEFINE f == [e EXCEPT !.first = x]
           g == [f EXCEPT !.touched = z]
           h == [g EXCEPT !.emitted = y]
<1>1. f \in Entry /\ f.first = x /\ f.emitted = e.emitted
    BY EntryType
<1> HIDE DEF f
<1>2. g = [first |-> x, emitted |-> e.emitted, touched |-> z]
    BY <1>1, EntryType
<1>3. g \in Entry /\ g.first = x /\ g.touched = z
    BY <1>1, EntryType
<1> HIDE DEF g
<1>4. h = [first |-> x, emitted |-> y, touched |-> z]
    BY <1>3, EntryType
<1>5. [e EXCEPT !.first = x, !.touched = z] = g
    BY Zenon DEF f, g
<1>6. [e EXCEPT !.first = x, !.touched = z, !.emitted = y] = h
    BY Zenon DEF f, g, h
<1> QED
    BY Zenon, <1>2, <1>4, <1>5, <1>6

(* What an evaluation does to the entry, and when it drafts. *)
LEMMA DebouncedFacts ==
    ASSUME NEW e \in Entry, NEW bad \in BOOLEAN, NEW d \in Nat
    PROVE  LET res   == debounced(e, bad, d)
               first == IF bad THEN (IF e.first = Nothing THEN 0 ELSE e.first) ELSE Nothing
           IN  /\ res.entry \in Entry
               /\ res.entry.touched = 0
               /\ res.entry.first = first
               /\ ~bad => ~res.entry.emitted
               /\ bad /\ first >= d => res.entry.emitted
               /\ \/ res.draft = "none" /\ res.entry.emitted = e.emitted
                  \/ res.draft = "Active" /\ res.entry.emitted /\ bad /\ first >= d
                  \/ res.draft = "Cleared" /\ ~res.entry.emitted
<1> DEFINE first == IF bad THEN (IF e.first = Nothing THEN 0 ELSE e.first) ELSE Nothing
           raised == bad /\ ~e.emitted /\ first >= d
           ended  == ~bad /\ e.emitted
           em  == raised \/ (e.emitted /\ ~ended)
           new == [first |-> first, emitted |-> em, touched |-> 0]
           res == debounced(e, bad, d)
<1>1. e.first \in Maybe(Stretch) /\ e.emitted \in BOOLEAN /\ e.touched \in Untouched
    BY EntryType
<1>2. first \in Maybe(Stretch) /\ em \in BOOLEAN
    BY <1>1, SmallAges DEF Maybe
<1>3. res = IF raised THEN [entry |-> [e EXCEPT !.first = first, !.touched = 0, !.emitted = TRUE], draft |-> "Active"]
            ELSE IF ended THEN [entry |-> [e EXCEPT !.first = first, !.touched = 0, !.emitted = FALSE], draft |-> "Cleared"]
            ELSE [entry |-> [e EXCEPT !.first = first, !.touched = 0], draft |-> "none"]
    BY Zenon DEF debounced, Quiet
<1>4. /\ raised => em = TRUE
      /\ ended => em = FALSE
      /\ ~raised /\ ~ended => em = e.emitted
    BY <1>1
<1>5. (~bad => ~em) /\ (bad /\ first >= d => em) /\ (raised => bad /\ first >= d)
    BY <1>1
<1>6. new \in Entry /\ new.first = first /\ new.emitted = em /\ new.touched = 0
    <2> HIDE DEF first, em
    <2> QED
        BY <1>2, EntryType, SmallAges
<1>7. /\ res.entry = new
      /\ \/ raised /\ res.draft = "Active"
         \/ ended /\ res.draft = "Cleared"
         \/ ~raised /\ ~ended /\ res.draft = "none"
    <2> HIDE DEF first, em, raised, ended, res
    <2>1. /\ [e EXCEPT !.first = first, !.touched = 0, !.emitted = em] = new
          /\ [e EXCEPT !.first = first, !.touched = 0] = [first |-> first, emitted |-> e.emitted, touched |-> 0]
        <3>1. first \in Maybe(Stretch) /\ em \in BOOLEAN /\ 0 \in Untouched
            BY <1>2, SmallAges
        <3>2. \A x \in Maybe(Stretch), z \in Untouched, y \in BOOLEAN :
                  /\ [e EXCEPT !.first = x, !.touched = z] = [first |-> x, emitted |-> e.emitted, touched |-> z]
                  /\ [e EXCEPT !.first = x, !.touched = z, !.emitted = y] = [first |-> x, emitted |-> y, touched |-> z]
            BY Zenon, EntryExcept
        <3> QED
            BY Zenon, <3>1, <3>2
    <2>2. CASE raised
        <3>1. [e EXCEPT !.first = first, !.touched = 0, !.emitted = TRUE] = new
            BY Zenon, <2>1, <2>2, <1>4
        <3> QED
            BY <1>3, <2>2, <3>1
    <2>3. CASE ended
        <3>1. [e EXCEPT !.first = first, !.touched = 0, !.emitted = FALSE] = new
            BY Zenon, <2>1, <2>3, <1>4
        <3>2. ~raised
            BY <2>3 DEF raised, ended
        <3> QED
            BY <1>3, <2>3, <3>1, <3>2
    <2>4. CASE ~raised /\ ~ended
        <3>1. [e EXCEPT !.first = first, !.touched = 0] = new
            BY Zenon, <2>1, <2>4, <1>4
        <3> QED
            BY <1>3, <2>4, <3>1
    <2> QED
        BY <2>2, <2>3, <2>4
<1>8. /\ res.entry \in Entry /\ res.entry.touched = 0 /\ res.entry.first = first
      /\ ~bad => ~res.entry.emitted
      /\ bad /\ first >= d => res.entry.emitted
      /\ \/ res.draft = "none" /\ res.entry.emitted = e.emitted
         \/ res.draft = "Active" /\ res.entry.emitted /\ bad /\ first >= d
         \/ res.draft = "Cleared" /\ ~res.entry.emitted
    <2> HIDE DEF first, em, raised, ended, res, new
    <2> QED
        BY <1>4, <1>5, <1>6, <1>7
<1> QED
    BY Zenon, <1>8

(* What becomes of the incident. *)
LEMMA DraftFacts ==
    ASSUME TypeOK, NEW r \in Rule, NEW sev \in Severity
    PROVE  /\ HandleDraft(r, "none", sev) = open[r]
           /\ HandleDraft(r, "Cleared", sev) = Nothing
           /\ HandleDraft(r, "Active", sev) \in Severity
<1>1. open[r] \in Maybe(Severity)
    BY DEF TypeOK
<1>2. HandleDraft(r, "none", sev) = open[r] /\ HandleDraft(r, "Cleared", sev) = Nothing
    BY Zenon DEF HandleDraft
<1>3. HandleDraft(r, "Active", sev) = IF Rank(sev) > Rank(open[r]) THEN sev ELSE open[r]
    BY Zenon DEF HandleDraft
<1>4. Rank(Nothing) = 0 /\ Rank(sev) \in {1, 2}
    <2>1. "Warning" # Nothing /\ "Critical" # Nothing /\ sev # Nothing
        BY NothingFacts DEF Severity
    <2>2. Rank(Nothing) = 0
        BY Zenon, <2>1 DEF Rank
    <2>3. CASE sev = "Warning"
        BY Zenon, <2>1, <2>3 DEF Rank
    <2>4. CASE sev = "Critical"
        BY Zenon, <2>1, <2>4 DEF Rank
    <2> QED
        BY <2>2, <2>3, <2>4 DEF Severity
<1> QED
    BY <1>1, <1>2, <1>3, <1>4 DEF Maybe

(* Ages grow by one up to their cap, and in step. *)
LEMMA OlderFacts ==
    ASSUME NEW cap \in Nat, NEW a \in 0..cap
    PROVE  /\ Older(a, cap) \in 0..cap
           /\ Older(a, cap) = IF a < cap THEN a + 1 ELSE cap
           /\ \A b \in 0..cap : a <= b => Older(a, cap) <= Older(b, cap)
BY DEF Older

(* An entry at the end of an interval. *)
LEMMA OlderEntryFacts ==
    ASSUME NEW e \in Entry
    PROVE  /\ OlderEntry(e) \in Entry
           /\ OlderEntry(e).emitted = e.emitted
           /\ OlderEntry(e).touched = Older(e.touched, ActiveTTL)
           /\ OlderEntry(e).first = IF e.first = Nothing THEN Nothing ELSE Older(e.first, FirstCap)
<1> DEFINE x == IF e.first = Nothing THEN Nothing ELSE Older(e.first, FirstCap)
           z == Older(e.touched, ActiveTTL)
<1>1. e.first \in Maybe(Stretch) /\ e.emitted \in BOOLEAN /\ e.touched \in Untouched
    BY EntryType
<1>2. x \in Maybe(Stretch)
    BY <1>1, OlderFacts, CapFacts DEF Maybe, Stretch
<1>3. z \in Untouched
    BY <1>1, OlderFacts, SmallAges DEF Untouched
<1>4. OlderEntry(e) = [e EXCEPT !.first = x, !.touched = z]
    BY NothingFacts DEF OlderEntry
<1> HIDE DEF x, z
<1>5. OlderEntry(e) = [first |-> x, emitted |-> e.emitted, touched |-> z]
    BY <1>2, <1>3, <1>4, EntryExcept
<1>6. /\ OlderEntry(e) \in Entry /\ OlderEntry(e).emitted = e.emitted
      /\ OlderEntry(e).touched = z /\ OlderEntry(e).first = x
    BY <1>1, <1>2, <1>3, <1>5, EntryType
<1> QED
    BY <1>6 DEF x, z

Observed == {"node", "health", "summary", "channel"}

(* A list that mentions the channel only if it is there to be listed. *)
Lists(s) ==
    /\ s \in Seq(Observed)
    /\ \A i \in 1..Len(s) : s[i] = "channel" => channel \in {"active", "inactive"}

(* The pieces a batch is put together from are such lists. *)
LEMMA ListFacts ==
    /\ Lists(<<>>) /\ Lists(<<"health">>) /\ Lists(<<"summary">>) /\ Lists(<<"node", "health">>)
    /\ channel \in {"active", "inactive"} => Lists(<<"channel">>)
<1>1. Lists(<<>>)
    <2>1. \A i \in 1..Len(<<>>) : FALSE
        OBVIOUS
    <2> QED
        BY <2>1 DEF Lists
<1>2. \A x \in Observed : Lists(<<x>>) <=> (x = "channel" => channel \in {"active", "inactive"})
    <2>1. ASSUME NEW x \in Observed
          PROVE  Lists(<<x>>) <=> (x = "channel" => channel \in {"active", "inactive"})
        <3>1. <<x>> \in Seq(Observed)
            OBVIOUS
        <3>3. Len(<<x>>) = 1 /\ <<x>>[1] = x
            OBVIOUS
        <3>2. \A i \in 1..1 : i = 1
            OBVIOUS
        <3> QED
            BY <3>1, <3>2, <3>3 DEF Lists
    <2> QED
        BY <2>1
<1>3. Lists(<<"node", "health">>)
    <2>4. <<"node", "health">> \in Seq(Observed)
        BY DEF Observed
    <2>1. /\ Len(<<"node", "health">>) = 2
          /\ <<"node", "health">>[1] = "node" /\ <<"node", "health">>[2] = "health"
        OBVIOUS
    <2>2. \A i \in 1..2 : i = 1 \/ i = 2
        OBVIOUS
    <2>3. \A i \in 1..2 : <<"node", "health">>[i] # "channel"
        BY <2>1, <2>2
    <2> QED
        BY <2>1, <2>3, <2>4 DEF Lists
<1> QED
    BY <1>1, <1>2, <1>3 DEF Observed

(* Lists one after the other. *)
LEMMA JoinedLists ==
    ASSUME NEW s, NEW t, Lists(s), Lists(t)
    PROVE  /\ Lists(s \o t)
           /\ s # <<>> => s \o t # <<>> /\ (s \o t)[1] = s[1]
<1>1. s \in Seq(Observed) /\ t \in Seq(Observed)
    BY DEF Lists
<1>2. /\ s \o t \in Seq(Observed) /\ Len(s \o t) = Len(s) + Len(t)
      /\ \A i \in 1..(Len(s) + Len(t)) : (s \o t)[i] = IF i <= Len(s) THEN s[i] ELSE t[i - Len(s)]
    BY <1>1, ConcatProperties
<1>3. Len(s) \in Nat /\ Len(t) \in Nat
    BY <1>1
<1>4. ASSUME NEW i \in 1..Len(s \o t), (s \o t)[i] = "channel"
      PROVE  channel \in {"active", "inactive"}
    <2>1. CASE i <= Len(s)
        <3>1. i \in 1..Len(s) /\ s[i] = "channel"
            BY <1>2, <1>3, <1>4, <2>1
        <3> QED
            BY <3>1 DEF Lists
    <2>2. CASE ~(i <= Len(s))
        <3>1. i - Len(s) \in 1..Len(t) /\ t[i - Len(s)] = "channel"
            BY <1>2, <1>3, <1>4, <2>2
        <3> QED
            BY <3>1 DEF Lists
    <2> QED
        BY <2>1, <2>2
<1>5. ASSUME s # <<>> PROVE s \o t # <<>> /\ (s \o t)[1] = s[1]
    <2>1. Len(s) >= 1
        BY <1>1, <1>3, <1>5, EmptySeq
    <2>2. 1 \in 1..(Len(s) + Len(t)) /\ Len(s \o t) >= 1
        BY <1>2, <1>3, <2>1
    <2> QED
        BY <1>2, <2>1, <2>2
<1> QED
    BY <1>2, <1>4, <1>5 DEF Lists

(* What the batch of a poll may hold, and which rule a full one reaches. *)
LEMMA BatchFacts ==
    ASSUME NEW answered \in SUBSET Calls
    PROVE  /\ Lists(batch(answered))
           /\ answered = Calls /\ deployed.feed = "poll" =>
                  batch(answered) # <<>> /\ SubjectOf(batch(answered)) = "node" /\ batch(answered)[1] = "node"
           /\ answered = Calls /\ deployed.feed # "poll" /\ channel \in {"active", "inactive"} =>
                  batch(answered) # <<>> /\ SubjectOf(batch(answered)) = "channel"
<1> DEFINE b == batch(answered)
           n == IF "get_info" \in answered THEN <<"node", "health">> ELSE <<>>
           c == IF channel \in {"active", "inactive"} THEN <<"channel">> ELSE <<>>
           m == IF "list_channels" \in answered THEN <<"summary">> \o c \o <<"health">> ELSE <<>>
           p == IF "list_peers" \in answered THEN <<"health">> ELSE <<>>
<1>1. CASE deployed.feed = "poll"
    <2>1. b = n \o m \o p
        BY Zenon, <1>1 DEF batch, observations
    <2>2. Lists(n) /\ Lists(p) /\ Lists(c)
        BY ListFacts
    <2>3. Lists(m)
        <3> HIDE DEF c
        <3>1. Lists(<<"summary">> \o c \o <<"health">>)
            BY <2>2, ListFacts, JoinedLists
        <3> QED
            BY <3>1, ListFacts
    <2>4. answered = Calls => n # <<>> /\ n[1] = "node"
        BY DEF Calls
    <2> HIDE DEF n, m, p
    <2>5. Lists(n \o m) /\ (answered = Calls => n \o m # <<>> /\ (n \o m)[1] = "node")
        BY <2>2, <2>3, <2>4, JoinedLists
    <2>6. Lists(b) /\ (answered = Calls => b # <<>> /\ b[1] = "node")
        BY <2>1, <2>2, <2>5, JoinedLists
    <2> QED
        BY <1>1, <2>6 DEF SubjectOf
<1>2. CASE deployed.feed # "poll"
    BY <1>2, ListFacts DEF batch, Calls, SubjectOf
<1> QED
    BY <1>1, <1>2

-----------------------------------------------------------------------------
(* The part of the invariant that is about rules and incidents. *)
Ledger ==
    /\ entry \in [Rule -> Maybe(Entry)] /\ open \in [Rule -> Maybe(Severity)]
    /\ calm \in [Rule -> Stretch] /\ orphan \in [Rule -> BOOLEAN]
    /\ RuleAndEngineAgree /\ OrphanInv /\ CalmInv

(* One evaluation of a rule on a report that says how things are. *)
LEMMA EvaluationFacts ==
    ASSUME TypeOK, Ledger, NEW r \in Rule, NEW bad \in BOOLEAN, NEW sev \in Severity,
           Evaluated(r, debounced(EntryOf(entry[r]), bad, DebounceOf(r)), sev, ~bad)
    PROVE  /\ Ledger'
           /\ \A q \in Rule \ {r} : entry'[q] = entry[q] /\ open'[q] = open[q]
           /\ entry'[r] # Nothing /\ entry'[r].touched = 0
           /\ ~bad => ~entry'[r].emitted
           /\ bad => /\ entry'[r].first = IF EntryOf(entry[r]).first = Nothing THEN 0 ELSE EntryOf(entry[r]).first
                     /\ entry'[r].first >= DebounceOf(r) => entry'[r].emitted
           /\ open[r] = Nothing /\ open'[r] # Nothing => calm[r] >= DebounceOf(r)
<1> DEFINE e == EntryOf(entry[r])
           d == DebounceOf(r)
           res == debounced(e, bad, d)
           first == IF e.first = Nothing THEN 0 ELSE e.first
<1>1. /\ e \in Entry
      /\ \/ e = entry[r] /\ entry[r] # Nothing
         \/ /\ e.first = Nothing /\ e.emitted = FALSE
            /\ entry[r] # Nothing /\ entry[r].emitted => entry[r].touched >= ActiveTTL
    BY EntryOfFacts DEF Ledger
<1>2. d \in Nat /\ d <= FirstCap
    BY CapFacts
<1> HIDE DEF e, d
<1>3. /\ res.entry \in Entry /\ res.entry.touched = 0
      /\ bad => res.entry.first = first
      /\ ~bad => res.entry.first = Nothing
      /\ ~bad => ~res.entry.emitted
      /\ bad /\ first >= d => res.entry.emitted
      /\ \/ res.draft = "none" /\ res.entry.emitted = e.emitted
         \/ res.draft = "Active" /\ res.entry.emitted /\ bad /\ first >= d
         \/ res.draft = "Cleared" /\ ~res.entry.emitted
    BY <1>1, <1>2, DebouncedFacts
<1>4. /\ entry' = [entry EXCEPT ![r] = res.entry]
      /\ open' = [open EXCEPT ![r] = HandleDraft(r, res.draft, sev)]
      /\ calm' = IF ~bad THEN [calm EXCEPT ![r] = 0] ELSE calm
      /\ orphan' = [orphan EXCEPT ![r] = orphan[r] /\ open'[r] # Nothing /\ res.draft # "Active"]
    BY DEF Evaluated, e, d
<1> HIDE DEF res
<1>5. /\ res.draft = "none" => HandleDraft(r, res.draft, sev) = open[r]
      /\ res.draft = "Cleared" => HandleDraft(r, res.draft, sev) = Nothing
      /\ res.draft = "Active" => HandleDraft(r, res.draft, sev) \in Severity
    BY DraftFacts
<1>6. HandleDraft(r, res.draft, sev) \in Maybe(Severity)
    BY <1>3, <1>5 DEF Ledger, Maybe
<1>7. /\ entry' \in [Rule -> Maybe(Entry)] /\ open' \in [Rule -> Maybe(Severity)]
      /\ calm' \in [Rule -> Stretch]
    BY <1>3, <1>4, <1>6, SmallAges DEF Ledger, Maybe
<1>8. orphan' \in [Rule -> BOOLEAN]
    BY <1>4 DEF Ledger
<1>9. /\ entry'[r] = res.entry /\ open'[r] = HandleDraft(r, res.draft, sev)
      /\ orphan'[r] = (orphan[r] /\ open'[r] # Nothing /\ res.draft # "Active")
    BY <1>4 DEF Ledger
<1>10. \A q \in Rule \ {r} : /\ entry'[q] = entry[q] /\ open'[q] = open[q]
                             /\ orphan'[q] = orphan[q] /\ calm'[q] = calm[q]
    BY <1>4 DEF Ledger
<1>11. entry'[r] \in Entry /\ entry'[r] # Nothing /\ entry'[r].touched = 0
    BY <1>3, <1>9, NothingFacts
<1>12. e.emitted => entry[r] # Nothing /\ entry[r].emitted
    BY <1>1
<1>13. (\A q \in Rule \ {r} :
          /\ entry'[q] # Nothing /\ entry'[q].emitted => open'[q] # Nothing
          /\ open'[q] # Nothing => (entry'[q] # Nothing /\ entry'[q].emitted) \/ orphan'[q])
    BY <1>10 DEF Ledger, RuleAndEngineAgree
<1>14. /\ entry'[r].emitted => open'[r] # Nothing
       /\ open'[r] # Nothing => entry'[r].emitted \/ orphan'[r]
    <2>1. CASE res.draft = "none" /\ res.entry.emitted = e.emitted
        <3>1. open'[r] = open[r]
            BY <1>5, <1>9, <2>1
        <3>2. e.emitted => open[r] # Nothing
            BY <1>12 DEF Ledger, RuleAndEngineAgree
        <3>3. open[r] # Nothing => e.emitted \/ orphan[r]
            <4>1. CASE e = entry[r] /\ entry[r] # Nothing
                BY <4>1 DEF Ledger, RuleAndEngineAgree
            <4>2. CASE entry[r] # Nothing /\ entry[r].emitted => entry[r].touched >= ActiveTTL
                BY <4>2 DEF Ledger, RuleAndEngineAgree, OrphanInv
            <4> QED
                BY <1>1, <4>1, <4>2
        <3>4. open[r] # Nothing => (orphan'[r] <=> orphan[r])
            BY <1>9, <2>1, <3>1 DEF Ledger
        <3> QED
            BY <1>9, <2>1, <3>1, <3>2, <3>3, <3>4
    <2>2. CASE res.draft = "Active" /\ res.entry.emitted
        BY <1>5, <1>9, <2>2, NothingFacts
    <2>3. CASE res.draft = "Cleared" /\ ~res.entry.emitted
        BY <1>5, <1>9, <2>3
    <2> QED
        BY <1>3, <2>1, <2>2, <2>3
<1>15. RuleAndEngineAgree'
    BY <1>11, <1>13, <1>14 DEF RuleAndEngineAgree
<1>16. OrphanInv'
    BY <1>10, <1>11, SmallAges DEF OrphanInv, Ledger
<1>17. bad => first <= calm[r]
    <2>1. calm[r] \in Nat /\ calm[r] >= 0
        BY CapFacts DEF Ledger, Stretch
    <2> QED
        BY <1>1, <2>1 DEF Ledger, CalmInv
<1>18. CalmInv'
    <2>1. ASSUME NEW q \in Rule, entry'[q] # Nothing, entry'[q].first # Nothing
          PROVE  entry'[q].first <= calm'[q]
        <3>1. CASE q = r
            <4>1. bad
                BY <1>3, <1>9, <2>1, <3>1
            <4>2. calm'[r] = calm[r]
                BY <1>4, <4>1
            <4> QED
                BY <1>3, <1>9, <1>17, <3>1, <4>1, <4>2
        <3>2. CASE q # r
            BY <1>10, <2>1, <3>2 DEF Ledger, CalmInv
        <3> QED
            BY <3>1, <3>2
    <2> QED
        BY <2>1 DEF CalmInv
<1>19. ASSUME open[r] = Nothing, open'[r] # Nothing PROVE calm[r] >= d
    <2>1. bad /\ first >= d
        BY <1>3, <1>5, <1>9, <1>19
    <2>2. calm[r] \in Nat /\ first \in Nat
        BY <1>1, CapFacts, EntryType DEF Ledger, Stretch, Maybe
    <2> QED
        BY <1>2, <1>17, <2>1, <2>2
<1>20. Ledger'
    BY <1>7, <1>8, <1>15, <1>16, <1>18 DEF Ledger
<1>21. /\ ~bad => ~entry'[r].emitted
       /\ bad => entry'[r].first = first /\ (entry'[r].first >= d => entry'[r].emitted)
    BY <1>3, <1>9
<1> QED
    BY <1>10, <1>11, <1>19, <1>20, <1>21 DEF e, d

(* The part that is about the world, the views and the clock. *)
Frame ==
    /\ deployed \in Deployment
    /\ tip \in Heights /\ synced \in Heights
    /\ channel \in {"none", "active", "inactive", "closed"} /\ online \in BOOLEAN
    /\ lnd \in Maybe(View) /\ btc \in Maybe(View) /\ detail \in Maybe(Detail)
    /\ polled \subseteq Collectors /\ steady \in 0..SteadyCap

(* The parts of the invariant, before and after a step. *)
LEMMA InvParts ==
    /\ Inv <=> Frame /\ Ledger /\ NoChannelInv /\ ReportInv /\ TimelyInv
    /\ Inv' <=> Frame' /\ Ledger' /\ NoChannelInv' /\ ReportInv' /\ TimelyInv'
BY DEF Inv, TypeOK, Frame, Ledger

(* What a full poll shows of the node. *)
LEMMA NodeReport == node_state_from = [height |-> synced, age |-> 0]
BY DEF node_state_from

(* Lagging and comparing. *)
LEMMA LagFacts ==
    ASSUME Frame, deployed.bitcoind, NEW a \in {0, 1}
    PROVE  /\ comparable([height |-> synced, age |-> 0], [height |-> tip, age |-> a])
           /\ Lags([height |-> synced, age |-> 0], [height |-> tip, age |-> a]) <=> Holds("lag")
<1>1. /\ [height |-> synced, age |-> 0] \in View /\ [height |-> tip, age |-> a] \in View
    BY CapFacts DEF Frame, View
<1> QED
    BY <1>1, NothingFacts, LightningAssumption DEF comparable, Lags, Holds, Behind

(* The ways a poll of LND can end: no rule is evaluated, the lag rule       *)
(* cannot compare the heights, or one of the rules assesses its subject.    *)
NoneEvaluated == UNCHANGED <<entry, open, calm, orphan>>

LagUnknown ==
    /\ UNCHANGED <<entry, open, calm>>
    /\ orphan' \in [Rule -> BOOLEAN] /\ orphan'["inactive"] = orphan["inactive"]
    /\ orphan["lag"] /\ open["lag"] # Nothing => orphan'["lag"]

Assessed(r, bad, sev) ==
    Evaluated(r, debounced(EntryOf(entry[r]), bad, DebounceOf(r)), sev, ~bad)

(* What a poll of the node comes to: the read models get what was answered,  *)
(* and at most one rule is evaluated.                                        *)
LEMMA PollCases ==
    ASSUME Frame, Ledger, NEW answered \in SUBSET Calls, NEW n \in 0..6, PollLnd(answered, n)
    PROVE  /\ lnd' \in Maybe(View) /\ detail' \in Maybe(Detail)
           /\ channel = "none" => detail' = detail
           /\ answered = Calls /\ n = Len(batch(answered)) /\ deployed.feed = "poll" =>
                  lnd' = [height |-> synced, age |-> 0]
           /\ \/ NoneEvaluated
              \/ LagUnknown
              \/ Assessed("lag", Lags(lnd', btc), "Critical")
              \/ /\ channel \in {"active", "inactive"}
                 /\ detail'.active = (channel = "active")
                 /\ \E sev \in Severity : Assessed("inactive", ~detail'.active, sev)
           /\ answered = Calls /\ n = Len(batch(answered)) =>
                  /\ deployed.feed = "poll" /\ comparable(lnd', btc) => Assessed("lag", Lags(lnd', btc), "Critical")
                  /\ deployed.feed # "poll" /\ channel \in {"active", "inactive"} =>
                        /\ detail'.active = (channel = "active")
                        /\ \E sev \in Severity : Assessed("inactive", ~detail'.active, sev)
<1> DEFINE b == batch(answered)
<1>1. /\ n \in 0..Len(b)
      /\ lnd' = IF Seen(b, n, "node") THEN node_state_from ELSE lnd
      /\ detail' = IF Seen(b, n, "channel") THEN channel_state_from(answered) ELSE detail
      /\ \/ /\ n = Len(b) /\ b # <<>> /\ SubjectOf(b) = "node"
            /\ Evaluated("lag", chain_backend_lag(entry["lag"], lnd', btc), "Critical",
                         comparable(lnd', btc) /\ ~Lags(lnd', btc))
         \/ /\ n = Len(b) /\ b # <<>> /\ SubjectOf(b) = "channel"
            /\ Evaluated("inactive", channel_inactive(entry["inactive"], detail'),
                         severity_and_confidence(detail'.online), detail'.active)
         \/ (n < Len(b) \/ b = <<>>) /\ UNCHANGED <<entry, open, calm, orphan>>
    BY DEF PollLnd
<1>2. /\ Lists(b)
      /\ answered = Calls /\ deployed.feed = "poll" => b # <<>> /\ SubjectOf(b) = "node" /\ b[1] = "node"
      /\ answered = Calls /\ deployed.feed # "poll" /\ channel \in {"active", "inactive"} =>
             b # <<>> /\ SubjectOf(b) = "channel"
    BY BatchFacts
<1> HIDE DEF b
<1>3. Len(b) \in Nat /\ (b # <<>> => Len(b) >= 1)
    BY <1>2, EmptySeq DEF Lists
<1>4. Seen(b, n, "channel") => channel \in {"active", "inactive"}
    BY <1>1, <1>2, <1>3 DEF Seen, Lists
<1>5. node_state_from \in View /\ channel_state_from(answered) \in Detail
    <2>1. node_state_from \in View
        BY CapFacts DEF node_state_from, View, Frame
    <2>2. (channel = "active") \in BOOLEAN /\ (IF "list_peers" \in answered THEN online ELSE Nothing) \in BOOLEAN \cup {Nothing}
        BY DEF Frame
    <2> QED
        BY <2>1, <2>2 DEF channel_state_from, Detail
<1>6. lnd' \in Maybe(View) /\ detail' \in Maybe(Detail)
    BY <1>1, <1>5 DEF Frame, Maybe
<1>7. b # <<>> /\ n = Len(b) /\ b[1] = "node" => Seen(b, n, "node")
    BY <1>3 DEF Seen
<1>8. b # <<>> /\ n = Len(b) /\ SubjectOf(b) = "channel" => Seen(b, n, "channel")
    BY <1>3 DEF Seen, SubjectOf
<1>9. answered = Calls /\ n = Len(b) /\ deployed.feed = "poll" => lnd' = [height |-> synced, age |-> 0]
    BY <1>1, <1>2, <1>7 DEF node_state_from
<1>10. ASSUME Evaluated("lag", chain_backend_lag(entry["lag"], lnd', btc), "Critical",
                        comparable(lnd', btc) /\ ~Lags(lnd', btc))
       PROVE  /\ comparable(lnd', btc) => Assessed("lag", Lags(lnd', btc), "Critical")
              /\ ~comparable(lnd', btc) => LagUnknown
    <2>1. CASE comparable(lnd', btc)
        <3>1. chain_backend_lag(entry["lag"], lnd', btc)
                = debounced(EntryOf(entry["lag"]), Lags(lnd', btc), DebounceOf("lag"))
            BY <2>1 DEF chain_backend_lag, DebounceOf
        <3>2. (comparable(lnd', btc) /\ ~Lags(lnd', btc)) = ~Lags(lnd', btc)
            BY <2>1
        <3> QED
            BY <1>10, <2>1, <3>1, <3>2 DEF Assessed, Evaluated
    <2>2. CASE ~comparable(lnd', btc)
        <3>1. chain_backend_lag(entry["lag"], lnd', btc) = [entry |-> entry["lag"], draft |-> "none"]
            BY <2>2 DEF chain_backend_lag, Quiet
        <3>2. HandleDraft("lag", "none", "Critical") = open["lag"]
            BY Zenon DEF HandleDraft
        <3>3. entry' = entry /\ open' = open /\ calm' = calm
            BY <1>10, <2>2, <3>1, <3>2 DEF Evaluated, Ledger, Rule
        <3>4. /\ orphan' \in [Rule -> BOOLEAN] /\ orphan'["inactive"] = orphan["inactive"]
              /\ orphan["lag"] /\ open["lag"] # Nothing => orphan'["lag"]
            BY <1>10, <3>1, <3>3 DEF Evaluated, Ledger, Rule
        <3> QED
            BY <2>2, <3>3, <3>4 DEF LagUnknown
    <2> QED
        BY <2>1, <2>2
<1>11. ASSUME n = Len(b), b # <<>>, SubjectOf(b) = "channel",
              Evaluated("inactive", channel_inactive(entry["inactive"], detail'),
                        severity_and_confidence(detail'.online), detail'.active)
       PROVE  /\ channel \in {"active", "inactive"} /\ detail'.active = (channel = "active")
              /\ \E sev \in Severity : Assessed("inactive", ~detail'.active, sev)
    <2>1. channel \in {"active", "inactive"} /\ detail' = channel_state_from(answered)
        BY <1>1, <1>4, <1>8, <1>11
    <2>2. detail' # Nothing
        BY <1>5, <2>1, NothingFacts
    <2>3. detail'.active = (channel = "active")
        BY <2>1 DEF channel_state_from
    <2> DEFINE sev == severity_and_confidence(detail'.online)
    <2>4. detail'.active = ~~detail'.active
        BY <2>3
    <2>5. sev \in Severity
        BY DEF severity_and_confidence, Severity
    <2>6. channel_inactive(entry["inactive"], detail')
            = debounced(EntryOf(entry["inactive"]), ~detail'.active, DebounceOf("inactive"))
        BY Zenon, <2>2 DEF channel_inactive, DebounceOf
    <2> HIDE DEF sev
    <2>7. Evaluated("inactive", debounced(EntryOf(entry["inactive"]), ~detail'.active, DebounceOf("inactive")),
                    sev, detail'.active)
        BY Zenon, <1>11, <2>6 DEF sev
    <2>8. Assessed("inactive", ~detail'.active, sev)
        BY <2>7 DEF Assessed, Evaluated
    <2> QED
        BY <2>1, <2>3, <2>5, <2>8
<1>12. answered = Calls /\ n = Len(b) =>
          /\ deployed.feed = "poll" /\ comparable(lnd', btc) => Assessed("lag", Lags(lnd', btc), "Critical")
          /\ deployed.feed # "poll" /\ channel \in {"active", "inactive"} =>
                /\ detail'.active = (channel = "active")
                /\ \E sev \in Severity : Assessed("inactive", ~detail'.active, sev)
    BY <1>1, <1>2, <1>3, <1>10, <1>11
<1>13. \/ NoneEvaluated
       \/ LagUnknown
       \/ Assessed("lag", Lags(lnd', btc), "Critical")
       \/ /\ channel \in {"active", "inactive"}
          /\ detail'.active = (channel = "active")
          /\ \E sev \in Severity : Assessed("inactive", ~detail'.active, sev)
    BY <1>1, <1>10, <1>11 DEF NoneEvaluated
<1>14. channel = "none" => detail' = detail
    BY <1>1, <1>4
<1> QED
    BY <1>6, <1>9, <1>12, <1>13, <1>14 DEF b

-----------------------------------------------------------------------------
(* At the start nothing is known and nothing is open. *)
LEMMA InitInv == Init => Inv
<1> SUFFICES ASSUME Init PROVE Frame /\ Ledger /\ NoChannelInv /\ ReportInv /\ TimelyInv
    BY InvParts
<1>1. deployed \in Deployment
    BY LightningAssumption DEF Init
<1>2. Frame
    BY <1>1, CapFacts DEF Init, Frame, Maybe
<1>3. Ledger
    <2>1. FirstCap \in Stretch
        BY CapFacts DEF Stretch
    <2> QED
        BY <2>1 DEF Init, Ledger, Maybe, RuleAndEngineAgree, OrphanInv, CalmInv
<1>4. NoChannelInv /\ ReportInv
    BY DEF Init, NoChannelInv, ReportInv, Rule
<1>5. TimelyInv
    BY DEF Init, TimelyInv, Timely, Done
<1> QED
    BY <1>2, <1>3, <1>4, <1>5

(* Whatever the world does, the count of undisturbed intervals starts again. *)
LEMMA DisturbedInv ==
    ASSUME steady' = 0
    PROVE  ReportInv' /\ TimelyInv'
BY DEF ReportInv, TimelyInv, Timely, Done

(* The chain, the node or the channel changes: the timers of the reports start over. *)
LEMMA WorldChangesInv ==
    ASSUME Inv, WorldChanges
    PROVE  Inv'
<1> USE InvParts
<1>1. Frame'
    <2>1. deployed' = deployed /\ polled' = polled /\ steady' = 0 /\ UNCHANGED views
        BY DEF WorldChanges
    <2>2. /\ tip' \in Heights /\ synced' \in Heights /\ online' \in BOOLEAN
          /\ channel' \in {"none", "active", "inactive", "closed"}
        BY DEF WorldChanges, Frame
    <2>3. Collectors' = Collectors
        BY <2>1 DEF Collectors
    <2> QED
        BY <2>1, <2>2, <2>3, CapFacts DEF Frame, views
<1>2. Ledger'
    BY DEF WorldChanges, Ledger, RuleAndEngineAgree, OrphanInv, CalmInv
<1>3. NoChannelInv'
    BY DEF WorldChanges, NoChannelInv, views
<1>4. ReportInv' /\ TimelyInv'
    BY DisturbedInv DEF WorldChanges
<1> QED
    BY <1>1, <1>2, <1>3, <1>4

(* A restart empties the rules and the read models, and orphans what is open. *)
LEMMA RestartInv ==
    ASSUME Inv, Restart
    PROVE  Inv'
<1> USE InvParts
<1>1. Frame'
    <2>1. Collectors' = Collectors
        BY DEF Collectors, Restart
    <2> QED
        BY <2>1, CapFacts DEF Restart, Frame, world, Maybe
<1>2. Ledger'
    <2>1. FirstCap \in Stretch
        BY CapFacts DEF Stretch
    <2> QED
        BY <2>1 DEF Restart, Ledger, RuleAndEngineAgree, OrphanInv, CalmInv, Maybe
<1>3. NoChannelInv'
    BY DEF Restart, NoChannelInv, world
<1>4. ReportInv' /\ TimelyInv'
    BY DisturbedInv DEF Restart
<1> QED
    BY <1>1, <1>2, <1>3, <1>4

(* The other collector's poll brings the other height and leaves the rules alone. *)
LEMMA PollBitcoindInv ==
    ASSUME Inv, NEW ok \in BOOLEAN, PollBitcoind(ok)
    PROVE  Inv'
<1> USE InvParts
<1>1. /\ deployed.bitcoind /\ polled' = polled \cup {"bitcoind"}
      /\ btc' = IF ok THEN [height |-> tip, age |-> 0] ELSE btc
      /\ steady' = IF ok THEN steady ELSE 0
      /\ UNCHANGED <<deployed, tip, synced, channel, online, lnd, detail, entry, open, calm, orphan>>
    BY DEF PollBitcoind, world
<1>2. Frame'
    <2>1. Collectors' = Collectors /\ "bitcoind" \in Collectors
        BY <1>1 DEF Collectors
    <2>2. [height |-> tip, age |-> 0] \in View
        BY CapFacts DEF View, Frame
    <2>3. btc' \in Maybe(View)
        BY <1>1, <2>2 DEF Frame, Maybe
    <2> QED
        BY <1>1, <2>1, <2>3, CapFacts DEF Frame
<1>3. Ledger'
    BY <1>1 DEF Ledger, RuleAndEngineAgree, OrphanInv, CalmInv
<1>4. NoChannelInv'
    BY <1>1 DEF NoChannelInv
<1>5. CASE ~ok
    BY <1>1, <1>2, <1>3, <1>4, <1>5, DisturbedInv
<1>6. CASE ok
    <2>1. "lnd" \in polled' <=> "lnd" \in polled
        BY <1>1
    <2>2. ReportInv'
        BY <1>1, <1>6, <2>1 DEF ReportInv, IsEvaluated
    <2>3. TimelyInv'
        BY <1>1, <1>6, <2>1 DEF TimelyInv, Timely, Watches, IsEvaluated, Done, Holds, Behind, Inactive, DebounceOf
    <2> QED
        BY <1>2, <1>3, <1>4, <2>2, <2>3
<1> QED
    BY <1>5, <1>6

(* The end of an interval: everything grows older in step. *)
LEMMA TickInv ==
    ASSUME Inv, Tick
    PROVE  Inv'
<1> USE InvParts
<1>1. /\ polled = Collectors /\ polled' = {}
      /\ lnd' = OlderView(lnd) /\ btc' = OlderView(btc)
      /\ entry' = [r \in Rule |-> OlderEntry(entry[r])]
      /\ calm' = [r \in Rule |-> Older(calm[r], FirstCap)]
      /\ steady' = Older(steady, SteadyCap)
      /\ orphan' = [r \in Rule |-> orphan[r] \/
                      (open[r] # Nothing /\ entry'[r] # Nothing /\ entry'[r].touched >= ActiveTTL)]
      /\ UNCHANGED <<deployed, tip, synced, channel, online, open, detail>>
    BY DEF Tick, world
<1>2. "lnd" \in polled /\ (deployed.bitcoind => "bitcoind" \in polled)
    BY <1>1 DEF Collectors
<1>3. \A v \in View : /\ OlderView(v) \in View
                      /\ OlderView(v) = [height |-> v.height, age |-> Older(v.age, ViewCap)]
    <2>1. ASSUME NEW v \in View
          PROVE  OlderView(v) \in View /\ OlderView(v) = [height |-> v.height, age |-> Older(v.age, ViewCap)]
        <3>1. v.age \in 0..ViewCap /\ v.height \in Heights
            BY DEF View
        <3>2. Older(v.age, ViewCap) \in 0..ViewCap
            BY <3>1, CapFacts, OlderFacts
        <3>3. OlderView(v) = [v EXCEPT !.age = Older(v.age, ViewCap)]
            BY NothingFacts DEF OlderView
        <3> QED
            BY <3>1, <3>2, <3>3 DEF View
    <2> QED
        BY <2>1
<1>4. steady' \in 0..SteadyCap /\ steady' = IF steady < SteadyCap THEN steady + 1 ELSE SteadyCap
    BY <1>1, CapFacts, OlderFacts DEF Frame
<1>5. Frame'
    <2>1. lnd' \in Maybe(View) /\ btc' \in Maybe(View)
        BY <1>1, <1>3 DEF Frame, Maybe, OlderView
    <2> QED
        BY <1>1, <1>4, <2>1 DEF Frame
<1>6. \A r \in Rule : /\ entry'[r] = OlderEntry(entry[r]) /\ calm'[r] = Older(calm[r], FirstCap)
                      /\ entry[r] = Nothing => entry'[r] = Nothing
                      /\ entry[r] # Nothing =>
                            /\ entry[r] \in Entry /\ entry'[r] \in Entry /\ entry'[r] # Nothing
                            /\ entry'[r].emitted = entry[r].emitted
                            /\ entry'[r].touched = Older(entry[r].touched, ActiveTTL)
                            /\ entry'[r].first = IF entry[r].first = Nothing THEN Nothing
                                                 ELSE Older(entry[r].first, FirstCap)
    <2>1. ASSUME NEW r \in Rule
          PROVE  /\ entry[r] = Nothing => entry'[r] = Nothing
                 /\ entry[r] # Nothing =>
                       /\ entry[r] \in Entry /\ entry'[r] \in Entry /\ entry'[r] # Nothing
                       /\ entry'[r].emitted = entry[r].emitted
                       /\ entry'[r].touched = Older(entry[r].touched, ActiveTTL)
                       /\ entry'[r].first = IF entry[r].first = Nothing THEN Nothing
                                            ELSE Older(entry[r].first, FirstCap)
        <3>1. entry'[r] = OlderEntry(entry[r])
            BY <1>1
        <3>2. entry[r] = Nothing => entry'[r] = Nothing
            BY <3>1 DEF OlderEntry
        <3>3. entry[r] # Nothing => entry[r] \in Entry
            BY DEF Ledger, Maybe
        <3> QED
            BY <3>1, <3>2, <3>3, OlderEntryFacts, NothingFacts
    <2> QED
        BY <1>1, <2>1
<1>7. Ledger'
    <2>1. entry' \in [Rule -> Maybe(Entry)] /\ open' \in [Rule -> Maybe(Severity)]
        BY <1>1, <1>6 DEF Ledger, Maybe
    <2>2. calm' \in [Rule -> Stretch]
        BY <1>1, CapFacts, OlderFacts DEF Ledger, Stretch
    <2>3. orphan' \in [Rule -> BOOLEAN]
        BY <1>1 DEF Ledger
    <2>4. \A r \in Rule : /\ orphan[r] => orphan'[r]
                          /\ open[r] # Nothing /\ entry'[r] # Nothing /\ entry'[r].touched >= ActiveTTL
                               => orphan'[r]
        BY <1>1 DEF Ledger
    <2>5. RuleAndEngineAgree'
        BY <1>1, <1>6, <2>4 DEF RuleAndEngineAgree, Ledger
    <2>6. OrphanInv'
        BY <1>1, <2>4 DEF OrphanInv
    <2>7. CalmInv'
        <3>1. ASSUME NEW r \in Rule, entry'[r] # Nothing, entry'[r].first # Nothing
              PROVE  entry'[r].first <= calm'[r]
            <4>1. entry[r] # Nothing /\ entry[r].first # Nothing /\ entry[r] \in Entry
                BY <1>6, <3>1
            <4>2. entry[r].first <= calm[r]
                BY <4>1 DEF Ledger, CalmInv
            <4>3. entry[r].first \in 0..FirstCap /\ calm[r] \in 0..FirstCap
                BY <4>1 DEF Entry, Ledger, Stretch
            <4>4. Older(entry[r].first, FirstCap) <= Older(calm[r], FirstCap)
                BY <4>2, <4>3, CapFacts, OlderFacts
            <4> QED
                BY <1>6, <4>1, <4>4
        <3> QED
            BY <3>1 DEF CalmInv
    <2> QED
        BY <2>1, <2>2, <2>3, <2>5, <2>6, <2>7 DEF Ledger
<1>8. NoChannelInv'
    BY <1>1 DEF NoChannelInv
<1>9. ReportInv'
    <2> SUFFICES ASSUME IsEvaluated("lag")', steady' >= 2
                 PROVE  lnd' = [height |-> synced, age |-> 1] /\ btc' = [height |-> tip, age |-> 1]
        BY <1>1 DEF ReportInv
    <2>1. steady >= 1
        BY <1>4, CapFacts DEF Frame
    <2>2. IsEvaluated("lag") /\ deployed.bitcoind
        BY <1>1 DEF IsEvaluated
    <2>3. lnd = [height |-> synced, age |-> 0] /\ btc = [height |-> tip, age |-> 0]
        BY <1>2, <2>1, <2>2 DEF ReportInv
    <2>4. lnd \in View /\ btc \in View
        BY <2>3, CapFacts DEF View, Frame
    <2>5. Older(0, ViewCap) = 1
        BY CapFacts DEF Older
    <2> QED
        BY <1>1, <1>3, <2>3, <2>4, <2>5
<1>10. TimelyInv'
    <2> SUFFICES ASSUME NEW r \in Rule, Watches(r)', Done(2)'
                 PROVE  /\ entry'[r] # Nothing
                        /\ entry'[r].touched = 1
                        /\ ~Holds(r) => ~entry'[r].emitted
                        /\ Holds(r) => /\ entry'[r].first # Nothing
                                       /\ entry'[r].first + 2 >= steady' \/ entry'[r].first = FirstCap
                                       /\ steady' >= DebounceOf(r) + 3 => entry'[r].emitted
        <3>1. \A r \in Rule : (Holds(r)' <=> Holds(r)) /\ DebounceOf(r)' = DebounceOf(r)
            BY <1>1 DEF Holds, Behind, Inactive, DebounceOf
        <3>2. \A r \in Rule : Done(DebounceOf(r) + 2)' <=> steady' >= DebounceOf(r) + 3
            BY <1>1, <1>4, CapFacts, <3>1 DEF Done
        <3> QED
            BY <1>1, <3>1, <3>2 DEF TimelyInv, Timely
    <2>1. Watches(r)
        BY <1>1 DEF Watches, IsEvaluated
    <2>2. steady' >= 3 /\ steady >= 2 /\ steady' <= steady + 1
        BY <1>1, <1>4, CapFacts DEF Done, Frame
    <2>3. Done(2)
        BY <1>2, <2>2 DEF Done
    <2>4. /\ entry[r] # Nothing /\ entry[r].touched = 0
          /\ ~Holds(r) => ~entry[r].emitted
          /\ Holds(r) => /\ entry[r].first # Nothing
                         /\ entry[r].first + 2 >= steady \/ entry[r].first = FirstCap
                         /\ Done(DebounceOf(r) + 2) => entry[r].emitted
        BY <1>2, <2>1, <2>3 DEF TimelyInv, Timely
    <2>5. entry'[r].touched = 1
        BY <1>6, <2>4, SmallAges DEF Older
    <2>6. ASSUME Holds(r)
          PROVE  /\ entry'[r].first # Nothing
                 /\ entry'[r].first + 2 >= steady' \/ entry'[r].first = FirstCap
        <3>1. entry[r].first \in 0..FirstCap /\ entry'[r].first = Older(entry[r].first, FirstCap)
            BY <1>6, <2>4, <2>6 DEF Entry
        <3>2. entry'[r].first \in Nat
            BY <3>1, CapFacts DEF Older
        <3>3. entry[r].first + 2 >= steady \/ entry[r].first = FirstCap
            BY <2>4, <2>6
        <3>4. steady \in Nat /\ steady' \in Nat
            BY <1>4, CapFacts DEF Frame
        <3> QED
            BY <2>2, <3>1, <3>2, <3>3, <3>4, CapFacts, NothingFacts DEF Older
    <2>7. steady' >= DebounceOf(r) + 3 => Done(DebounceOf(r) + 2)
        <3>1. DebounceOf(r) \in 0..FirstCap
            BY CapFacts
        <3> QED
            BY <1>2, <1>4, <3>1, CapFacts DEF Done, Frame
    <2> QED
        BY <1>6, <2>4, <2>5, <2>6, <2>7
<1> QED
    BY <1>5, <1>7, <1>8, <1>9, <1>10

(* The reports reach the rule that the batch is for, and it keeps its promise. *)
LEMMA PollLndInv ==
    ASSUME Inv, NEW answered \in SUBSET Calls, NEW n \in 0..6, PollLnd(answered, n)
    PROVE  Inv'
<1> USE InvParts
<1> DEFINE full == answered = Calls /\ n = Len(batch(answered))
<1>1. /\ "lnd" \notin polled /\ polled' = polled \cup {"lnd"}
      /\ steady' = IF full THEN steady ELSE 0
      /\ UNCHANGED <<deployed, tip, synced, channel, online, btc>>
    BY DEF PollLnd, world
<1>2. /\ lnd' \in Maybe(View) /\ detail' \in Maybe(Detail)
      /\ channel = "none" => detail' = detail
      /\ full /\ deployed.feed = "poll" => lnd' = [height |-> synced, age |-> 0]
      /\ \/ NoneEvaluated
         \/ LagUnknown
         \/ Assessed("lag", Lags(lnd', btc), "Critical")
         \/ /\ channel \in {"active", "inactive"}
            /\ detail'.active = (channel = "active")
            /\ \E sev \in Severity : Assessed("inactive", ~detail'.active, sev)
      /\ full /\ deployed.feed = "poll" /\ comparable(lnd', btc) => Assessed("lag", Lags(lnd', btc), "Critical")
      /\ full /\ deployed.feed # "poll" /\ channel \in {"active", "inactive"} =>
            /\ detail'.active = (channel = "active")
            /\ \E sev \in Severity : Assessed("inactive", ~detail'.active, sev)
    BY PollCases
<1> HIDE DEF full
<1>3. Frame'
    <2>1. Collectors' = Collectors /\ "lnd" \in Collectors
        BY <1>1 DEF Collectors
    <2> QED
        BY <1>1, <1>2, <2>1, CapFacts DEF Frame
<1>4. Ledger' /\ (open'["inactive"] = open["inactive"] \/ channel \in {"active", "inactive"})
    <2>1. CASE NoneEvaluated
        BY <2>1 DEF NoneEvaluated, Ledger, RuleAndEngineAgree, OrphanInv, CalmInv
    <2>2. CASE LagUnknown
        BY <2>2 DEF LagUnknown, Ledger, RuleAndEngineAgree, OrphanInv, CalmInv, Rule
    <2>3. CASE Assessed("lag", Lags(lnd', btc), "Critical")
        <3>1. Lags(lnd', btc) \in BOOLEAN /\ "Critical" \in Severity /\ "lag" \in Rule
            BY DEF Lags, Severity, Rule
        <3>2. "inactive" \in Rule \ {"lag"}
            BY DEF Rule
        <3> QED
            BY <2>3, <3>1, <3>2, EvaluationFacts DEF Assessed, Inv
    <2>4. CASE /\ channel \in {"active", "inactive"} /\ detail'.active = (channel = "active")
               /\ \E sev \in Severity : Assessed("inactive", ~detail'.active, sev)
        BY <2>4, EvaluationFacts DEF Assessed, Rule, Inv
    <2> QED
        BY <1>2, <2>1, <2>2, <2>3, <2>4
<1>5. NoChannelInv'
    BY <1>1, <1>2, <1>4 DEF NoChannelInv
<1>6. CASE ~full
    BY <1>1, <1>3, <1>4, <1>5, <1>6, DisturbedInv
<1>7. CASE full
    <2>1. steady' = steady /\ "lnd" \in polled' /\ ("bitcoind" \in polled' <=> "bitcoind" \in polled)
        BY <1>1, <1>7
    <2>2. ReportInv'
        BY <1>1, <1>2, <1>7, <2>1 DEF ReportInv, IsEvaluated
    <2>3. ASSUME NEW r \in Rule, NEW bad \in BOOLEAN, NEW sev \in Severity, steady >= 2, Watches(r),
                 Assessed(r, bad, sev), bad <=> Holds(r)
          PROVE  /\ entry'[r] # Nothing
                 /\ entry'[r].touched = 0
                 /\ ~Holds(r) => ~entry'[r].emitted
                 /\ Holds(r) => /\ entry'[r].first # Nothing
                                /\ entry'[r].first + 2 >= steady \/ entry'[r].first = FirstCap
                                /\ steady >= DebounceOf(r) + 2 => entry'[r].emitted
        <3> DEFINE e == EntryOf(entry[r])
        <3>1. /\ entry'[r] # Nothing /\ entry'[r].touched = 0
              /\ ~bad => ~entry'[r].emitted
              /\ bad => /\ entry'[r].first = IF e.first = Nothing THEN 0 ELSE e.first
                        /\ entry'[r].first >= DebounceOf(r) => entry'[r].emitted
            BY <2>3, EvaluationFacts DEF Assessed, Inv
        <3>2. e \in Entry /\ (e = entry[r] \/ entry[r] = Nothing \/ entry[r].touched >= Retention)
            BY EntryOfFacts DEF Ledger
        <3> HIDE DEF e
        <3>3. e.first = Nothing \/ e.first \in 0..FirstCap
            BY <3>2 DEF Entry
        <3>4. steady \in Nat /\ DebounceOf(r) \in 0..FirstCap
            BY CapFacts DEF Frame
        <3>5. ASSUME Holds(r), steady > 2
              PROVE  e.first # Nothing /\ (e.first + 2 >= steady \/ e.first = FirstCap)
            <4>1. Done(2)
                BY <3>4, <3>5 DEF Done
            <4>2. /\ entry[r] # Nothing /\ entry[r].touched = 1 /\ entry[r].first # Nothing
                  /\ entry[r].first + 2 >= steady \/ entry[r].first = FirstCap
                BY <1>1, <2>3, <3>5, <4>1 DEF TimelyInv, Timely
            <4>3. e = entry[r]
                BY <3>2, <4>2, LightningAssumption
            <4> QED
                BY <4>2, <4>3
        <3>6. ASSUME Holds(r)
              PROVE  /\ entry'[r].first # Nothing
                     /\ entry'[r].first + 2 >= steady \/ entry'[r].first = FirstCap
                     /\ steady >= DebounceOf(r) + 2 => entry'[r].emitted
            <4>1. entry'[r].first = IF e.first = Nothing THEN 0 ELSE e.first
                BY <2>3, <3>1, <3>6
            <4>2. entry'[r].first >= DebounceOf(r) => entry'[r].emitted
                BY <2>3, <3>1, <3>6
            <4>3. entry'[r].first \in 0..FirstCap
                BY <3>3, <4>1, CapFacts
            <4>4. entry'[r].first + 2 >= steady \/ entry'[r].first = FirstCap
                BY <2>3, <3>4, <3>5, <3>6, <4>1, <4>3, CapFacts
            <4> QED
                BY <3>4, <4>2, <4>3, <4>4, CapFacts, NothingFacts
        <3> QED
            BY <2>3, <3>1, <3>6
    <2>4. ASSUME Watches("lag"), steady >= 2
          PROVE  Assessed("lag", Lags(lnd', btc), "Critical") /\ (Lags(lnd', btc) <=> Holds("lag"))
        <3>1. IsEvaluated("lag") /\ deployed.bitcoind /\ deployed.feed = "poll"
            BY <2>4 DEF Watches, IsEvaluated
        <3>2. lnd' = [height |-> synced, age |-> 0]
            BY <1>2, <1>7, <3>1
        <3>3. \E a \in {0, 1} : btc = [height |-> tip, age |-> a]
            BY <2>4, <3>1 DEF ReportInv, Frame
        <3> QED
            BY <1>2, <1>7, <3>1, <3>2, <3>3, LagFacts
    <2>5. ASSUME Watches("inactive")
          PROVE  /\ \E sev \in Severity : Assessed("inactive", ~detail'.active, sev)
                 /\ ~detail'.active <=> Holds("inactive")
        <3>1. deployed.feed # "poll" /\ channel \in {"active", "inactive"}
            BY <2>5 DEF Watches, IsEvaluated
        <3> QED
            BY <1>2, <1>7, <3>1 DEF Holds, Inactive
    <2>6. ASSUME NEW r \in Rule, steady >= 2, Watches(r)
          PROVE  /\ entry'[r] # Nothing
                 /\ entry'[r].touched = 0
                 /\ ~Holds(r) => ~entry'[r].emitted
                 /\ Holds(r) => /\ entry'[r].first # Nothing
                                /\ entry'[r].first + 2 >= steady \/ entry'[r].first = FirstCap
                                /\ steady >= DebounceOf(r) + 2 => entry'[r].emitted
        <3>1. CASE r = "lag"
            <4> DEFINE bad == Lags(lnd', btc)
            <4>1. bad \in BOOLEAN /\ "Critical" \in Severity
                BY DEF Lags, Severity
            <4>2. Assessed(r, bad, "Critical") /\ (bad <=> Holds(r))
                BY <2>4, <2>6, <3>1
            <4> HIDE DEF bad
            <4> QED
                BY <2>3, <2>6, <4>1, <4>2
        <3>2. CASE r = "inactive"
            <4> DEFINE bad == ~detail'.active
            <4>1. bad \in BOOLEAN
                OBVIOUS
            <4>2. (\E sev \in Severity : Assessed(r, bad, sev)) /\ (bad <=> Holds(r))
                BY <2>5, <2>6, <3>2
            <4> HIDE DEF bad
            <4> QED
                BY <2>3, <2>6, <4>1, <4>2
        <3> QED
            BY <3>1, <3>2 DEF Rule
    <2>7. \A r \in Rule : /\ Watches(r)' <=> Watches(r)
                          /\ Holds(r)' <=> Holds(r)
                          /\ DebounceOf(r)' = DebounceOf(r) /\ DebounceOf(r) \in Nat
        BY <1>1, CapFacts DEF Watches, IsEvaluated, Holds, Behind, Inactive, DebounceOf
    <2>8. steady \in Nat /\ \A k \in Nat : Done(k)' <=> steady >= k
        BY <1>3, <2>1, CapFacts DEF Done, Frame
    <2>9. TimelyInv'
        BY <2>1, <2>6, <2>7, <2>8 DEF TimelyInv, Timely
    <2> QED
        BY <1>3, <1>4, <1>5, <2>2, <2>9
<1> QED
    BY <1>6, <1>7

(* Every step keeps the invariant. *)
LEMMA NextInv ==
    ASSUME Inv, [Next]_vars
    PROVE  Inv'
<1>1. CASE WorldChanges
    BY <1>1, WorldChangesInv
<1>2. CASE Tick
    BY <1>2, TickInv
<1>3. CASE Restart
    BY <1>3, RestartInv
<1>4. CASE \E answered \in SUBSET Calls, n \in 0..6 : PollLnd(answered, n)
    BY <1>4, PollLndInv
<1>5. CASE \E ok \in BOOLEAN : PollBitcoind(ok)
    BY <1>5, PollBitcoindInv
<1>6. CASE UNCHANGED vars
    <2>1. /\ UNCHANGED <<deployed, tip, synced, channel, online, lnd, btc, detail, entry, open, polled>>
          /\ UNCHANGED <<calm, steady, orphan>>
        BY <1>6 DEF vars, world, views, history
    <2> QED
        BY <2>1 DEF Inv, TypeOK, Collectors, RuleAndEngineAgree, OrphanInv, CalmInv, NoChannelInv,
                    ReportInv, TimelyInv, Timely, Watches, IsEvaluated, Done, Holds, Behind, Inactive,
                    DebounceOf
<1> QED
    BY <1>1, <1>2, <1>3, <1>4, <1>5, <1>6 DEF Next

(* The inductive invariant holds of every behaviour. *)
THEOREM Invariant == Spec => []Inv
BY InitInv, NextInv, PTL DEF Spec

(* What a rule holds for open and what the engine has open are the same,    *)
(* whatever polls fail, whatever is pruned and whenever it is restarted,    *)
(* unless the rule forgot.                                                  *)
THEOREM RulesAndEngineAgree == Spec => []RuleAndEngineAgree
<1>1. Inv => RuleAndEngineAgree
    BY DEF Inv
<1> QED
    BY Invariant, <1>1, PTL

(* An incident opens only after a whole debounce without a good report. *)
THEOREM DebounceIsKept == Spec => Debounced
<1>1. Inv /\ [Next]_vars =>
          [\A r \in Rule : open[r] = Nothing /\ open'[r] # Nothing => calm[r] >= DebounceOf(r)]_vars
    <2> SUFFICES ASSUME Inv, Next
                 PROVE  \A r \in Rule : open[r] = Nothing /\ open'[r] # Nothing => calm[r] >= DebounceOf(r)
        OBVIOUS
    <2> USE InvParts
    <2>1. CASE UNCHANGED open
        BY <2>1
    <2>2. CASE \E answered \in SUBSET Calls, n \in 0..6 : PollLnd(answered, n)
        <3>1. PICK answered \in SUBSET Calls, n \in 0..6 : PollLnd(answered, n)
            BY <2>2
        <3>2. \/ NoneEvaluated
              \/ LagUnknown
              \/ Assessed("lag", Lags(lnd', btc), "Critical")
              \/ /\ channel \in {"active", "inactive"}
                 /\ detail'.active = (channel = "active")
                 /\ \E sev \in Severity : Assessed("inactive", ~detail'.active, sev)
            BY <3>1, PollCases
        <3>3. CASE NoneEvaluated \/ LagUnknown
            BY <3>3 DEF NoneEvaluated, LagUnknown
        <3>4. \A r \in Rule, bad \in BOOLEAN, sev \in Severity : Assessed(r, bad, sev) =>
                  /\ \A q \in Rule \ {r} : open'[q] = open[q]
                  /\ open[r] = Nothing /\ open'[r] # Nothing => calm[r] >= DebounceOf(r)
            BY EvaluationFacts DEF Assessed, Inv
        <3>5. CASE Assessed("lag", Lags(lnd', btc), "Critical")
            <4>1. Lags(lnd', btc) \in BOOLEAN /\ "Critical" \in Severity /\ "lag" \in Rule
                BY DEF Lags, Severity, Rule
            <4> QED
                BY <3>4, <3>5, <4>1
        <3>6. CASE \E sev \in Severity : Assessed("inactive", ~detail'.active, sev)
            <4> DEFINE bad == ~detail'.active
            <4>1. bad \in BOOLEAN /\ "inactive" \in Rule
                BY DEF Rule
            <4>2. \E sev \in Severity : Assessed("inactive", bad, sev)
                BY <3>6
            <4> HIDE DEF bad
            <4> QED
                BY <3>4, <4>1, <4>2
        <3> QED
            BY <3>2, <3>3, <3>5, <3>6
    <2> QED
        BY <2>1, <2>2 DEF Next, WorldChanges, Tick, Restart, PollBitcoind
<1> QED
    BY Invariant, <1>1, PTL DEF Spec, Debounced

(* While nothing changes and nothing fails, a condition that lasts is       *)
(* reported, and one that is over resolved, within three poll intervals of  *)
(* when the debounce allows it.                                             *)
THEOREM ReportsAreInTime == Spec => []InTime
<1>1. Inv => InTime
    <2> SUFFICES ASSUME Inv, NEW r \in Rule, IsEvaluated(r)
                 PROVE  /\ Holds(r) /\ steady >= DebounceOf(r) + 3 => open[r] # Nothing
                        /\ ~Holds(r) /\ channel # "closed" /\ steady >= 3 => open[r] = Nothing \/ orphan[r]
        BY DEF InTime
    <2> USE InvParts
    <2>1. steady \in Nat /\ DebounceOf(r) \in Nat
        BY CapFacts DEF Frame
    <2>2. ASSUME Holds(r), steady >= DebounceOf(r) + 3
          PROVE  open[r] # Nothing
        <3>1. Watches(r)
            BY <2>2 DEF Watches, Holds, Inactive
        <3>2. Done(2) /\ Done(DebounceOf(r) + 2)
            BY <2>1, <2>2 DEF Done
        <3>3. entry[r] # Nothing /\ entry[r].emitted
            BY <2>2, <3>1, <3>2 DEF TimelyInv, Timely
        <3> QED
            BY <3>3 DEF Ledger, RuleAndEngineAgree
    <2>3. ASSUME ~Holds(r), channel # "closed", steady >= 3
          PROVE  open[r] = Nothing \/ orphan[r]
        <3>1. CASE Watches(r)
            <4>1. Done(2)
                BY <2>1, <2>3 DEF Done
            <4>2. ~(entry[r] # Nothing /\ entry[r].emitted)
                BY <2>3, <3>1, <4>1 DEF TimelyInv, Timely
            <4> QED
                BY <4>2 DEF Ledger, RuleAndEngineAgree
        <3>2. CASE ~Watches(r)
            BY <2>3, <3>2 DEF Watches, NoChannelInv, Frame
        <3> QED
            BY <3>1, <3>2
    <2> QED
        BY <2>2, <2>3
<1> QED
    BY Invariant, <1>1, PTL
=============================================================================
