----------------------------- MODULE MCStorage -----------------------------
(* An instance of Storage for TLC. *)
EXTENDS Storage

Sidecar == Entity("sidecar", <<"a">>)
Lnd     == Entity("lnd_node", <<"a">>)
(* A channel of a node whose configured id contains a slash. *)
Channel == ScopedEntity("lnd_channel", <<"a", Slash, "a">>, <<"0">>)

UuidTexts == {<<"a">>}

OfLnd     == Context(Lnd, "Collected")
OfSidecar == Context(Sidecar, "Computed")
OfChannel == Context(Channel, "Imported")

Name     == <<"a", Dot, "a">>
LongName == <<"a", "a", Dot, "a", "0">>   \* no room for the suffix of a signal

NodeState    == state(OfLnd, "LndNode")
WalletState  == state(OfLnd, "LndWallet")
ChannelState == state(OfChannel, "LndChannel")
Height(v)    == metric(OfLnd, Name, v)
Beat         == heartbeat(OfSidecar, "Alive")
Grpc         == capability(Context(Lnd, "UserReported"), Name, "Available")
Checked      == health(OfLnd, Name, "Ok")
Lag(s)       == incident_signal(Context(Lnd, "Computed"), Name, s)
LongLag      == incident_signal(Context(Lnd, "Computed"), LongName, "Active")

(* Payloads the read models ignore. *)
Others == {event(OfSidecar, Name), inventory(OfLnd, Name), transition(OfLnd, Name),
           diagnosis(OfLnd, Name)}

Bare(facts, limit) ==
    [facts |-> facts, limit |-> limit, incidents |-> FALSE, spawned |-> FALSE,
     notices |-> {}, sends |-> 0, outcomes |-> {}, asked |-> {},
     observations |-> Nothing, resolved |-> Nothing, attempts |-> Nothing]

Send(lifecycle, sink) == [rule |-> "r", lifecycle |-> lifecycle, sink |-> sink]

(* Three observations of two kinds of things, with nothing deleted... *)
Observing ==
    {Bare(pair, 3) : pair \in
        {{NodeState, WalletState}, {Height(0), Height(1)}, {Beat, Grpc},
         {ChannelState, Checked}, {Lag("Active"), Lag("Cleared")}}}
    \cup {Bare(Others, 1), Bare({LongLag, Lag("Active")}, 2)}

(* ...two observations with their incident, which the sweep deletes while   *)
(* the operator asks for the evidence or the worker completes an attempt... *)
Swept == [Bare({NodeState, Height(0)}, 2) EXCEPT
            !.incidents = TRUE, !.spawned = TRUE,
            !.observations = 1, !.resolved = 0, !.attempts = 0]

Evidence  == [Swept EXCEPT !.asked = {"evidence"}]
Asking    == [Swept EXCEPT !.asked = {"health", "open", "detail"}, !.limit = 1]
Notifying == [Swept EXCEPT !.notices = {Send("Opened", "Discord")}, !.sends = 2, !.limit = 1,
                           !.outcomes = {"Delivered"}]

(* ...and two notifications of every kind, with whatever outcome. *)
Audited == [Bare({Beat}, 1) EXCEPT
            !.incidents = TRUE, !.sends = 2,
            !.notices = {Send("Opened", "Telegram"), Send("Escalated", "Discord"),
                         Send("Resolved", "Webhook")},
            !.outcomes = {"Delivered", "Transient", "Permanent"}]

(* As main starts the program: ages are configured and nothing sweeps. *)
Started == [Swept EXCEPT !.spawned = FALSE, !.limit = 1, !.asked = {"evidence"}]

Instances == Observing \cup {Evidence, Asking, Notifying, Audited, Started}
=============================================================================
