-------------------------- MODULE MCNodeDiagnosis --------------------------
(* Instances of NodeDiagnosis for TLC. *)
EXTENDS NodeDiagnosis

(* The gap between headers and blocks is none, one less than the limit of    *)
(* the rules, and the limit.                                                 *)
Blockchain(blocks, progress, ibd) ==
    [blocks |-> blocks, headers |-> 5000, verificationprogress |-> progress,
     initialblockdownload |-> ibd]

AtTip     == Blockchain(5001, 2, "false")
TipLag    == Blockchain(4001, 2, "true")
Syncing   == Blockchain(4000, 0, "true")
SyncingOn == Blockchain(4000, 1, "true")

Connected  == [networkactive |-> "true", connections_out |-> 1]
Lonely     == [networkactive |-> "true", connections_out |-> 0]
Disabled   == [networkactive |-> "false", connections_out |-> 0]
OldVersion == [networkactive |-> "true", connections_out |-> Absent]

ManyPeers == [inbound |-> 0, outbound |-> 8]
NoPeers   == [inbound |-> 7, outbound |-> 0]

(* What comes back when something is wrong. *)
NoCookie  == [Answer EXCEPT !.cookie = FALSE]
Refused   == [Answer EXCEPT !.wire = "refused"]
Silent    == [Answer EXCEPT !.wire = "silent"]
Forbidden == [Answer EXCEPT !.status = "403"]
Failing   == [Answer EXCEPT !.status = "500"]
Cut       == [Answer EXCEPT !.body = "cut"]
Junk      == [Answer EXCEPT !.body = "junk"]
Earlier   == [Answer EXCEPT !.id = "earlier"]
Error     == [Answer EXCEPT !.error = TRUE, !.result = FALSE]
NoResult  == [Answer EXCEPT !.result = FALSE]

Replies(b, m, n, p) == [blockchain |-> b, mempool |-> m, network |-> n, peers |-> p]

AllAnswer == Replies(Answer, Answer, Answer, Answer)
Down      == Replies(Refused, Silent, NoCookie, Forbidden)

(* Every condition of the peers, batches that waited behind one another, restarts. *)
PeerSetting ==
    [chains |-> {AtTip}, networks |-> {Connected, Lonely, Disabled, OldVersion},
     peerSets |-> {ManyPeers, NoPeers},
     replies |-> {AllAnswer, Down, Replies(Failing, Answer, Answer, Earlier)}, failAt |-> {1},
     debounce |-> 2, flatWindow |-> 1, retention |-> 3, gaps |-> {0, 1},
     stepBack |-> 1, restarts |-> TRUE]

(* Every condition of the chain, polls at regular intervals, no restart. *)
ChainSetting ==
    [chains |-> {AtTip, TipLag, Syncing, SyncingOn}, networks |-> {Connected, Lonely},
     peerSets |-> {ManyPeers},
     replies |-> {AllAnswer, Down, Replies(Silent, Answer, Answer, Answer),
                  Replies(Answer, Cut, Error, NoResult)}, failAt |-> {1},
     debounce |-> 1, flatWindow |-> 2, retention |-> 2, gaps |-> {1},
     stepBack |-> 1, restarts |-> FALSE]

(* The least in which an incident opens: all calls answer or none does. *)
SmallSetting ==
    [chains |-> {AtTip, TipLag}, networks |-> {Connected, Lonely},
     peerSets |-> {ManyPeers}, replies |-> {AllAnswer, Replies(Junk, Junk, Junk, Junk)},
     failAt |-> {}, debounce |-> 1, flatWindow |-> 1, retention |-> 2, gaps |-> {1},
     stepBack |-> 0, restarts |-> FALSE]

PeersAndChain == [peers |-> PeerSetting, chain |-> ChainSetting]
Small         == [small |-> SmallSetting]
SmallRestarts == [small |-> [SmallSetting EXCEPT !.restarts = TRUE]]
=============================================================================
