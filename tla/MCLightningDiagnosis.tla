------------------------ MODULE MCLightningDiagnosis ------------------------
(* Instances of LightningDiagnosis for TLC. *)
EXTENDS LightningDiagnosis

LagOnly  == [bitcoind |-> TRUE, channel |-> "none", feed |-> "poll"]
Public   == [bitcoind |-> FALSE, channel |-> "public", feed |-> "channel"]
Private  == [bitcoind |-> FALSE, channel |-> "private", feed |-> "channel"]
Polled   == [bitcoind |-> FALSE, channel |-> "public", feed |-> "poll"]

AllDeployments == {LagOnly, Public, Private, Polled}
OnlyLag        == {LagOnly}
=============================================================================
