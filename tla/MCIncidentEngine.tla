-------------------------- MODULE MCIncidentEngine --------------------------
(* Instances of IncidentEngine for TLC. *)
EXTENDS IncidentEngine

CONSTANTS f1, f2

TwoFingerprints == {f1, f2}
OneFingerprint  == {f1}
OneFloor        == [f \in {f1} |-> "Medium"]
TwoFloors       == [f \in {f1, f2} |-> IF f = f1 THEN "Medium" ELSE "Low"]
=============================================================================
