--------------------------- MODULE IncidentLedger ---------------------------
(***************************************************************************)
(* What the incident subsystem promises whoever reads its table (the HTTP  *)
(* API, the operator, the next boot): a ledger of incidents in which every *)
(* entry is opened once, only gets worse while it is open, is resolved     *)
(* once and for all, and in which no condition has two open entries.       *)
(* Memory, retries, crashes and boots are invisible at this level.         *)
(***************************************************************************)
EXTENDS Integers

CONSTANTS Fingerprint, Id, NoEntry

VARIABLE ledger

Entry == [fingerprint : Fingerprint, rank : 0..2, status : {"Open", "Resolved"}]

IsOpen(i) == ledger[i] # NoEntry /\ ledger[i].status = "Open"

Init == ledger = [i \in Id |-> NoEntry]

(* A condition that has no open entry gets one. *)
Open(i, f, r) ==
    /\ ledger[i] = NoEntry
    /\ \A j \in Id : IsOpen(j) => ledger[j].fingerprint # f
    /\ ledger' = [ledger EXCEPT ![i] =
                    [fingerprint |-> f, rank |-> r, status |-> "Open"]]

(* An open entry gets worse. *)
Escalate(i, r) ==
    /\ IsOpen(i)
    /\ r > ledger[i].rank
    /\ ledger' = [ledger EXCEPT ![i].rank = r]

(* An open entry is resolved at the severity it had. *)
Resolve(i) ==
    /\ IsOpen(i)
    /\ ledger' = [ledger EXCEPT ![i].status = "Resolved"]

Next ==
    \E i \in Id :
        \/ \E f \in Fingerprint, r \in 0..2 : Open(i, f, r)
        \/ \E r \in 0..2 : Escalate(i, r)
        \/ Resolve(i)

Spec == Init /\ [][Next]_ledger
=============================================================================
