----------------------------- MODULE BitcoinRpc -----------------------------
(***************************************************************************)
(* One call of Bitcoin Core's JSON-RPC                                     *)
(* (src/collectors/bitcoin_core/rpc_client.rs): what BitcoinRpcClient::call*)
(* makes of everything that can come back, and how a result becomes the    *)
(* state of an observation (src/collectors/bitcoin_core/rpc.rs).           *)
(*                                                                         *)
(* Every call has an id of its own, from a counter that all calls share.   *)
(* An answer says which call it belongs to, so that the answer to an       *)
(* earlier call, which a broken proxy or a confused connection may         *)
(* deliver, can be told from the one that was asked for.                   *)
(***************************************************************************)
EXTENDS Integers

Absent == -1

(* The results, as far as a rule reads them; an optional number may be      *)
(* Absent, an optional flag "absent".                                       *)
Flag == {"true", "false", "absent"}

GetBlockchainInfoResponse == [blocks : Nat, headers : Nat, verificationprogress : 0..2,
                              initialblockdownload : Flag]
GetNetworkInfoResponse    == [connections_out : Nat \cup {Absent}, networkactive : Flag]
PeerInfoEntries           == [inbound : Nat, outbound : Nat]   \* how many of each

(* initialblockdownload is #[serde(default)]: an absent flag is false. *)
blockchain_state(r) ==
    [blocks |-> r.blocks, headers |-> r.headers, progress |-> r.verificationprogress,
     ibd |-> r.initialblockdownload = "true"]

network_state(r) == [out |-> r.connections_out, active |-> r.networkactive]

peer_summary_state(r) == [peer_count |-> r.inbound + r.outbound, outbound_count |-> r.outbound]

(* What comes back.                                                         *)
(*   cookie  the credentials: configured, or a cookie file that can be read *)
(*           and has a colon                                                *)
(*   wire    whether something comes back at all, and within the timeout    *)
(*   body    whether it ends, and reads as an envelope of this method       *)
(*   id      the call whose id it carries                                   *)
Reply == [cookie : BOOLEAN, wire : {"up", "refused", "silent"},
          status : {"200", "401", "403", "500"}, body : {"envelope", "cut", "junk"},
          id : {"own", "earlier", "missing"}, error : BOOLEAN, result : BOOLEAN]

Answer == [cookie |-> TRUE, wire |-> "up", status |-> "200", body |-> "envelope",
           id |-> "own", error |-> FALSE, result |-> TRUE]

resolve_auth(r) == r.cookie

(* BitcoinRpcClient::call, in the order of its returns. *)
call(r) ==
    IF ~resolve_auth(r)                 THEN "Auth"
    ELSE IF r.wire = "silent"           THEN "Timeout"
    ELSE IF r.wire = "refused"          THEN "Network"
    ELSE IF r.status \in {"401", "403"} THEN "Auth"
    ELSE IF r.status # "200"            THEN "HttpStatus"
    ELSE IF r.body = "cut"              THEN "Network"
    ELSE IF r.body = "junk"             THEN "Decode"
    ELSE IF r.id # "own"                THEN "IdMismatch"
    ELSE IF r.error \/ ~r.result        THEN "BitcoindError"
    ELSE "Ok"
=============================================================================
