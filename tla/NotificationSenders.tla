------------------------- MODULE NotificationSenders -------------------------
(***************************************************************************)
(* How the three senders of src/notifications/targets turn the reply of a  *)
(* chat service into a DeliveryOutcome, and what that reply says about the *)
(* message itself.  A reply is abstracted to what the code tests: whether  *)
(* send() returned a response, the class of its HTTP status, the class of  *)
(* its body, the error_code of a Telegram error envelope and whether its   *)
(* retry_after is beyond what chrono::Duration::seconds can hold.          *)
(***************************************************************************)

Status  == {"2xx", "401", "403", "404", "410", "429", "4xx", "5xx", "other"}
Body    == {"cut", "junk", "ok", "okWithoutId", "error"}
Code    == {"401", "403", "4xx", "429", "5xx", "other"}
Outcome == {"Delivered", "Transient", "Permanent"}

Reply == [responded : BOOLEAN, status : Status, body : Body, code : Code,
          hugeRetryAfter : BOOLEAN]

(* TelegramSender::do_send: a 5xx is upstream whatever the body says, then   *)
(* the JSON envelope decides.  "panic": Duration::seconds overflows.         *)
telegram(r) ==
    IF ~r.responded \/ r.body = "cut"          THEN "Transient"
    ELSE IF r.status = "5xx"                   THEN "Transient"
    ELSE IF r.body \in {"junk", "okWithoutId"} THEN "Transient"
    ELSE IF r.body = "ok"                      THEN "Delivered"
    ELSE IF r.hugeRetryAfter                   THEN "panic"
    ELSE IF r.code \in {"401", "403", "4xx"}   THEN "Permanent"
    ELSE "Transient"

(* Slip: any 2xx of Discord counts as delivered. *)
DiscordTrusts2xx(r) ==
    IF ~r.responded                                          THEN "Transient"
    ELSE IF r.status = "2xx"                                 THEN "Delivered"
    ELSE IF r.status \in {"401", "403", "404", "410", "4xx"} THEN "Permanent"
    ELSE "Transient"

(* DiscordSender::do_send: a body that cannot be read counts as empty, and   *)
(* a 2xx that does not carry the created message is not a delivery.          *)
discord(r) ==
    IF ~r.responded                                          THEN "Transient"
    ELSE IF r.status = "2xx" /\ r.body = "ok"                THEN "Delivered"
    ELSE IF r.status \in {"401", "403", "404", "410", "4xx"} THEN "Permanent"
    ELSE "Transient"

(* WebhookSender::do_send: the status alone decides, the body is not read. *)
webhook(r) ==
    IF ~r.responded                                          THEN "Transient"
    ELSE IF r.status = "2xx"                                 THEN "Delivered"
    ELSE IF r.status \in {"401", "403", "404", "410", "4xx"} THEN "Permanent"
    ELSE "Transient"

send(kind, r) ==
    CASE kind = "telegram" -> telegram(r)
      [] kind = "discord"  -> discord(r)
      [] kind = "webhook"  -> webhook(r)

(***************************************************************************)
(* The services, outside this repository.  Arrival(kind, r) is the set of  *)
(* answers reply r leaves open to "did the message arrive?": a service     *)
(* that answers in its own protocol says so truthfully, and silence, a cut *)
(* or foreign body and a 5xx leave it open.                                *)
(***************************************************************************)
Accepts(kind, r) ==
    /\ r.responded
    /\ CASE kind = "telegram" -> r.body \in {"ok", "okWithoutId"}
         [] kind = "discord"  -> r.status = "2xx" /\ r.body = "ok"
         [] kind = "webhook"  -> r.status = "2xx"

Refuses(kind, r) ==
    /\ r.responded
    /\ IF kind = "telegram" THEN r.body = "error" /\ r.status # "5xx"
       ELSE r.status \in {"401", "403", "404", "410", "429", "4xx"}

Arrival(kind, r) ==
    IF Accepts(kind, r) THEN {TRUE}
    ELSE IF Refuses(kind, r) THEN {FALSE} ELSE BOOLEAN

(* What one send can come to: its outcome, and whether the message arrived. *)
TargetKind == {"telegram", "discord", "webhook"}

Results == [k \in TargetKind |->
    UNION {{[outcome |-> send(k, r), arrived |-> a] : a \in Arrival(k, r)} : r \in Reply}]
=============================================================================
