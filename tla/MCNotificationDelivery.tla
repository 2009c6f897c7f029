----------------------- MODULE MCNotificationDelivery -----------------------
(* Small instances of NotificationDelivery. *)
EXTENDS NotificationDelivery

CONSTANTS k1, k2

RuleFor(kinds, min, sink, bad) ==
    [enabled |-> TRUE, kinds |-> kinds, min |-> min, target |-> sink, badHeader |-> bad]

(* every sink works: one rule for both kinds, one for each *)
AllSinks ==
    [rules |-> << RuleFor({}, "Critical", "discord", FALSE),
                  RuleFor({k2}, "Warning", "telegram", FALSE),
                  RuleFor({k1}, "Critical", "webhook", FALSE) >>,
     sinks |-> {"telegram", "discord"}, capacity |-> 2]

(* a Discord rule, and two that cannot be sent: a webhook rule with a        *)
(* malformed header and a Telegram rule without the [notifications.telegram] *)
(* section, which the configuration may leave out                            *)
BrokenSinks ==
    [rules |-> << RuleFor({}, "Warning", "discord", FALSE),
                  RuleFor({k1}, "Critical", "webhook", TRUE),
                  RuleFor({k2}, "Critical", "telegram", FALSE) >>,
     sinks |-> {"discord"}, capacity |-> 1]

Both == {AllSinks, BrokenSinks}
=============================================================================
