---------------------------- MODULE MCBootstrap ----------------------------
(* Instances of Bootstrap for TLC. *)
EXTENDS Bootstrap, TLC

Str(text) == [type |-> "string", text |-> text]
Yes       == [type |-> "boolean", text |-> "true"]

Required == [sidecar |-> [id_file |-> Str("path")], storage |-> [db_path |-> Str("path")]]

Bitcoind(id, secret) == [kind |-> "bitcoin_node", id |-> id, secret |-> secret, url |-> TRUE]
Lnd(id)              == [kind |-> "lnd_node", id |-> id, secret |-> "s1", url |-> TRUE]
Polls(id, target, integration) ==
    [id |-> id, kind |-> "bitcoin_node", target |-> target, integration |-> integration]
Webhook(id, kinds)   == [id |-> id, secret |-> "s2", kinds |-> kinds]

(* One node with a password, its collector and a webhook rule. *)
Sample ==
    [tables |-> Required, nested |-> {"password_env"},
     nodes |-> <<Bitcoind("n1", "s1")>>,
     collectors |-> <<Polls("c1", "n1", "bitcoin_core_rpc")>>,
     rules |-> <<Webhook("r1", <<NodeKind>>)>>, telegram |-> NoSecret]

Given(file) == [x \in Path |-> IF x = "given" THEN file ELSE Nothing]

Usual ==
    [given |-> TRUE, files |-> Given(Sample), overrides |-> {},
     secrets |-> [p \in Proc |-> {"s1", "s2"}], catalog |-> Nothing]

With(doc) == [Usual EXCEPT !.files = Given(doc)]

Sets(section, key, text, spelling) ==
    [section |-> section, key |-> key, text |-> text, spelling |-> spelling]
Overriding(tables, variables) ==
    [With([Sample EXCEPT !.tables = tables @@ Required]) EXCEPT !.overrides = variables]

(* What the documents may get wrong, one at a time, and what they may leave out. *)
Documents ==
    { Sample,
      [Sample EXCEPT !.nested = {"password"}],
      [Sample EXCEPT !.nodes = <<Bitcoind("n1", NoSecret), Lnd("n1")>>],
      [Sample EXCEPT !.nodes = <<Bitcoind("n1", "s1"), Bitcoind("n1", "s1")>>],
      [Sample EXCEPT !.nodes = <<[Bitcoind("n1", "s1") EXCEPT !.url = FALSE]>>],
      [Sample EXCEPT !.nodes = <<Lnd("n1")>>],
      [Sample EXCEPT !.nodes = <<Lnd("n1")>>, !.collectors[1].kind = "lnd_node"],
      [Sample EXCEPT !.nodes = <<Bitcoind("n1", "s1"), Lnd("n2")>>,
                     !.collectors = <<Polls("c1", "n1", "bitcoin_core_rpc"),
                                      [Polls("c2", "n2", "lnd_grpc_poll") EXCEPT !.kind = "lnd_node"]>>],
      [Sample EXCEPT !.collectors = <<Polls("c1", "n1", "bitcoin_core_rpc"),
                                      Polls("c2", "n1", "bitcoin_core_zmq")>>],
      [Sample EXCEPT !.collectors = <<Polls("c1", "n1", "bitcoin_core_rpc"),
                                      Polls("c1", "n1", "bitcoin_core_rpc")>>],
      [Sample EXCEPT !.rules = <<Webhook("r1", <<>>), Webhook("r1", <<>>)>>],
      [Sample EXCEPT !.rules = <<[id |-> "r1", secret |-> NoSecret, kinds |-> <<>>]>>,
                     !.telegram = "s1"] }

Texts ==
    { <<>>, <<"a">>, <<"a", ".">>, <<".", "a">>, <<"a", ".", "0">>, <<"a", ".", "X">>,
      <<"0", ".", "a">>, <<"a", ".", ".", "a">>, <<"a", "0", ".", "a", "0">>,
      <<"a", ".", "a", ".", "a">>, <<"a", ".", "a", "a", "a", "a">> }

UserKind(name, subjects) ==
    [name |-> name, subjects |-> subjects, dimension |-> TRUE, floor |-> "Low"]

(* The document names the user's kinds. *)
Kinds      == [incidents |-> [kinds_config_path |-> Str("kinds.toml")]]
Adding(c)  == [With([Sample EXCEPT !.tables = Kinds @@ Required]) EXCEPT !.catalog = c]

Catalogs ==
    {<<UserKind(t, {"Host"})>> : t \in Texts} \cup
    { Broken, <<>>,
      <<UserKind(<<"a", ".", "a", "0">>, {"Unknown"})>>,
      <<UserKind(<<"a", ".", "a", "0">>, {"Host"}), UserKind(NodeKind, {"Host"})>>,
      <<UserKind(<<"a", ".", "a", "0">>, {"Host"}), UserKind(<<"a", ".", "a", "0">>, {"Host"})>> }

Api == [api |-> [enabled |-> Yes]]

Variables ==
    { Overriding(<<>>, {Sets("runtime", "channel_capacity", "42", "upper"),
                        Sets("sidecar", "log_level", "debug", "upper")}),
      Overriding(<<>>, {Sets("runtime", "channel_capacity", "0", "upper")}),
      Overriding(Api, {Sets("api", "enabled", "true", "upper"),
                       Sets("runtime", "channel_capacity", "42", "upper")}),
      Overriding(Api, {Sets("api", "enabled", "true", "upper"),
                       Sets("api", "enabled", "42", "lower")}),
      Overriding(<<>>, {Sets("api", "enabled", "true", "upper")}),
      Overriding(<<>>, {Sets("sidecar", "log_level", "42", "upper"),
                        Sets("sidecar", "color", "true", "upper")}),
      Overriding(<<>>, {Sets("api", "bind", Loopback, "upper")}),
      Overriding(Api, {Sets("api", "bind", "debug", "upper")}),
      Overriding(<<>>, {Sets("storage", "retention", "42", "upper")}),
      Overriding(<<>>, {Sets("node", "password", "debug", "upper")}),
      Overriding(<<>>, {Sets("runtime", "shutdown_deadline_seconds", "42", "upper"),
                        Sets("api", "bind", Loopback, "upper")}),
      Overriding(<<>>, {Sets("notifications", "telegram", "debug", "upper")}),
      [Overriding(Kinds, {Sets("incidents", "kinds_config_path", "mine.toml", "upper")})
          EXCEPT !.catalog = <<UserKind(<<"a", ".", "a", "0">>, {"Host"})>>],
      [Overriding(<<>>, {Sets("incidents", "kinds_config_path", "mine.toml", "upper")})
          EXCEPT !.catalog = Broken],
      Overriding(<<>>, {Sets("collectors", "c1", "true", "upper"),
                        Sets("bitcoin_nodes", "n1", "true", "upper"),
                        Sets("notification_rules", "r1", "true", "upper")}),
      Overriding(<<>>, {Sets("hosts", "h1", "true", "upper")}) }

AllDeployments ==
    {With(d) : d \in Documents}
    \cup {With([Sample EXCEPT !.rules = <<Webhook("r1", <<NodeKind, t>>)>>]) : t \in Texts}
    \cup {Adding(c) : c \in Catalogs}
    \cup Variables
    \cup {[Usual EXCEPT !.secrets["check"] = {}], [Usual EXCEPT !.secrets["service"] = {"s1"}]}
    \cup {[Usual EXCEPT !.given = FALSE, !.files = [x \in Path |-> f[x]]] :
             f \in {[given |-> Sample, local |-> Broken, system |-> Sample],
                   [given |-> Sample, local |-> Nothing, system |-> Sample],
                   [given |-> Sample, local |-> Nothing, system |-> Nothing]}}

(* For the torn id file. *)
OnlyUsual == {Usual}
=============================================================================
