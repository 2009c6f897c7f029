----------------------------- MODULE Bootstrap -----------------------------
(***************************************************************************)
(* From the command line to a running sidecar: run and boot_runtime of     *)
(* src/main.rs, the loader of src/config, the collectors and the node      *)
(* registry of src/runtime/bootstrap.rs and the incident-kind registry of  *)
(* src/incidents/kinds.rs.                                                 *)
(*                                                                         *)
(* Two processes share the id file and the database: the service, which    *)
(* may be stopped anywhere and is started again, and a --check-config that *)
(* the operator runs at any time.  What the operator wrote (files, command *)
(* line, environment) is chosen at the start of a behaviour and kept.      *)
(*                                                                         *)
(* A step is what a process does between two effects that the other one or *)
(* a crash can see.  --version returns before any of it.                   *)
(***************************************************************************)
EXTENDS Identifiers

CONSTANTS
    Nothing,      \* None
    Broken,       \* a file that cannot be read or is not TOML
    Deployments,  \* what the operator may have written, see Deployment
    Ids,          \* UUIDs that may be generated
    MaxFaults     \* bound: stops and input/output errors

Proc == {"service", "check"}

(* The document.  The named tables hold scalars; the arrays of tables are   *)
(* lists of records; nested are the other keys that occur in those.         *)
(*   files      the documents at the three paths                            *)
(*   given      whether --config names the first of them                    *)
(*   overrides  the variables BITHOUND_<section>__<key>; two spellings of   *)
(*              one key are two variables                                   *)
(*   secrets    the variables that are set, for each process                *)
(*   catalog    the user's kinds, Nothing without any                       *)
(* id_file, db_path and kinds_config_path name one file each: what the      *)
(* document or a variable writes there is the name of the file modelled.    *)
Path        == {"given", "local", "system"}
Integration == {"bitcoin_core_rpc", "bitcoin_core_zmq", "lnd_grpc_poll", "lnd_grpc_stream",
                "lnd_rest", "host"}
Node        == [kind : {"bitcoin_node", "lnd_node", "host"}, id : STRING, secret : STRING,
                url : BOOLEAN]
Collector   == [id : STRING, kind : {"bitcoin_node", "lnd_node", "host"}, target : STRING,
                integration : Integration]
Rule        == [id : STRING, secret : STRING, kinds : Seq(Seq(Char))]

NoSecret == "-"     \* a cookie file, a host, a Telegram rule

SubjectKind == {"Sidecar", "Host", "BitcoinNode", "BitcoinPeer", "LndNode", "LndPeer",
                "LndChannel", "LndInvoice"}
Entry       == [name : Seq(Char), subjects : SUBSET (SubjectKind \cup {"Unknown"}), dimension : BOOLEAN,
                floor : {"Low", "Medium", "High"}]

ASSUME BootAssumption ==
    /\ \A d \in Deployments :
          /\ d.given \in BOOLEAN /\ DOMAIN d.files = Path
          /\ \A x \in Path : d.files[x] \notin {Nothing, Broken} =>
                /\ d.files[x].nodes \in Seq(Node)
                /\ d.files[x].collectors \in Seq(Collector)
                /\ d.files[x].rules \in Seq(Rule)
          /\ d.catalog \in {Nothing, Broken} \/ d.catalog \in Seq(Entry)
    /\ {"absent", "torn", Nothing} \cap Ids = {}
    /\ MaxFaults \in Nat

VARIABLES
    deployed,  \* never changes
    idFile,    \* "absent", "torn" (created and not written) or its id
    database,  \* the database file exists
    proc,      \* the two processes
    faults,    \* how many of MaxFaults are left
    (* history *)
    ran,       \* ids the service has run with
    raced      \* both processes found no id file

vars == <<deployed, idFile, database, proc, faults, ran, raced>>

Off == [pc |-> "off", tables |-> Nothing, left |-> {}, id |-> Nothing, kinds |-> Nothing,
        error |-> "none"]

Init ==
    /\ deployed \in Deployments
    /\ idFile = "absent" /\ database = FALSE
    /\ proc = [p \in Proc |-> Off]
    /\ faults = MaxFaults /\ ran = {} /\ raced = FALSE

---------------------------------------------------------------------------
(* Reading and merging. *)

(* resolve_config_path: --config, or the first default that is there. *)
resolve_config_path ==
    IF deployed.given THEN "given"
    ELSE IF deployed.files["local"] # Nothing THEN "local" ELSE "system"

document == deployed.files[resolve_config_path]

(* The texts that parse as a type. *)
Reads(type) == CASE type = "integer" -> {"0", "42"}
                 [] type = "boolean" -> {"true"}
                 [] type = "float"   -> {"0", "42"}
                 [] OTHER            -> {}

(* The value keeps the type of the one it replaces if the text allows it,   *)
(* and becomes a string if not.  Where there was a string or nothing, an    *)
(* integer is tried.                                                        *)
coerce_env_value(text, existing) ==
    LET type == IF existing = Nothing \/ existing.type = "string" THEN "integer"
                ELSE existing.type
    IN  [type |-> IF text \in Reads(type) THEN type ELSE "string", text |-> text]

At(f, x, default) == IF x \in DOMAIN f THEN f[x] ELSE default
Put(f, x, value)  == [y \in DOMAIN f \cup {x} |-> IF y = x THEN value ELSE f[y]]

(* The section is an array of tables in the document; without entries it is *)
(* not there.                                                               *)
IsArray(section) ==
    \/ section = "collectors" /\ document.collectors # <<>>
    \/ section = "notification_rules" /\ document.rules # <<>>
    \/ \E i \in DOMAIN document.nodes :
          section = CASE document.nodes[i].kind = "bitcoin_node" -> "bitcoin_nodes"
                      [] document.nodes[i].kind = "lnd_node"     -> "lnd_nodes"
                      [] document.nodes[i].kind = "host"         -> "hosts"

(* Slip: the section is made anew for every variable. *)
OverriddenSection(tables, v) ==
    IF IsArray(v.section) THEN tables
    ELSE Put(tables, v.section,
             Put(<<>>, v.key, coerce_env_value(v.text, At(At(tables, v.section, <<>>), v.key, Nothing))))

(* The body of the loop of apply_env_overrides: a missing section is        *)
(* created, one that is an array is left alone.                             *)
Overridden(tables, v) ==
    LET section == At(tables, v.section, <<>>)
    IN  IF IsArray(v.section) THEN tables
        ELSE Put(tables, v.section,
                 Put(section, v.key, coerce_env_value(v.text, At(section, v.key, Nothing))))

---------------------------------------------------------------------------
(* Validation. *)

looks_like_inline_secret(key) == key \in {"password", "bot_token"}

reject_inline_secrets(tables) ==
    \E key \in DOMAIN tables \cup document.nested \cup UNION {DOMAIN tables[s] : s \in DOMAIN tables} :
        looks_like_inline_secret(key)

(* The scalars of the sections, with their types; id_file and db_path, and  *)
(* so their sections, are required.  [storage.retention] and all that is in *)
(* [notifications] are tables: a variable that puts a scalar in the place   *)
(* of one is refused.                                                       *)
SidecarConfig       == [id_file |-> "string", log_level |-> "string"]
StorageConfig       == [db_path |-> "string"]
RuntimeConfig       == [channel_capacity |-> "integer", shutdown_deadline_seconds |-> "integer"]
ApiConfig           == [bind |-> "address", enabled |-> "boolean"]
IncidentsConfig     == [kinds_config_path |-> "string"]
NotificationsConfig == <<>>

Schema == [sidecar |-> SidecarConfig, storage |-> StorageConfig, runtime |-> RuntimeConfig,
           api |-> ApiConfig, incidents |-> IncidentsConfig, notifications |-> NotificationsConfig]

(* The one text among those that occur which is a socket address. *)
Loopback == "127.0.0.1:8487"

Fits(value, type) ==
    IF type = "address" THEN value = [type |-> "string", text |-> Loopback]
    ELSE value.type = type

(* raw.try_into(), with deny_unknown_fields. *)
Deserializes(tables) ==
    /\ DOMAIN tables \subseteq DOMAIN Schema
    /\ \A s \in DOMAIN tables : \A k \in DOMAIN tables[s] :
          k \in DOMAIN Schema[s] /\ Fits(tables[s][k], Schema[s][k])
    /\ \A s \in {"sidecar", "storage"} : s \in DOMAIN tables
    /\ "id_file" \in DOMAIN tables["sidecar"] /\ "db_path" \in DOMAIN tables["storage"]

Distinct(list) == \A i, j \in DOMAIN list : list[i] = list[j] => i = j

IdsOf(list) == [i \in DOMAIN list |-> list[i].id]

validate_cross_refs ==
    /\ Distinct([i \in DOMAIN document.nodes |-> <<document.nodes[i].kind, document.nodes[i].id>>])
    /\ \A i \in DOMAIN document.collectors : \E j \in DOMAIN document.nodes :
          /\ document.nodes[j].kind = document.collectors[i].kind
          /\ document.nodes[j].id = document.collectors[i].target
    /\ Distinct(IdsOf(document.collectors))
    /\ Distinct(IdsOf(document.rules))

collect_env_refs ==
    ({document.nodes[i].secret : i \in DOMAIN document.nodes}
      \cup {document.telegram}
      \cup {document.rules[i].secret : i \in DOMAIN document.rules}) \ {NoSecret}

validate_env_vars(p) == collect_env_refs \subseteq deployed.secrets[p]

(* Everything load_with_env checks once the overrides are in. *)
Validated(p) ==
    /\ ~reject_inline_secrets(proc[p].tables)
    /\ Deserializes(proc[p].tables)
    /\ validate_cross_refs
    /\ validate_env_vars(p)

---------------------------------------------------------------------------
(* Building. *)

(* resolve_secrets made a map of exactly the references that were collected. *)
Resolved(secret) == secret = NoSecret \/ secret \in collect_env_refs

(* Only the Bitcoin nodes enter the registry, each with its secret. *)
node_registry_from_config == {i \in DOMAIN document.nodes : document.nodes[i].kind = "bitcoin_node"}

SecretsOfNodes == {document.nodes[i].secret : i \in node_registry_from_config}

(* collector_target: only the id of the kind that was named is looked up. *)
collector_target(c) == [kind |-> c.kind, id |-> c.target]

(* BitcoinCoreRpcCollector::new parses the URL and reaches for nothing. *)
BitcoinCoreRpcCollector_new(node) == node.url

(* The branch of bitcoin_core_rpc. *)
BuildsRpc(c) ==
    /\ collector_target(c).kind = "bitcoin_node"
    /\ \E j \in node_registry_from_config :
          /\ document.nodes[j].id = collector_target(c).id
          /\ BitcoinCoreRpcCollector_new(document.nodes[j])

(* Slip: what is not implemented is passed over. *)
BuildsWhatItCan ==
    \A i \in DOMAIN document.collectors :
        LET c == document.collectors[i]
        IN  c.integration # "bitcoin_core_rpc" \/ BuildsRpc(c)

(* build_polling_collectors and build_subscription_collectors: each passes  *)
(* over the kinds of the other.                                             *)
build_polling_collectors ==
    \A i \in DOMAIN document.collectors :
        LET c == document.collectors[i]
        IN  \/ c.integration \in {"bitcoin_core_zmq", "lnd_grpc_stream"}
            \/ c.integration = "bitcoin_core_rpc" /\ BuildsRpc(c)

build_subscription_collectors ==
    \A i \in DOMAIN document.collectors :
        document.collectors[i].integration \notin {"bitcoin_core_zmq", "lnd_grpc_stream"}

(* Two of the built-in kinds, one of a node and one of the sidecar. *)
NodeKind    == <<"a", ".", "a">>
SidecarKind == <<"a", ".", "a", "a">>
BUILTIN_KINDS ==
    << [name |-> NodeKind, subjects |-> {"BitcoinNode"}, dimension |-> FALSE, floor |-> "High"],
       [name |-> SidecarKind, subjects |-> {"Sidecar"}, dimension |-> TRUE, floor |-> "High"] >>

ASSUME BuiltinAssumption == \A i \in DOMAIN BUILTIN_KINDS : Len(BUILTIN_KINDS[i].name) =< MaxNameLen

Names(entries) == {entries[i].name : i \in DOMAIN entries}

(* The last entry of a name. *)
SpecOf(entries, name) ==
    entries[CHOOSE i \in DOMAIN entries : /\ entries[i].name = name
                                          /\ \A j \in DOMAIN entries : entries[j].name = name => j =< i]

(* A malformed name fails the parse of the whole file; an unknown subject,  *)
(* a kind that is there already and one that occurs twice end the loop.     *)
insert_from_toml(kinds, entries) ==
    IF \/ \E i \in DOMAIN entries : \/ ~parse_dotted_name(entries[i].name).ok
                                    \/ ~(entries[i].subjects \subseteq SubjectKind)
                                    \/ entries[i].name \in DOMAIN kinds
       \/ ~Distinct([i \in DOMAIN entries |-> entries[i].name])
      THEN [ok |-> FALSE]
    ELSE [ok |-> TRUE, kinds |-> [n \in DOMAIN kinds \cup Names(entries) |->
                                     IF n \in Names(entries) THEN SpecOf(entries, n) ELSE kinds[n]]]

KindRegistry_load ==
    LET builtin == insert_from_toml(<<>>, BUILTIN_KINDS)
    IN  IF deployed.catalog = Nothing THEN builtin
        ELSE IF deployed.catalog = Broken THEN [ok |-> FALSE]
        ELSE insert_from_toml(builtin.kinds, deployed.catalog)

validate_draft(kinds, d) ==
    /\ d.kind \in DOMAIN kinds
    /\ d.subject \in kinds[d.kind].subjects
    /\ d.dimension = kinds[d.kind].dimension

(* The token of the Telegram sink is the only secret of a sender. *)
build_senders == Resolved(document.telegram)

build_notification_rules ==
    \A i \in DOMAIN document.rules : \A j \in DOMAIN document.rules[i].kinds :
        parse_dotted_name(document.rules[i].kinds[j]).ok

---------------------------------------------------------------------------
(* The steps of a process. *)

Goto(p, pc) == proc' = [proc EXCEPT ![p].pc = pc]

(* Exit code 78 with a message. *)
Fail(p, error) == proc' = [proc EXCEPT ![p].pc = "exit78", ![p].error = error]

Ended == {"off", "exit0", "exit78", "panicked"}

(* The service is started again on failure; the check whenever it is wanted. *)
Start(p) ==
    /\ proc[p].pc \in Ended
    /\ proc' = [proc EXCEPT ![p] = [Off EXCEPT !.pc = "read"]]
    /\ UNCHANGED <<deployed, idFile, database, faults, ran, raced>>

ReadDocument(p) ==
    /\ proc[p].pc = "read"
    /\ IF document \in {Nothing, Broken} THEN Fail(p, "config")
       ELSE proc' = [proc EXCEPT ![p].pc = "override", ![p].tables = document.tables,
                                 ![p].left = deployed.overrides]
    /\ UNCHANGED <<deployed, idFile, database, faults, ran, raced>>

(* The environment is a hash map: the variables come in any order. *)
ApplyOverride(p) ==
    /\ proc[p].pc = "override"
    /\ \E v \in proc[p].left :
          proc' = [proc EXCEPT ![p].tables = Overridden(@, v), ![p].left = @ \ {v}]
    /\ UNCHANGED <<deployed, idFile, database, faults, ran, raced>>

Validate(p) ==
    /\ proc[p].pc = "override" /\ proc[p].left = {}
    /\ IF Validated(p) THEN Goto(p, "id") ELSE Fail(p, "config")
    /\ UNCHANGED <<deployed, idFile, database, faults, ran, raced>>

(* Slip: an id is generated at every start. *)
AlwaysGenerate(p) ==
    /\ proc[p].pc = "id"
    /\ Goto(p, "create")
    /\ raced' = (raced \/ \E q \in Proc \ {p} : proc[q].pc = "create")
    /\ UNCHANGED <<deployed, idFile, database, faults, ran>>

(* load_or_generate_sidecar_id: the file is read if it exists... *)
LoadId(p) ==
    /\ proc[p].pc = "id"
    /\ CASE idFile = "absent"            -> Goto(p, "create")
         [] idFile = "torn"              -> Fail(p, "id_file")
         [] idFile \notin {"absent", "torn"} ->
              proc' = [proc EXCEPT ![p].pc = "pool", ![p].id = idFile]
    /\ raced' = (raced \/ (idFile = "absent" /\ \E q \in Proc \ {p} : proc[q].pc = "create"))
    /\ UNCHANGED <<deployed, idFile, database, faults, ran>>

(* ...else std::fs::write creates or truncates it, and then writes. *)
CreateIdFile(p) ==
    /\ proc[p].pc = "create"
    /\ \E id \in Ids \ ({proc[q].id : q \in Proc} \cup ran \cup {idFile}) :
          proc' = [proc EXCEPT ![p].pc = "write", ![p].id = id]
    /\ idFile' = "torn"
    /\ UNCHANGED <<deployed, database, faults, ran, raced>>

WriteIdFile(p) ==
    /\ proc[p].pc = "write"
    /\ idFile' = proc[p].id
    /\ Goto(p, "pool")
    /\ UNCHANGED <<deployed, database, faults, ran, raced>>

(* An input/output error: a file that is there is not read, the disk is     *)
(* full, the database does not open or does not answer.                     *)
IoFails(p) ==
    /\ \/ proc[p].pc = "read" /\ document # Nothing
       \/ proc[p].pc \in {"create", "write", "pool", "load"}
       \/ proc[p].pc = "id" /\ idFile # "absent"
       \/ proc[p].pc = "build" /\ deployed.catalog # Nothing
    /\ faults > 0 /\ faults' = faults - 1
    /\ Fail(p, "io")
    /\ UNCHANGED <<deployed, idFile, database, ran, raced>>

(* Slip: a missing database is not created. *)
OpenExisting(p) ==
    /\ proc[p].pc = "pool"
    /\ IF database THEN Goto(p, IF p = "check" THEN "exit0" ELSE "build") ELSE Fail(p, "io")
    /\ UNCHANGED <<deployed, idFile, database, faults, ran, raced>>

(* open_pool creates and migrates the database; the check is done. *)
open_pool(p) ==
    /\ proc[p].pc = "pool"
    /\ database' = TRUE
    /\ Goto(p, IF p = "check" THEN "exit0" ELSE "build")
    /\ UNCHANGED <<deployed, idFile, faults, ran, raced>>

(* boot_runtime up to the kinds. *)
Build(p) ==
    /\ proc[p].pc = "build"
    /\ IF \E s \in SecretsOfNodes : ~Resolved(s) THEN Fail(p, "SecretNotResolved")
       ELSE IF ~build_polling_collectors \/ ~build_subscription_collectors
                 \/ ~KindRegistry_load.ok THEN Fail(p, "build")
       ELSE proc' = [proc EXCEPT ![p].pc = "load", ![p].kinds = KindRegistry_load.kinds]
    /\ UNCHANGED <<deployed, idFile, database, faults, ran, raced>>

(* load_open and IncidentEngine::new, of which module IncidentEngine has    *)
(* the detail; then the rules and the senders.                              *)
BuildRules(p) ==
    /\ proc[p].pc = "load"
    /\ IF \E i \in DOMAIN document.rules : ~Resolved(document.rules[i].secret)
         THEN Fail(p, "SecretNotResolved")
       ELSE IF ~build_notification_rules THEN Fail(p, "build")
       ELSE IF ~build_senders THEN Fail(p, "SecretNotResolved")
       ELSE Goto(p, "start")
    /\ UNCHANGED <<deployed, idFile, database, faults, ran, raced>>

Capacity(tables) == At(At(tables, "runtime", <<>>), "channel_capacity", [text |-> "1024"]).text

(* runtime::run: a channel without room panics in tokio. *)
RunRuntime(p) ==
    /\ proc[p].pc = "start"
    /\ IF Capacity(proc[p].tables) = "0" THEN Goto(p, "panicked") /\ UNCHANGED ran
       ELSE Goto(p, "running") /\ ran' = ran \cup {proc[p].id}
    /\ UNCHANGED <<deployed, idFile, database, faults, raced>>

(* A crash, a kill, or the end of the service. *)
Stop(p) ==
    /\ proc[p].pc \notin Ended
    /\ faults > 0 /\ faults' = faults - 1
    /\ proc' = [proc EXCEPT ![p] = Off]
    /\ UNCHANGED <<deployed, idFile, database, ran, raced>>

Step(p) ==
    \/ ReadDocument(p) \/ ApplyOverride(p) \/ Validate(p)
    \/ LoadId(p) \/ CreateIdFile(p) \/ WriteIdFile(p) \/ open_pool(p)
    \/ Build(p) \/ BuildRules(p) \/ RunRuntime(p)

Next == \E p \in Proc : Start(p) \/ Step(p) \/ IoFails(p) \/ Stop(p)

Spec == Init /\ [][Next]_vars

(* A process runs on, and the unit has Restart=on-failure. *)
FairSpec == Spec /\ WF_vars(Start("service")) /\ \A p \in Proc : WF_vars(Step(p))

---------------------------------------------------------------------------
(* Properties. *)

(* What the variables make of the document, whatever their order: each      *)
(* unambiguous one sets its key, in the type the document has there.        *)
Twins(v)      == \E w \in deployed.overrides : w # v /\ w.section = v.section /\ w.key = v.key
InDocument(v) == At(At(document.tables, v.section, <<>>), v.key, Nothing)

(* The merged configuration does not depend on the order in which the       *)
(* environment is walked, unless two spellings name one key; a variable     *)
(* that names an array of tables is passed over.                            *)
OverridesCommute ==
    \A p \in Proc : proc[p].tables # Nothing =>
        \A v \in deployed.overrides \ proc[p].left :
            Twins(v) \/ IsArray(v.section)
            \/ At(At(proc[p].tables, v.section, <<>>), v.key, Nothing)
                 = coerce_env_value(v.text, InDocument(v))

(* name = segment ("." segment)+, with segment = [a-z] [a-z0-9_]*: the      *)
(* dots split the text into at least two pieces, each a segment.            *)
IsSegment(s) == s # <<>> /\ s[1] = Letter /\ \A i \in DOMAIN s : s[i] \in Body

IsName(s) ==
    LET cuts == {0, Len(s) + 1} \cup {i \in DOMAIN s : s[i] = Dot}
    IN  /\ Cardinality(cuts) > 2 /\ Len(s) =< MaxNameLen
        /\ \A i, j \in cuts : i < j /\ (\A k \in cuts : ~(i < k /\ k < j))
                                => IsSegment(SubSeq(s, i + 1, j - 1))

(* A sidecar that runs has all it was configured with: every collector its  *)
(* node, every name in the grammar, every secret its variable, and the      *)
(* user's kinds read.                                                       *)
Complete(p) ==
    /\ \A i \in DOMAIN document.collectors :
          /\ document.collectors[i].integration = "bitcoin_core_rpc"
          /\ \E j \in DOMAIN document.nodes :
                /\ document.nodes[j].kind = "bitcoin_node" /\ document.collectors[i].kind = "bitcoin_node"
                /\ document.nodes[j].id = document.collectors[i].target
                /\ document.nodes[j].url
                /\ document.nodes[j].secret \in deployed.secrets[p] \cup {NoSecret}
    /\ \A i \in DOMAIN document.rules :
          /\ document.rules[i].secret \in deployed.secrets[p] \cup {NoSecret}
          /\ \A j \in DOMAIN document.rules[i].kinds : IsName(document.rules[i].kinds[j])
    /\ document.telegram \in deployed.secrets[p] \cup {NoSecret}
    /\ deployed.catalog # Nothing =>
          /\ deployed.catalog # Broken
          /\ \A i \in DOMAIN deployed.catalog :
                /\ IsName(deployed.catalog[i].name)
                /\ deployed.catalog[i].name \notin Names(BUILTIN_KINDS)
                /\ deployed.catalog[i].subjects \subseteq SubjectKind
          /\ Cardinality(Names(deployed.catalog)) = Len(deployed.catalog)

(* "callers should treat that as a programmer error since validate_env_vars *)
(* runs upfront": no secret is found missing after the validation.          *)
SecretsAreThere == \A p \in Proc : proc[p].error # "SecretNotResolved"

(* The drafts of the rules that are wired in pass the registry, and their   *)
(* kind's floor is the built-in one, whatever the user's catalog says.      *)
RuleDraft == [kind |-> NodeKind, subject |-> "BitcoinNode", dimension |-> FALSE]

CatalogIsAdditive ==
    \A p \in Proc : proc[p].kinds # Nothing =>
        /\ validate_draft(proc[p].kinds, RuleDraft)
        /\ \A i \in DOMAIN BUILTIN_KINDS : proc[p].kinds[BUILTIN_KINDS[i].name] = BUILTIN_KINDS[i]

(* The service runs only a complete configuration, with the built-in kinds  *)
(* as they are and every secret at hand, and refuses none that passed       *)
(* validation and is complete: what is refused while building is incomplete.*)
Verdict ==
    /\ SecretsAreThere
    /\ CatalogIsAdditive
    /\ proc["service"].pc = "running" => Complete("service")
    /\ proc["service"].error = "build" => ~Complete("service")

(* The id is generated on first run and reused on every restart, across     *)
(* crashes between creating and writing the file, failed writes and checks  *)
(* at any time, unless service and check both make the first one.           *)
IdentityIsStable ==
    raced \/ /\ Cardinality(ran) =< 1
             /\ proc["service"].pc = "running" => idFile = proc["service"].id

Acceptable ==
    /\ document \notin {Nothing, Broken} /\ deployed.overrides = {}
    /\ ~reject_inline_secrets(document.tables) /\ Deserializes(document.tables)
    /\ validate_cross_refs /\ collect_env_refs \subseteq deployed.secrets["service"]
    /\ Complete("service")

(* With a configuration that is in order the service comes up in the end,   *)
(* through crashes and errors, unless one of them, or the check, left the   *)
(* id file torn.                                                            *)
ComesUp == Acceptable => <>(proc["service"].pc = "running") \/ <>[](idFile = "torn")

(* "if absent or unparseable, a fresh `Uuid::now_v7()` is generated and     *)
(* written" (docs/SPEC.md): an id file that a crash left empty is replaced  *)
(* by a service that is started again.                                      *)
TornIdIsReplaced ==
    Acceptable => (idFile = "torn" ~> idFile # "torn" \/ proc["service"].pc = "running")
=============================================================================
