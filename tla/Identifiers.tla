---------------------------- MODULE Identifiers ----------------------------
(***************************************************************************)
(* Names and references: the dotted-name parser every name type goes       *)
(* through (src/shared/parse.rs), the references to monitored entities     *)
(* (src/shared/types.rs) and the two columns they are stored in            *)
(* (src/storage/sqlite/observation_store.rs).                              *)
(*                                                                         *)
(* A text is a sequence of characters, and of a character only its class   *)
(* matters: a lowercase letter, another character a segment may go on      *)
(* with (a digit, "_"), the dot, the slash, or any other one.              *)
(***************************************************************************)
EXTENDS Integers, Sequences, FiniteSets

CONSTANTS
    MaxNameLen,  \* MAX_NAME_LEN, 128 in the code
    Uuids        \* texts that read as a UUID

Letter == "a"
Body   == {"a", "0"}
Dot    == "."
Slash  == "/"
Other  == "X"
Char   == Body \cup {Dot, Slash, Other}

ASSUME IdentifierAssumption ==
    /\ MaxNameLen \in Nat
    /\ Uuids \subseteq Seq(Char)

---------------------------------------------------------------------------
(* parse_dotted_name: one pass over the bytes.  A segment starts at the    *)
(* first byte and after every dot; positions count from 0, as offsets do.  *)

StartsSegment(s, i) == i = 1 \/ s[i-1] = Dot

(* Why the loop returns at byte i, if it gets there and does. *)
Offence(s, i) ==
    IF s[i] = Dot
      THEN IF StartsSegment(s, i) THEN "EmptySegment" ELSE "none"
    ELSE IF StartsSegment(s, i) /\ s[i] # Letter
      THEN IF s[i] \in Body THEN "BadSegmentStart" ELSE "BadCharacter"
    ELSE IF s[i] \in Body THEN "none" ELSE "BadCharacter"

Parsed        == [ok |-> TRUE]
Refused(e, i) == [ok |-> FALSE, error |-> e, at |-> i]

FirstOf(S) == CHOOSE i \in S : \A j \in S : i =< j

parse_dotted_name(s) ==
    LET bad == {i \in 1..Len(s) : Offence(s, i) # "none"}
    IN  IF s = <<>> THEN Refused("Empty", 0)
        ELSE IF Len(s) > MaxNameLen THEN Refused("TooLong", Len(s))
        ELSE IF bad # {} THEN Refused(Offence(s, FirstOf(bad)), FirstOf(bad) - 1)
        ELSE IF s[Len(s)] = Dot THEN Refused("EmptySegment", Len(s) - 1)
        ELSE IF \A i \in 1..Len(s) : s[i] # Dot THEN Refused("NoDot", 0)
        ELSE Parsed

---------------------------------------------------------------------------
(* EntityRef: peers, channels and invoices are scoped under their node.    *)

Plain      == {"host", "bitcoin_node", "lnd_node"}
Scoped     == {"bitcoin_peer", "lnd_peer", "lnd_channel", "lnd_invoice"}

EntityRef ==
    [kind : {"sidecar"}, id : Uuids] \cup [kind : Plain, id : Seq(Char)]
      \cup [kind : Scoped, node : Seq(Char), sub : Seq(Char)]

Entity(kind, id)             == [kind |-> kind, id |-> id]
ScopedEntity(kind, node, sub) == [kind |-> kind, node |-> node, sub |-> sub]
Corrupt                      == [kind |-> "Corruption"]

subject_id_str(e) == IF e.kind \in Scoped THEN e.node \o <<Slash>> \o e.sub ELSE e.id

(* Slip: the slash stays with the second part. *)
SplitBeforeSlash(id) ==
    LET at == FirstOf({i \in 1..Len(id) : id[i] = Slash})
    IN  [node |-> SubSeq(id, 1, at - 1), sub |-> SubSeq(id, at, Len(id))]

split_scoped(id) ==
    LET at == FirstOf({i \in 1..Len(id) : id[i] = Slash})
    IN  [node |-> SubSeq(id, 1, at - 1), sub |-> SubSeq(id, at + 1, Len(id))]

HasSlash(id) == \E i \in 1..Len(id) : id[i] = Slash

subject_from_pair(kind, id) ==
    CASE kind = "sidecar"                    -> IF id \in Uuids THEN Entity(kind, id) ELSE Corrupt
      [] kind \in Plain                      -> Entity(kind, id)
      [] kind \in Scoped /\ HasSlash(id)     -> LET p == split_scoped(id)
                                                IN  ScopedEntity(kind, p.node, p.sub)
      [] OTHER                               -> Corrupt
=============================================================================
