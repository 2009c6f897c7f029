-------------------------- MODULE IdentifierProofs --------------------------
(***************************************************************************)
(* Lemmas about Identifiers: what the parser of dotted names accepts, and  *)
(* that a reference to an entity survives the two columns it is stored in. *)
(***************************************************************************)
EXTENDS Identifiers, SequenceTheorems, WellFoundedInduction, TLAPS

(* A nonempty set of numbers has a least element. *)
LEMMA LeastNumber ==
    ASSUME NEW S, S \subseteq Nat, S # {}
    PROVE  \E x \in S : \A y \in S : x <= y
<1> DEFINE Less == {p \in Nat \X Nat : p[1] < p[2]}
<1>1. IsWellFoundedOn(Less, Nat)
    BY NatLessThanWellFounded DEF OpToRel
<1>2. PICK x \in S : \A y \in S : ~(<<y, x>> \in Less)
    <2> HIDE DEF Less
    <2> QED
        BY <1>1, WFMin
<1>3. ASSUME NEW y \in S PROVE x <= y
    <2>1. x \in Nat /\ y \in Nat
        OBVIOUS
    <2>2. ~(<<y, x>> \in Less)
        BY <1>2, Zenon
    <2>3. ~(y < x)
        BY <2>1, <2>2
    <2> QED
        BY <2>1, <2>3
<1> QED
    BY <1>3

(* One with an upper bound has a greatest. *)
LEMMA GreatestNumber ==
    ASSUME NEW n \in Nat, NEW S, S \subseteq 0..n, S # {}
    PROVE  \E x \in S : \A y \in S : y <= x
<1> DEFINE T == {n - x : x \in S}
<1>1. T \subseteq Nat /\ T # {}
    <2>1. PICK x \in S : TRUE
        OBVIOUS
    <2>2. n - x \in T
        BY <2>1
    <2>3. \A y \in S : n - y \in Nat
        OBVIOUS
    <2> QED
        BY <2>2, <2>3
<1>2. PICK t \in T : \A u \in T : t <= u
    BY <1>1, LeastNumber
<1>3. PICK x \in S : t = n - x
    OBVIOUS
<1>4. ASSUME NEW y \in S PROVE y <= x
    <2>1. n - y \in T /\ y \in 0..n /\ x \in 0..n
        OBVIOUS
    <2>2. n - x <= n - y
        BY <1>2, <1>3, <2>1
    <2> QED
        BY <2>1, <2>2
<1> QED
    BY <1>4

-----------------------------------------------------------------------------
(* Names. *)

(* The loop passes byte i. *)
LEMMA OffenceFacts ==
    ASSUME NEW s \in Seq(Char), NEW i \in 1..Len(s)
    PROVE  Offence(s, i) = "none" <=>
               IF s[i] = Dot THEN ~StartsSegment(s, i)
               ELSE s[i] \in Body /\ (StartsSegment(s, i) => s[i] = Letter)
BY DEF Offence

(* What parse_dotted_name accepts. *)
Accepts(s) ==
    /\ s # <<>> /\ Len(s) =< MaxNameLen
    /\ \A i \in 1..Len(s) : IF s[i] = Dot THEN ~StartsSegment(s, i)
                            ELSE s[i] \in Body /\ (StartsSegment(s, i) => s[i] = Letter)
    /\ s[Len(s)] # Dot
    /\ \E i \in 1..Len(s) : s[i] = Dot

(* parse_dotted_name succeeds on exactly those. *)
LEMMA ParserFacts ==
    ASSUME NEW s \in Seq(Char)
    PROVE  parse_dotted_name(s).ok <=> Accepts(s)
<1> DEFINE bad == {i \in 1..Len(s) : Offence(s, i) # "none"}
<1>1. bad = {} <=> \A i \in 1..Len(s) : IF s[i] = Dot THEN ~StartsSegment(s, i)
                                       ELSE s[i] \in Body /\ (StartsSegment(s, i) => s[i] = Letter)
    BY OffenceFacts
<1>2. parse_dotted_name(s) =
        IF s = <<>> THEN Refused("Empty", 0)
        ELSE IF Len(s) > MaxNameLen THEN Refused("TooLong", Len(s))
        ELSE IF bad # {} THEN Refused(Offence(s, FirstOf(bad)), FirstOf(bad) - 1)
        ELSE IF s[Len(s)] = Dot THEN Refused("EmptySegment", Len(s) - 1)
        ELSE IF \A i \in 1..Len(s) : s[i] # Dot THEN Refused("NoDot", 0)
        ELSE Parsed
    BY DEF parse_dotted_name
<1>3. Parsed.ok = TRUE /\ \A e, i : Refused(e, i).ok = FALSE
    BY DEF Parsed, Refused
<1>4. Len(s) > MaxNameLen <=> ~(Len(s) =< MaxNameLen)
    BY IdentifierAssumption
<1> HIDE DEF bad
<1>5. parse_dotted_name(s).ok <=>
          /\ s # <<>> /\ ~(Len(s) > MaxNameLen) /\ bad = {} /\ s[Len(s)] # Dot
          /\ ~ \A i \in 1..Len(s) : s[i] # Dot
    BY <1>2, <1>3
<1> QED
    BY <1>1, <1>4, <1>5 DEF Accepts

-----------------------------------------------------------------------------
(* Columns and back. *)

(* The first slash of a text that has one is where FirstOf says. *)
LEMMA FirstSlash ==
    ASSUME NEW id \in Seq(Char), HasSlash(id)
    PROVE  \E at \in 1..Len(id) :
              /\ at = FirstOf({i \in 1..Len(id) : id[i] = Slash})
              /\ id[at] = Slash
              /\ \A i \in 1..(at - 1) : id[i] # Slash
<1> DEFINE S == {i \in 1..Len(id) : id[i] = Slash}
<1>1. S \subseteq Nat /\ S # {}
  BY DEF HasSlash
<1>2. PICK m \in S : \A j \in S : m =< j
  BY <1>1, LeastNumber
<1>3. FirstOf(S) \in S /\ \A j \in S : FirstOf(S) =< j
  <2> HIDE DEF S
  <2> QED
    BY <1>2 DEF FirstOf
<1>4. PICK at : at = FirstOf(S)
  OBVIOUS
<1>5. at \in 1..Len(id) /\ id[at] = Slash
  BY <1>3, <1>4
<1>6. ASSUME NEW i \in 1..(at - 1) PROVE id[i] # Slash
  <2>1. i \in 1..Len(id) /\ ~(at =< i)
    BY <1>5
  <2> QED
    BY <1>3, <1>4, <2>1
<1> QED
  BY <1>4, <1>5, <1>6

(* What the column of a scoped subject holds, character by character. *)
LEMMA JoinedText ==
    ASSUME NEW node \in Seq(Char), NEW sub \in Seq(Char)
    PROVE  LET id == node \o <<Slash>> \o sub
           IN  /\ id \in Seq(Char) /\ Len(id) = Len(node) + 1 + Len(sub)
               /\ id[Len(node) + 1] = Slash
               /\ \A i \in 1..Len(node) : id[i] = node[i]
               /\ \A i \in 1..Len(sub)  : id[Len(node) + 1 + i] = sub[i]
<1>1. PICK slash : slash = <<Slash>>
  OBVIOUS
<1>2. slash \in Seq(Char) /\ Len(slash) = 1 /\ slash[1] = Slash
  BY <1>1 DEF Char
<1>3. PICK front : front = node \o slash
  OBVIOUS
<1>4. /\ front \in Seq(Char) /\ Len(front) = Len(node) + 1
      /\ \A i \in 1..(Len(node) + 1) :
            front[i] = IF i =< Len(node) THEN node[i] ELSE slash[i - Len(node)]
  <2>1. /\ front \in Seq(Char) /\ Len(front) = Len(node) + Len(slash)
        /\ \A i \in 1..(Len(node) + Len(slash)) :
              front[i] = IF i =< Len(node) THEN node[i] ELSE slash[i - Len(node)]
    BY <1>2, <1>3, ConcatProperties
  <2> QED
    BY <1>2, <2>1
<1>5. PICK whole : whole = front \o sub
  OBVIOUS
<1>6. /\ whole \in Seq(Char) /\ Len(whole) = Len(front) + Len(sub)
      /\ \A i \in 1..(Len(front) + Len(sub)) :
            whole[i] = IF i =< Len(front) THEN front[i] ELSE sub[i - Len(front)]
  BY <1>4, <1>5, ConcatProperties
<1>7. Len(node) \in Nat /\ Len(sub) \in Nat
  OBVIOUS
<1>8. whole[Len(node) + 1] = Slash
  BY <1>2, <1>4, <1>6, <1>7
<1>9. ASSUME NEW i \in 1..Len(node) PROVE whole[i] = node[i]
  BY <1>4, <1>6, <1>7
<1>10. ASSUME NEW i \in 1..Len(sub) PROVE whole[Len(node) + 1 + i] = sub[i]
  BY <1>4, <1>6, <1>7
<1> QED
  BY <1>1, <1>3, <1>4, <1>5, <1>6, <1>7, <1>8, <1>9, <1>10

(* A text is put together again from what is before and after a slash. *)
LEMMA CutAt ==
    ASSUME NEW id \in Seq(Char), NEW at \in 1..Len(id), id[at] = Slash
    PROVE  /\ SubSeq(id, 1, at - 1) \in Seq(Char) /\ SubSeq(id, at + 1, Len(id)) \in Seq(Char)
           /\ SubSeq(id, 1, at - 1) \o <<Slash>> \o SubSeq(id, at + 1, Len(id)) = id
<1>0. Len(id) \in Nat /\ at \in Nat /\ at =< Len(id) /\ at > 0
  OBVIOUS
<1>1. PICK node : node = SubSeq(id, 1, at - 1)
  OBVIOUS
<1>2. PICK sub : sub = SubSeq(id, at + 1, Len(id))
  OBVIOUS
<1>3. /\ node \in Seq(Char) /\ Len(node) = at - 1
      /\ \A i \in 1..(at - 1) : node[i] = id[i]
  BY <1>0, <1>1
<1>4. /\ sub \in Seq(Char) /\ Len(sub) = Len(id) - at
      /\ \A i \in 1..(Len(id) - at) : sub[i] = id[at + i]
  BY <1>0, <1>2
<1>5. PICK whole : whole = node \o <<Slash>> \o sub
  OBVIOUS
<1>6. /\ whole \in Seq(Char) /\ Len(whole) = Len(id)
      /\ whole[at] = Slash
      /\ \A i \in 1..(at - 1) : whole[i] = node[i]
      /\ \A i \in 1..(Len(id) - at) : whole[at + i] = sub[i]
  <2>1. /\ whole \in Seq(Char) /\ Len(whole) = Len(node) + 1 + Len(sub)
        /\ whole[Len(node) + 1] = Slash
        /\ \A i \in 1..Len(node) : whole[i] = node[i]
        /\ \A i \in 1..Len(sub)  : whole[Len(node) + 1 + i] = sub[i]
    BY <1>3, <1>4, <1>5, JoinedText
  <2>2. Len(node) + 1 = at /\ Len(node) + 1 + Len(sub) = Len(id)
    BY <1>0, <1>3, <1>4
  <2> QED
    BY <1>3, <1>4, <2>1, <2>2
<1>7. ASSUME NEW i \in 1..Len(id) PROVE whole[i] = id[i]
  <2>1. CASE i < at
    BY <1>0, <1>3, <1>6, <2>1
  <2>2. CASE i = at
    BY <1>6, <2>2
  <2>3. CASE i > at
    <3>1. i - at \in 1..(Len(id) - at) /\ at + (i - at) = i
      BY <1>0, <2>3
    <3> QED
      BY <1>4, <1>6, <3>1
  <2> QED
    BY <1>0, <2>1, <2>2, <2>3
<1>8. whole = id
  BY <1>6, <1>7, SeqEqual
<1> QED
  BY <1>1, <1>2, <1>3, <1>4, <1>5, <1>8

(* split_scoped undoes the joining when the node's part has no slash, and   *)
(* finds two parts that join to the same text when it has.                  *)
LEMMA SplitOfJoined ==
    ASSUME NEW node \in Seq(Char), NEW sub \in Seq(Char)
    PROVE  LET id == node \o <<Slash>> \o sub
               p  == split_scoped(id)
           IN  /\ HasSlash(id)
               /\ p.node \o <<Slash>> \o p.sub = id
               /\ ~HasSlash(node) => p.node = node /\ p.sub = sub
<1>1. PICK id : id = node \o <<Slash>> \o sub
  OBVIOUS
<1>2. /\ id \in Seq(Char) /\ Len(id) = Len(node) + 1 + Len(sub)
      /\ id[Len(node) + 1] = Slash
      /\ \A i \in 1..Len(node) : id[i] = node[i]
      /\ \A i \in 1..Len(sub)  : id[Len(node) + 1 + i] = sub[i]
  BY <1>1, JoinedText
<1>3. Len(node) \in Nat /\ Len(sub) \in Nat
  OBVIOUS
<1>4. HasSlash(id)
  <2>1. Len(node) + 1 \in 1..Len(id)
    BY <1>2, <1>3
  <2> QED
    BY <1>2, <2>1 DEF HasSlash
<1>5. PICK at \in 1..Len(id) :
          /\ at = FirstOf({i \in 1..Len(id) : id[i] = Slash})
          /\ id[at] = Slash
          /\ \A i \in 1..(at - 1) : id[i] # Slash
  BY <1>2, <1>4, FirstSlash
<1>6. /\ split_scoped(id).node = SubSeq(id, 1, at - 1)
      /\ split_scoped(id).sub = SubSeq(id, at + 1, Len(id))
  BY <1>5 DEF split_scoped
<1>7. split_scoped(id).node \o <<Slash>> \o split_scoped(id).sub = id
  BY <1>2, <1>5, <1>6, CutAt
<1>8. ASSUME ~HasSlash(node)
      PROVE  split_scoped(id).node = node /\ split_scoped(id).sub = sub
  <2>1. at = Len(node) + 1
    <3>1. ~(at < Len(node) + 1)
      <4> SUFFICES ASSUME at < Len(node) + 1 PROVE FALSE
        OBVIOUS
      <4>1. at \in 1..Len(node)
        BY <1>3
      <4> QED
        BY <1>2, <1>5, <1>8, <4>1 DEF HasSlash
    <3>2. ~(Len(node) + 1 < at)
      <4> SUFFICES ASSUME Len(node) + 1 < at PROVE FALSE
        OBVIOUS
      <4>1. Len(node) + 1 \in 1..(at - 1)
        BY <1>2, <1>3
      <4> QED
        BY <1>2, <1>5, <4>1
    <3> QED
      BY <1>2, <1>3, <3>1, <3>2
  <2>2. PICK a, b : a = SubSeq(id, 1, Len(node)) /\ b = SubSeq(id, Len(node) + 2, Len(id))
    OBVIOUS
  <2>3. a \in Seq(Char) /\ Len(a) = Len(node) /\ \A i \in 1..Len(node) : a[i] = id[i]
    BY <1>2, <1>3, <2>2
  <2>4. /\ b \in Seq(Char) /\ Len(b) = Len(sub)
        /\ \A i \in 1..Len(sub) : b[i] = id[Len(node) + 1 + i]
    BY <1>2, <1>3, <2>2
  <2>5. a = node
    BY <1>2, <2>3, SeqEqual
  <2>6. b = sub
    BY <1>2, <2>4, SeqEqual
  <2>7. at - 1 = Len(node) /\ at + 1 = Len(node) + 2
    BY <1>3, <2>1
  <2> QED
    BY <1>6, <2>2, <2>5, <2>6, <2>7
<1> QED
  BY <1>1, <1>4, <1>7, <1>8

(* The subject a row reads back as is stored under the same two columns,    *)
(* and is the subject itself unless the id of its node contains a slash.    *)
LEMMA SubjectReadsBack ==
    ASSUME NEW e \in EntityRef
    PROVE  LET back == subject_from_pair(e.kind, subject_id_str(e))
           IN  /\ back.kind = e.kind /\ subject_id_str(back) = subject_id_str(e)
               /\ \/ back = e
                  \/ e.kind \in Scoped /\ HasSlash(e.node)
<1>1. CASE e \in [kind : {"sidecar"}, id : Uuids]
  <2>1. e.kind = "sidecar" /\ e.kind \notin Scoped /\ e.id \in Uuids
    BY <1>1 DEF Scoped
  <2>2. e = Entity(e.kind, e.id)
    BY <1>1 DEF Entity
  <2>3. subject_id_str(e) = e.id
    BY <2>1 DEF subject_id_str
  <2>4. subject_from_pair(e.kind, e.id) = Entity(e.kind, e.id)
    BY <2>1, Zenon DEF subject_from_pair, Plain, Scoped
  <2> QED
    BY <2>2, <2>3, <2>4
<1>2. CASE e \in [kind : Plain, id : Seq(Char)]
  <2>1. e.kind \in Plain /\ e.kind # "sidecar" /\ e.kind \notin Scoped
    BY <1>2 DEF Plain, Scoped
  <2>2. e = Entity(e.kind, e.id)
    BY <1>2 DEF Entity
  <2>3. subject_id_str(e) = e.id
    BY <2>1 DEF subject_id_str
  <2>4. subject_from_pair(e.kind, e.id) = Entity(e.kind, e.id)
    BY <2>1, Zenon DEF subject_from_pair
  <2> QED
    BY <2>2, <2>3, <2>4
<1>3. CASE e \in [kind : Scoped, node : Seq(Char), sub : Seq(Char)]
  <2>1. /\ e.kind \in Scoped /\ e.kind \notin Plain /\ e.kind # "sidecar"
        /\ e.node \in Seq(Char) /\ e.sub \in Seq(Char)
    BY <1>3 DEF Plain, Scoped
  <2>2. e = ScopedEntity(e.kind, e.node, e.sub)
    BY <1>3 DEF ScopedEntity
  <2>3. PICK id : id = e.node \o <<Slash>> \o e.sub
    OBVIOUS
  <2>4. subject_id_str(e) = id
    BY <2>1, <2>3 DEF subject_id_str
  <2>5. PICK p : p = split_scoped(id)
    OBVIOUS
  <2>6. /\ HasSlash(id) /\ p.node \o <<Slash>> \o p.sub = id
        /\ ~HasSlash(e.node) => p.node = e.node /\ p.sub = e.sub
    BY <2>1, <2>3, <2>5, SplitOfJoined
  <2>7. subject_from_pair(e.kind, id) = ScopedEntity(e.kind, p.node, p.sub)
    BY <2>1, <2>5, <2>6, Zenon DEF subject_from_pair
  <2>8. PICK back : back = ScopedEntity(e.kind, p.node, p.sub)
    OBVIOUS
  <2>9. back.kind = e.kind /\ back.node = p.node /\ back.sub = p.sub
    BY <2>8 DEF ScopedEntity
  <2>10. subject_id_str(back) = id
    BY <2>1, <2>6, <2>9 DEF subject_id_str
  <2>11. ~HasSlash(e.node) => back = e
    BY <2>2, <2>6, <2>8
  <2> QED
    BY <2>1, <2>4, <2>7, <2>8, <2>9, <2>10, <2>11
<1> QED
  BY <1>1, <1>2, <1>3 DEF EntityRef
=============================================================================
