-------------------------- MODULE BootstrapProofs --------------------------
(***************************************************************************)
(* Proofs about Bootstrap, for any documents, variables, secrets and user  *)
(* catalogs, any names and any number of stops and errors.                 *)
(*                                                                         *)
(* Three arguments.  The id file: only a process that found none writes    *)
(* one, so that whoever is past it has what the file says.  The overrides: *)
(* until its variable is applied a key has the document's value, and other *)
(* variables do not touch it.  The verdict: the checks the service went    *)
(* through, and the parser's one pass is the grammar of names.             *)
(***************************************************************************)
EXTENDS Bootstrap, IdentifierProofs, FiniteSetTheorems, TLAPS

Fields == {"pc", "tables", "left", "id", "kinds", "error"}

ShapeInv ==
    /\ deployed \in Deployments
    /\ idFile \in {"absent", "torn"} \cup Ids /\ raced \in BOOLEAN
    /\ DOMAIN proc = Proc /\ \A p \in Proc : DOMAIN proc[p] = Fields

(* Where a process has an id, and where it has a validated configuration. *)
HasId     == {"pool", "build", "load", "start", "running"}
PastCheck == {"id", "create", "write"} \cup HasId

(* Unless two processes raced for the first id, one at most is making it,   *)
(* and all that have one have that of the file.                             *)
IdInv ==
    raced \/
        /\ \A p, q \in Proc : proc[p].pc = "create" /\ proc[q].pc = "create" => p = q
        /\ \A p, q \in Proc : proc[p].pc = "write" /\ proc[q].pc = "write" => p = q
        /\ \A p \in Proc : /\ proc[p].pc = "create" => idFile = "absent"
                           /\ proc[p].pc = "write" => idFile = "torn" /\ proc[p].id \in Ids
                           /\ proc[p].pc \in HasId => idFile = proc[p].id /\ idFile \in Ids
        /\ \A x \in ran : x = idFile /\ x \in Ids

(* A variable that no other spelling competes with, and that is not left    *)
(* alone: its key has the document's value before and the variable's after. *)
Value(tables, v) == At(At(tables, v.section, <<>>), v.key, Nothing)
Skipped(v)       == IsArray(v.section)

OverrideOf(p) ==
    \/ proc[p].tables = Nothing /\ proc[p].pc # "override"
    \/ /\ proc[p].left \subseteq deployed.overrides
       /\ \A v \in deployed.overrides :
             Twins(v) \/ Skipped(v)
             \/ Value(proc[p].tables, v) = IF v \in proc[p].left THEN InDocument(v)
                                           ELSE coerce_env_value(v.text, InDocument(v))

(* What a process has and knows of its configuration at each of its steps. *)
Building == build_polling_collectors /\ build_subscription_collectors /\ KindRegistry_load.ok

ConfigOf(p) ==
    /\ proc[p].pc = "write" => proc[p].id \in Ids
    /\ proc[p].pc \in {"override"} \cup PastCheck => document \notin {Nothing, Broken}
    /\ proc[p].pc \in PastCheck => validate_env_vars(p)
    /\ proc[p].pc \in {"load", "start", "running"} => Building
    /\ proc[p].pc \in {"start", "running"} => build_notification_rules
    /\ proc[p].kinds # Nothing => KindRegistry_load.ok /\ proc[p].kinds = KindRegistry_load.kinds
    /\ proc[p].error = "build" =>
          document \notin {Nothing, Broken} /\ ~(Building /\ build_notification_rules)
    /\ proc[p].error # "SecretNotResolved"

OverrideInv == \A p \in Proc : OverrideOf(p)
ConfigInv   == \A p \in Proc : ConfigOf(p)

Inv == ShapeInv /\ IdInv /\ OverrideInv /\ ConfigInv

-----------------------------------------------------------------------------
(* Names. *)

(* The positions that end and begin segments. *)
Cuts(s) == {0, Len(s) + 1} \cup {i \in DOMAIN s : s[i] = Dot}

(* There are more than two of them just when there is a dot. *)
LEMMA CutsFacts ==
    ASSUME NEW s \in Seq(Char)
    PROVE  /\ Cuts(s) \subseteq 0..(Len(s) + 1) /\ 0 \in Cuts(s) /\ Len(s) + 1 \in Cuts(s)
           /\ \A i \in 1..Len(s) : i \in Cuts(s) <=> s[i] = Dot
           /\ Cardinality(Cuts(s)) > 2 <=> \E i \in 1..Len(s) : s[i] = Dot
<1> DEFINE n == Len(s)
           D == {i \in DOMAIN s : s[i] = Dot}
<1>1. n \in Nat /\ DOMAIN s = 1..n
    OBVIOUS
<1> HIDE DEF n
<1>2. Cuts(s) = {0, n + 1} \cup D
    BY DEF Cuts, n
<1>3. /\ Cuts(s) \subseteq 0..(n + 1) /\ 0 \in Cuts(s) /\ n + 1 \in Cuts(s)
      /\ \A i \in 1..n : i \in Cuts(s) <=> s[i] = Dot
    BY <1>1, <1>2
<1>4. IsFiniteSet(0..(n + 1)) /\ IsFiniteSet(Cuts(s)) /\ Cardinality(Cuts(s)) \in Nat
    <2>1. 0 \in Int /\ n + 1 \in Int
        BY <1>1
    <2>2. IsFiniteSet(0..(n + 1))
        BY <2>1, FS_Interval
    <2>3. Cuts(s) \in SUBSET (0..(n + 1))
        BY <1>3
    <2>4. IsFiniteSet(Cuts(s))
        BY <2>2, <2>3, FS_Subset
    <2> QED
        BY <2>2, <2>4, FS_CardinalityType
<1> DEFINE ends == {0} \cup {n + 1}
<1>5. IsFiniteSet(ends) /\ Cardinality(ends) = 2
    <2> DEFINE zero == {0}
    <2>1. IsFiniteSet(zero) /\ Cardinality(zero) = 1
        BY FS_Singleton
    <2>2. n + 1 \notin zero
        BY <1>1
    <2> HIDE DEF zero
    <2>3. /\ IsFiniteSet(zero \cup {n + 1})
          /\ Cardinality(zero \cup {n + 1}) = Cardinality(zero) + 1
        BY <2>1, <2>2, FS_AddElement
    <2>4. Cardinality(zero \cup {n + 1}) = 2
        BY <2>1, <2>3
    <2> QED
        BY <2>3, <2>4, Zenon DEF zero
<1>6. Cuts(s) = ends \cup D /\ (\A d \in D : d \notin ends) /\ (D = {} => Cuts(s) = ends)
    BY <1>1, <1>2
<1>7. (\E i \in 1..n : s[i] = Dot) <=> D # {}
    BY <1>1
<1> HIDE DEF D, ends
<1>8. ASSUME D = {} PROVE Cardinality(Cuts(s)) = 2
    BY <1>5, <1>6, <1>8
<1>9. ASSUME D # {} PROVE Cardinality(Cuts(s)) > 2
    <2>1. PICK d \in D : TRUE
        BY <1>9
    <2>2. d \notin ends
        BY <1>6, <2>1
    <2>3. IsFiniteSet(ends \cup {d}) /\ Cardinality(ends \cup {d}) = 3
        BY <1>5, <2>2, FS_AddElement
    <2>4. ends \cup {d} \in SUBSET Cuts(s)
        BY <1>6, <2>1
    <2>5. Cardinality(ends \cup {d}) <= Cardinality(Cuts(s))
        BY <1>4, <2>4, FS_Subset
    <2> QED
        BY <1>4, <2>3, <2>5
<1> QED
    BY <1>3, <1>7, <1>8, <1>9 DEF n

(* What lies between two positions. *)
LEMMA Between ==
    ASSUME NEW s \in Seq(Char), NEW i \in 0..Len(s), NEW j \in 1..(Len(s) + 1), i < j
    PROVE  /\ SubSeq(s, i + 1, j - 1) # <<>> <=> i + 1 < j
           /\ i + 1 < j => SubSeq(s, i + 1, j - 1)[1] = s[i + 1]
           /\ (\A x \in DOMAIN SubSeq(s, i + 1, j - 1) : SubSeq(s, i + 1, j - 1)[x] \in Body)
                <=> \A k \in 1..Len(s) : i < k /\ k < j => s[k] \in Body
<1> DEFINE t == SubSeq(s, i + 1, j - 1)
<1>1. Len(s) \in Nat /\ \A k \in 1..Len(s) : s[k] \in Char
    OBVIOUS
<1>2. i + 1 \in Int /\ j - 1 \in Int /\ \A k \in (i + 1)..(j - 1) : s[k] \in Char
    BY <1>1
<1>3. /\ t \in Seq(Char)
      /\ Len(t) = IF i + 1 <= j - 1 THEN j - 1 - (i + 1) + 1 ELSE 0
      /\ \A x \in 1..(j - 1 - (i + 1) + 1) : t[x] = s[i + 1 + x - 1]
    BY <1>2, SubSeqProperties
<1> HIDE DEF t
<1>4. Len(t) = j - i - 1 /\ \A x \in 1..(j - i - 1) : t[x] = s[i + x]
    <2>1. j - 1 - (i + 1) + 1 = j - i - 1
        BY <1>1
    <2>2. \A x \in 1..(j - i - 1) : i + 1 + x - 1 = i + x
        BY <1>1
    <2> QED
        BY <1>1, <1>3, <2>1, <2>2
<1>5. t # <<>> <=> i + 1 < j
    BY <1>1, <1>3, <1>4, EmptySeq
<1>6. DOMAIN t = 1..(j - i - 1)
    BY <1>3, <1>4
<1>7. i + 1 < j => t[1] = s[i + 1]
    BY <1>1, <1>4
<1>8. ASSUME \A x \in DOMAIN t : t[x] \in Body, NEW k \in 1..Len(s), i < k, k < j
      PROVE  s[k] \in Body
    <2>1. k - i \in 1..(j - i - 1) /\ i + (k - i) = k
        BY <1>1, <1>8
    <2> QED
        BY <1>4, <1>6, <1>8, <2>1
<1>9. ASSUME \A k \in 1..Len(s) : i < k /\ k < j => s[k] \in Body, NEW x \in DOMAIN t
      PROVE  t[x] \in Body
    <2>1. x \in 1..(j - i - 1) /\ i + x \in 1..Len(s) /\ i < i + x /\ i + x < j
        BY <1>1, <1>6
    <2> QED
        BY <1>4, <1>9, <2>1
<1> QED
    BY <1>5, <1>7, <1>8, <1>9 DEF t

(* A name in terms of its cuts, without the pieces. *)
Grammatical(s) ==
    /\ \E i \in 1..Len(s) : s[i] = Dot
    /\ Len(s) =< MaxNameLen
    /\ \A i, j \in Cuts(s) : i < j /\ (\A k \in Cuts(s) : ~(i < k /\ k < j)) =>
          /\ i + 1 < j /\ s[i + 1] = Letter
          /\ \A k \in 1..Len(s) : i < k /\ k < j => s[k] \in Body

(* That is what the reference definition of a name says. *)
LEMMA NameFacts ==
    ASSUME NEW s \in Seq(Char)
    PROVE  IsName(s) <=> Grammatical(s)
<1>1. ASSUME NEW i \in Cuts(s), NEW j \in Cuts(s), i < j
      PROVE  IsSegment(SubSeq(s, i + 1, j - 1)) <=>
                 /\ i + 1 < j /\ s[i + 1] = Letter
                 /\ \A k \in 1..Len(s) : i < k /\ k < j => s[k] \in Body
    <2>1. i \in 0..Len(s) /\ j \in 1..(Len(s) + 1)
        <3>1. Len(s) \in Nat /\ i \in 0..(Len(s) + 1) /\ j \in 0..(Len(s) + 1)
            BY CutsFacts
        <3> QED
            BY <1>1, <3>1
    <2> QED
        BY <1>1, <2>1, Between DEF IsSegment
<1> QED
    BY <1>1, CutsFacts DEF IsName, Grammatical, Cuts

(* The parser's single pass accepts exactly the names of the grammar        *)
(* segment ("." segment)+: it is the reference definition, for texts of     *)
(* every length.                                                            *)
THEOREM ParserIsGrammar ==
    ASSUME NEW s \in Seq(Char)
    PROVE  parse_dotted_name(s).ok <=> IsName(s)
<1> DEFINE n == Len(s)
<1>1. n \in Nat /\ (s = <<>> <=> n = 0)
    BY EmptySeq
<1>2. /\ Cuts(s) \subseteq 0..(n + 1) /\ 0 \in Cuts(s) /\ n + 1 \in Cuts(s)
      /\ \A i \in 1..n : i \in Cuts(s) <=> s[i] = Dot
    BY CutsFacts
<1>3. Letter # Dot /\ \A c \in Body : c # Dot
    BY DEF Letter, Dot, Body
<1>4. ASSUME Accepts(s) PROVE Grammatical(s)
    <2>1. /\ n >= 1 /\ s[n] # Dot
          /\ \A i \in 1..n : IF s[i] = Dot THEN ~StartsSegment(s, i)
                             ELSE s[i] \in Body /\ (StartsSegment(s, i) => s[i] = Letter)
        BY <1>1, <1>4 DEF Accepts
    <2>2. ASSUME NEW i \in Cuts(s), NEW j \in Cuts(s), i < j, \A k \in Cuts(s) : ~(i < k /\ k < j)
          PROVE  /\ i + 1 < j /\ s[i + 1] = Letter
                 /\ \A k \in 1..n : i < k /\ k < j => s[k] \in Body
        <3>1. i \in 0..(n + 1) /\ j \in 0..(n + 1)
            BY <1>2
        <3>2. i < n
            <4>1. i # n \/ i = 0
                BY <1>1, <1>2, <2>1
            <4> QED
                BY <1>1, <2>1, <2>2, <3>1, <4>1
        <3>3. i + 1 \in 1..n /\ StartsSegment(s, i + 1)
            <4>1. i = 0 \/ s[i] = Dot
                BY <1>1, <1>2, <3>1, <3>2
            <4> QED
                BY <1>1, <3>1, <3>2, <4>1 DEF StartsSegment
        <3>4. s[i + 1] = Letter
            BY <2>1, <3>3
        <3>5. i + 1 \notin Cuts(s)
            BY <1>2, <1>3, <3>3, <3>4
        <3>6. i + 1 < j
            BY <2>2, <3>1, <3>5
        <3>7. ASSUME NEW k \in 1..n, i < k, k < j PROVE s[k] \in Body
            BY <1>2, <2>1, <2>2, <3>7
        <3> QED
            BY <3>4, <3>6, <3>7
    <2> QED
        BY <1>4, <2>2 DEF Accepts, Grammatical
<1>5. ASSUME Grammatical(s) PROVE Accepts(s)
    <2>1. \A i, j \in Cuts(s) : i < j /\ (\A k \in Cuts(s) : ~(i < k /\ k < j)) =>
              /\ i + 1 < j /\ s[i + 1] = Letter
              /\ \A k \in 1..n : i < k /\ k < j => s[k] \in Body
        BY <1>5 DEF Grammatical
    <2>2. n >= 1
        BY <1>1, <1>5 DEF Grammatical
    <2>3. ASSUME NEW i \in Cuts(s), i + 1 \in Cuts(s) PROVE FALSE
        <3>1. i \in 0..(n + 1)
            BY <1>2
        <3>2. i < i + 1 /\ \A k \in Cuts(s) : ~(i < k /\ k < i + 1)
            BY <1>2, <3>1
        <3>3. ~(i + 1 < i + 1)
            BY <3>1
        <3> QED
            BY <2>1, <2>3, <3>2, <3>3
    <2>4. s[n] # Dot
        <3>1. n \in 1..n
            BY <1>1, <2>2
        <3>2. n \notin Cuts(s)
            BY <1>2, <2>3
        <3> QED
            BY <1>2, <3>1, <3>2
    <2>5. ASSUME NEW k \in 1..n
          PROVE  IF s[k] = Dot THEN ~StartsSegment(s, k)
                 ELSE s[k] \in Body /\ (StartsSegment(s, k) => s[k] = Letter)
        <3>1. k - 1 \in 0..n /\ (k - 1) + 1 = k
            BY <1>1
        <3>2. StartsSegment(s, k) => k - 1 \in Cuts(s)
            <4>1. CASE k = 1
                BY <1>2, <4>1
            <4>2. CASE k # 1
                <5>1. k - 1 \in 1..n
                    BY <1>1, <4>2
                <5> QED
                    BY <1>2, <4>2, <5>1 DEF StartsSegment
            <4> QED
                BY <4>1, <4>2
        <3>3. CASE s[k] = Dot
            <4>1. k \in Cuts(s)
                BY <1>2, <3>3
            <4>2. ~StartsSegment(s, k)
                BY <2>3, <3>1, <3>2, <4>1
            <4> QED
                BY <3>3, <4>2
        <3>4. CASE s[k] # Dot
            <4> DEFINE L == {c \in Cuts(s) : c < k}
                       R == {c \in Cuts(s) : k < c}
            <4>1. L \subseteq 0..n /\ L # {}
                <5>1. 0 \in L
                    BY <1>2
                <5> QED
                    BY <1>1, <1>2, <5>1
            <4>2. PICK i \in L : \A c \in L : c <= i
                BY <1>1, <4>1, GreatestNumber
            <4>3. R \subseteq Nat /\ R # {}
                <5>1. n + 1 \in R
                    BY <1>1, <1>2
                <5> QED
                    BY <1>1, <1>2, <5>1
            <4>4. PICK j \in R : \A c \in R : j <= c
                BY <4>3, LeastNumber
            <4>5. i \in Cuts(s) /\ j \in Cuts(s) /\ i < k /\ k < j /\ i \in 0..(n + 1) /\ j \in 0..(n + 1)
                BY <1>2, <4>2, <4>4
            <4>6. k \notin Cuts(s)
                BY <1>2, <3>4
            <4>7. ASSUME NEW c \in Cuts(s), i < c, c < j PROVE FALSE
                <5>1. c \in 0..(n + 1) /\ c # k
                    BY <1>2, <4>6
                <5>2. CASE c < k
                    BY <4>2, <4>5, <4>7, <5>1, <5>2
                <5>3. CASE k < c
                    BY <4>4, <4>5, <4>7, <5>1, <5>3
                <5> QED
                    BY <5>1, <5>2, <5>3
            <4>8. i < j
                BY <4>5
            <4>9. s[i + 1] = Letter /\ s[k] \in Body
                BY <2>1, <4>5, <4>7, <4>8
            <4>10. StartsSegment(s, k) => i + 1 = k
                <5>1. ASSUME StartsSegment(s, k) PROVE i = k - 1
                    <6>1. k - 1 \in L
                        BY <3>1, <3>2, <5>1
                    <6>2. k - 1 <= i
                        BY <4>2, <6>1
                    <6> QED
                        BY <4>5, <6>2
                <5> QED
                    BY <5>1
            <4> QED
                BY <3>4, <4>9, <4>10
        <3> QED
            BY <3>3, <3>4
    <2> QED
        BY <1>1, <1>5, <2>2, <2>4, <2>5 DEF Accepts, Grammatical
<1> QED
    BY <1>4, <1>5, ParserFacts, NameFacts

-----------------------------------------------------------------------------
(* The registry. *)

(* Distinct names are as many as their entries. *)
LEMMA DistinctFacts ==
    ASSUME NEW entries \in Seq(Entry)
    PROVE  Distinct([i \in DOMAIN entries |-> entries[i].name])
               <=> Cardinality(Names(entries)) = Len(entries)
<1> DEFINE n == Len(entries)
           f == [i \in DOMAIN entries |-> entries[i].name]
           N == Names(entries)
<1>1. n \in Nat /\ DOMAIN entries = 1..n
    OBVIOUS
<1>2. f \in Surjection(1..n, N)
    BY <1>1 DEF Surjection, Names
<1>3. IsFiniteSet(1..n) /\ Cardinality(1..n) = n
    BY <1>1, FS_Interval
<1>4. Cardinality(N) = Cardinality(1..n) <=> f \in Injection(1..n, N)
    <2> HIDE DEF f, N
    <2> QED
        BY <1>2, <1>3, FS_Surjection
<1>5. f \in Injection(1..n, N) <=> \A i, j \in 1..n : f[i] = f[j] => i = j
    <2>1. f \in [1..n -> N]
        BY <1>2 DEF Surjection
    <2> HIDE DEF f, N, n
    <2> QED
        BY <2>1 DEF Injection, IsInjective
<1>6. Distinct(f) <=> \A i, j \in 1..n : f[i] = f[j] => i = j
    BY <1>1 DEF Distinct
<1> QED
    BY <1>3, <1>4, <1>5, <1>6

(* The entries a catalog may add to the kinds there are. *)
Insertable(taken, entries) ==
    /\ \A i \in DOMAIN entries : /\ IsName(entries[i].name)
                                 /\ entries[i].subjects \subseteq SubjectKind
                                 /\ entries[i].name \notin taken
    /\ Cardinality(Names(entries)) = Len(entries)

(* insert_from_toml adds such a catalog, every entry under its name, and    *)
(* keeps the kinds that were there; any other catalog it refuses.           *)
LEMMA InsertFacts ==
    ASSUME NEW kinds, NEW entries \in Seq(Entry)
    PROVE  LET res == insert_from_toml(kinds, entries)
           IN  /\ res.ok <=> Insertable(DOMAIN kinds, entries)
               /\ res.ok =>
                     /\ DOMAIN res.kinds = DOMAIN kinds \cup Names(entries)
                     /\ \A i \in DOMAIN entries : res.kinds[entries[i].name] = entries[i]
                     /\ \A k \in DOMAIN kinds : res.kinds[k] = kinds[k]
<1> DEFINE res == insert_from_toml(kinds, entries)
           merged == [k \in DOMAIN kinds \cup Names(entries) |->
                         IF k \in Names(entries) THEN SpecOf(entries, k) ELSE kinds[k]]
           distinct == Distinct([i \in DOMAIN entries |-> entries[i].name])
<1>1. \A i \in DOMAIN entries : entries[i].name \in Seq(Char)
    <2>1. \A i \in DOMAIN entries : entries[i] \in Entry
        OBVIOUS
    <2>2. \A e \in Entry : e.name \in Seq(Char)
        BY DEF Entry
    <2> QED
        BY <2>1, <2>2
<1>2. \A i \in DOMAIN entries : parse_dotted_name(entries[i].name).ok <=> IsName(entries[i].name)
    BY <1>1, ParserIsGrammar
<1>3. distinct <=> Cardinality(Names(entries)) = Len(entries)
    BY DistinctFacts
<1>4. res = IF Insertable(DOMAIN kinds, entries) THEN [ok |-> TRUE, kinds |-> merged] ELSE [ok |-> FALSE]
    <2> HIDE DEF merged, distinct
    <2>1. res = IF \/ \E i \in DOMAIN entries : \/ ~parse_dotted_name(entries[i].name).ok
                                              \/ ~(entries[i].subjects \subseteq SubjectKind)
                                              \/ entries[i].name \in DOMAIN kinds
                   \/ ~distinct
                  THEN [ok |-> FALSE] ELSE [ok |-> TRUE, kinds |-> merged]
        BY Zenon DEF insert_from_toml, merged, distinct
    <2> HIDE DEF res
    <2> QED
        BY <1>2, <1>3, <2>1 DEF Insertable
<1>5. res.ok <=> Insertable(DOMAIN kinds, entries)
    BY <1>4
<1>6. ASSUME res.ok
      PROVE  /\ DOMAIN res.kinds = DOMAIN kinds \cup Names(entries)
             /\ \A i \in DOMAIN entries : res.kinds[entries[i].name] = entries[i]
             /\ \A k \in DOMAIN kinds : res.kinds[k] = kinds[k]
    <2>1. Insertable(DOMAIN kinds, entries) /\ res.kinds = merged
        <3> HIDE DEF merged, res
        <3> QED
            BY <1>4, <1>5, <1>6
    <2>2. DOMAIN res.kinds = DOMAIN kinds \cup Names(entries)
        BY <2>1
    <2>3. ASSUME NEW i \in DOMAIN entries
          PROVE  res.kinds[entries[i].name] = entries[i]
        <3>1. distinct
            BY <1>3, <2>1 DEF Insertable
        <3>2. \A j \in DOMAIN entries : entries[j].name = entries[i].name => j = i
            BY <3>1 DEF Distinct
        <3>3. i \in Int /\ i <= i
            BY SeqDef
        <3>4. SpecOf(entries, entries[i].name) = entries[i]
            <4> DEFINE P(x) == /\ entries[x].name = entries[i].name
                               /\ \A j \in DOMAIN entries : entries[j].name = entries[i].name => j =< x
            <4>1. P(i)
                BY <3>2, <3>3
            <4>2. \A x \in DOMAIN entries : P(x) => x = i
                BY <3>2
            <4>3. (CHOOSE x \in DOMAIN entries : P(x)) = i
                BY <4>1, <4>2
            <4> QED
                BY <4>3 DEF SpecOf
        <3>5. entries[i].name \in Names(entries)
            BY DEF Names
        <3> QED
            BY <2>1, <3>4, <3>5
    <2>4. \A k \in DOMAIN kinds : k \notin Names(entries)
        BY <2>1 DEF Insertable, Names
    <2>5. \A k \in DOMAIN kinds : res.kinds[k] = kinds[k]
        BY <2>1, <2>4
    <2> QED
        BY <2>2, <2>3, <2>5
<1> QED
    BY <1>5, <1>6

(* The two names that are built in. *)
LEMMA BuiltinNames ==
    /\ NodeKind \in Seq(Char) /\ IsName(NodeKind)
    /\ SidecarKind \in Seq(Char) /\ IsName(SidecarKind)
    /\ NodeKind # SidecarKind
<1>1. /\ Len(NodeKind) = 3 /\ NodeKind[1] = "a" /\ NodeKind[2] = "." /\ NodeKind[3] = "a"
    BY DEF NodeKind
<1>2. /\ Len(SidecarKind) = 4 /\ SidecarKind[1] = "a" /\ SidecarKind[2] = "."
      /\ SidecarKind[3] = "a" /\ SidecarKind[4] = "a"
    BY DEF SidecarKind
<1>3. NodeKind \in Seq(Char) /\ SidecarKind \in Seq(Char)
    BY DEF NodeKind, SidecarKind, Char, Body, Dot
<1>4. 3 =< MaxNameLen /\ 4 =< MaxNameLen
    <2>1. /\ 1 \in DOMAIN BUILTIN_KINDS /\ 2 \in DOMAIN BUILTIN_KINDS
          /\ BUILTIN_KINDS[1].name = NodeKind /\ BUILTIN_KINDS[2].name = SidecarKind
        BY DEF BUILTIN_KINDS
    <2>2. Len(NodeKind) =< MaxNameLen /\ Len(SidecarKind) =< MaxNameLen
        BY <2>1, BuiltinAssumption
    <2> QED
        BY <1>1, <1>2, <2>2
<1>5. NodeKind # <<>> /\ SidecarKind # <<>> /\ NodeKind # SidecarKind
    BY <1>1, <1>2
<1>6. (\A i \in 1..3 : i = 1 \/ i = 2 \/ i = 3) /\ (\A i \in 1..4 : i = 1 \/ i = 2 \/ i = 3 \/ i = 4)
    OBVIOUS
<1>7. Accepts(NodeKind)
    <2>1. /\ ~StartsSegment(NodeKind, 2)
          /\ 1 \in 1..3 /\ 2 \in 1..3 /\ 3 \in 1..3
        BY <1>1 DEF StartsSegment, Dot
    <2> QED
        BY <1>1, <1>4, <1>5, <1>6, <2>1 DEF Accepts, Letter, Body, Dot
<1>8. Accepts(SidecarKind)
    <2>1. /\ ~StartsSegment(SidecarKind, 2) /\ ~StartsSegment(SidecarKind, 4)
          /\ 1 \in 1..4 /\ 2 \in 1..4 /\ 3 \in 1..4 /\ 4 \in 1..4
        BY <1>2 DEF StartsSegment, Dot
    <2> QED
        BY <1>2, <1>4, <1>5, <1>6, <2>1 DEF Accepts, Letter, Body, Dot
<1> QED
    BY <1>3, <1>5, <1>7, <1>8, ParserFacts, ParserIsGrammar

(* The registry of the built-in kinds is well formed. *)
LEMMA BuiltinFacts ==
    /\ BUILTIN_KINDS \in Seq(Entry) /\ DOMAIN BUILTIN_KINDS = {1, 2}
    /\ Names(BUILTIN_KINDS) = {NodeKind, SidecarKind}
    /\ Insertable({}, BUILTIN_KINDS)
<1> DEFINE b1 == [name |-> NodeKind, subjects |-> {"BitcoinNode"}, dimension |-> FALSE, floor |-> "High"]
           b2 == [name |-> SidecarKind, subjects |-> {"Sidecar"}, dimension |-> TRUE, floor |-> "High"]
<1>1. BUILTIN_KINDS = <<b1, b2>>
    BY DEF BUILTIN_KINDS
<1>2. b1 \in Entry /\ b2 \in Entry
    <2>1. \A n \in Seq(Char), x \in SubjectKind \cup {"Unknown"}, d \in BOOLEAN :
              [name |-> n, subjects |-> {x}, dimension |-> d, floor |-> "High"] \in Entry
        BY DEF Entry
    <2>2. "BitcoinNode" \in SubjectKind /\ "Sidecar" \in SubjectKind
        BY DEF SubjectKind
    <2> QED
        BY <2>1, <2>2, BuiltinNames
<1>3. /\ b1.name = NodeKind /\ b1.subjects \subseteq SubjectKind
      /\ b2.name = SidecarKind /\ b2.subjects \subseteq SubjectKind
    BY DEF SubjectKind
<1> HIDE DEF b1, b2
<1>4. /\ BUILTIN_KINDS \in Seq(Entry) /\ DOMAIN BUILTIN_KINDS = {1, 2} /\ Len(BUILTIN_KINDS) = 2
      /\ BUILTIN_KINDS[1] = b1 /\ BUILTIN_KINDS[2] = b2
    BY <1>1, <1>2
<1>5. Names(BUILTIN_KINDS) = {NodeKind, SidecarKind}
    BY <1>3, <1>4 DEF Names
<1>6. Distinct([i \in DOMAIN BUILTIN_KINDS |-> BUILTIN_KINDS[i].name])
    BY <1>3, <1>4, BuiltinNames DEF Distinct
<1>7. Cardinality(Names(BUILTIN_KINDS)) = Len(BUILTIN_KINDS)
    BY <1>4, <1>6, DistinctFacts
<1> QED
    BY <1>3, <1>4, <1>5, <1>7, BuiltinNames DEF Insertable

Addable ==
    \/ deployed.catalog = Nothing
    \/ deployed.catalog # Broken /\ Insertable(Names(BUILTIN_KINDS), deployed.catalog)

(* The registry is loaded just when the user's catalog can be added to the  *)
(* built-in kinds, and these are in it as they were.                        *)
LEMMA RegistryFacts ==
    ASSUME deployed \in Deployments
    PROVE  /\ KindRegistry_load.ok <=>
                  Addable
           /\ KindRegistry_load.ok =>
                  /\ \A i \in DOMAIN BUILTIN_KINDS :
                        /\ BUILTIN_KINDS[i].name \in DOMAIN KindRegistry_load.kinds
                        /\ KindRegistry_load.kinds[BUILTIN_KINDS[i].name] = BUILTIN_KINDS[i]
                  /\ validate_draft(KindRegistry_load.kinds, RuleDraft)
<1> DEFINE builtin == insert_from_toml(<<>>, BUILTIN_KINDS)
           added   == insert_from_toml(builtin.kinds, deployed.catalog)
           user    == deployed.catalog \notin {Nothing, Broken}
<1>1. user => deployed.catalog \in Seq(Entry)
    BY BootAssumption
<1>2. /\ builtin.ok /\ DOMAIN builtin.kinds = Names(BUILTIN_KINDS)
      /\ \A i \in DOMAIN BUILTIN_KINDS :
            /\ BUILTIN_KINDS[i].name \in DOMAIN builtin.kinds
            /\ builtin.kinds[BUILTIN_KINDS[i].name] = BUILTIN_KINDS[i]
    <2>1. DOMAIN <<>> = {}
        OBVIOUS
    <2>2. /\ builtin.ok <=> Insertable(DOMAIN <<>>, BUILTIN_KINDS)
          /\ builtin.ok =>
                /\ DOMAIN builtin.kinds = DOMAIN <<>> \cup Names(BUILTIN_KINDS)
                /\ \A i \in DOMAIN BUILTIN_KINDS : builtin.kinds[BUILTIN_KINDS[i].name] = BUILTIN_KINDS[i]
        BY BuiltinFacts, InsertFacts
    <2> HIDE DEF builtin
    <2>3. builtin.ok
        BY <2>1, <2>2, BuiltinFacts
    <2>4. \A i \in DOMAIN BUILTIN_KINDS : BUILTIN_KINDS[i].name \in Names(BUILTIN_KINDS)
        BY DEF Names
    <2>5. DOMAIN builtin.kinds = Names(BUILTIN_KINDS)
        BY <2>1, <2>2, <2>3
    <2> QED
        BY <2>2, <2>3, <2>4, <2>5
<1>3. user =>
        /\ added.ok <=> Insertable(DOMAIN builtin.kinds, deployed.catalog)
        /\ added.ok =>
              /\ DOMAIN added.kinds = DOMAIN builtin.kinds \cup Names(deployed.catalog)
              /\ \A k \in DOMAIN builtin.kinds : added.kinds[k] = builtin.kinds[k]
    <2> HIDE DEF builtin
    <2> QED
        BY <1>1, InsertFacts
<1>4. KindRegistry_load = IF deployed.catalog = Nothing THEN builtin
                          ELSE IF deployed.catalog = Broken THEN [ok |-> FALSE] ELSE added
    BY DEF KindRegistry_load
<1> HIDE DEF builtin, added
<1>5. KindRegistry_load.ok <=>
          Addable
    BY <1>2, <1>3, <1>4 DEF Addable
<1>6. ASSUME KindRegistry_load.ok, NEW i \in DOMAIN BUILTIN_KINDS
      PROVE  /\ BUILTIN_KINDS[i].name \in DOMAIN KindRegistry_load.kinds
             /\ KindRegistry_load.kinds[BUILTIN_KINDS[i].name] = BUILTIN_KINDS[i]
    <2> DEFINE name == BUILTIN_KINDS[i].name
               loaded == KindRegistry_load
    <2>1. name \in DOMAIN builtin.kinds /\ builtin.kinds[name] = BUILTIN_KINDS[i]
        BY <1>2
    <2> HIDE DEF name, loaded
    <2>2. name \in DOMAIN loaded.kinds /\ loaded.kinds[name] = BUILTIN_KINDS[i]
        <3>1. loaded = IF deployed.catalog = Nothing THEN builtin
                       ELSE IF deployed.catalog = Broken THEN [ok |-> FALSE] ELSE added
            BY <1>4 DEF loaded
        <3>2. loaded.ok
            BY <1>6 DEF loaded
        <3> QED
            BY <1>3, <2>1, <3>1, <3>2
    <2> QED
        BY <2>2 DEF name, loaded
<1>7. ASSUME KindRegistry_load.ok PROVE validate_draft(KindRegistry_load.kinds, RuleDraft)
    <2>1. /\ 1 \in DOMAIN BUILTIN_KINDS /\ BUILTIN_KINDS[1].name = NodeKind
          /\ "BitcoinNode" \in BUILTIN_KINDS[1].subjects /\ BUILTIN_KINDS[1].dimension = FALSE
        BY BuiltinFacts DEF BUILTIN_KINDS
    <2>2. /\ NodeKind \in DOMAIN KindRegistry_load.kinds
          /\ KindRegistry_load.kinds[NodeKind] = BUILTIN_KINDS[1]
        BY <1>6, <1>7, <2>1
    <2>3. RuleDraft.kind = NodeKind /\ RuleDraft.subject = "BitcoinNode" /\ RuleDraft.dimension = FALSE
        BY DEF RuleDraft
    <2> HIDE DEF RuleDraft
    <2> QED
        BY <2>1, <2>2, <2>3 DEF validate_draft
<1> QED
    BY <1>5, <1>6, <1>7

-----------------------------------------------------------------------------
(* The document. *)

(* A document that was read has lists of nodes, collectors and rules. *)
LEMMA DocumentFacts ==
    ASSUME deployed \in Deployments, document \notin {Nothing, Broken}
    PROVE  \A i \in DOMAIN document.rules : \A j \in DOMAIN document.rules[i].kinds :
               document.rules[i].kinds[j] \in Seq(Char)
<1>1. resolve_config_path \in Path
    BY DEF resolve_config_path, Path
<1>2. document.rules \in Seq(Rule)
    BY <1>1, BootAssumption DEF document
<1>3. \A i \in DOMAIN document.rules : document.rules[i] \in Rule
    BY <1>2
<1>4. \A r \in Rule : r.kinds \in Seq(Seq(Char))
    BY DEF Rule
<1>5. \A r \in Rule : \A j \in DOMAIN r.kinds : r.kinds[j] \in Seq(Char)
    BY <1>4
<1> QED
    BY <1>3, <1>5

(* The names of the rules parse just when they are names. *)
LEMMA RuleNames ==
    ASSUME deployed \in Deployments, document \notin {Nothing, Broken}
    PROVE  build_notification_rules <=>
               \A i \in DOMAIN document.rules : \A j \in DOMAIN document.rules[i].kinds :
                   IsName(document.rules[i].kinds[j])
BY DocumentFacts, ParserIsGrammar DEF build_notification_rules

(* The collectors that are built are those of Bitcoin Core's RPC with a     *)
(* node of their kind and a URL that parses.                                *)
Served ==
    \A i \in DOMAIN document.collectors :
        /\ document.collectors[i].integration = "bitcoin_core_rpc"
        /\ document.collectors[i].kind = "bitcoin_node"
        /\ \E j \in DOMAIN document.nodes :
              /\ document.nodes[j].kind = "bitcoin_node"
              /\ document.nodes[j].id = document.collectors[i].target
              /\ document.nodes[j].url

(* The two builders together accept exactly those collectors. *)
LEMMA CollectorFacts ==
    build_polling_collectors /\ build_subscription_collectors <=> Served
<1>1. \A c : collector_target(c).kind = c.kind /\ collector_target(c).id = c.target
    BY DEF collector_target
<1>2. \A c : BuildsRpc(c) <=>
          /\ c.kind = "bitcoin_node"
          /\ \E j \in DOMAIN document.nodes :
                /\ document.nodes[j].kind = "bitcoin_node"
                /\ document.nodes[j].id = c.target
                /\ document.nodes[j].url
    BY <1>1 DEF BuildsRpc, BitcoinCoreRpcCollector_new, node_registry_from_config
<1>3. build_polling_collectors <=>
          \A i \in DOMAIN document.collectors :
              \/ document.collectors[i].integration \in {"bitcoin_core_zmq", "lnd_grpc_stream"}
              \/ document.collectors[i].integration = "bitcoin_core_rpc" /\ BuildsRpc(document.collectors[i])
    BY DEF build_polling_collectors
<1>4. (build_polling_collectors /\ build_subscription_collectors) <=>
          \A i \in DOMAIN document.collectors :
              /\ document.collectors[i].integration = "bitcoin_core_rpc"
              /\ BuildsRpc(document.collectors[i])
    BY <1>3 DEF build_subscription_collectors
<1> QED
    BY <1>2, <1>4 DEF Served

(* A secret that is referred to has its variable once these were checked,   *)
(* and is in the map that was made of the references.                       *)
LEMMA SecretFacts ==
    /\ \A i \in DOMAIN document.nodes : Resolved(document.nodes[i].secret)
    /\ \A i \in DOMAIN document.rules : Resolved(document.rules[i].secret)
    /\ Resolved(document.telegram)
    /\ \A p \in Proc : validate_env_vars(p) =>
          /\ \A i \in DOMAIN document.nodes : document.nodes[i].secret \in deployed.secrets[p] \cup {NoSecret}
          /\ \A i \in DOMAIN document.rules : document.rules[i].secret \in deployed.secrets[p] \cup {NoSecret}
          /\ document.telegram \in deployed.secrets[p] \cup {NoSecret}
<1>1. /\ \A i \in DOMAIN document.nodes : document.nodes[i].secret \in collect_env_refs \cup {NoSecret}
      /\ \A i \in DOMAIN document.rules : document.rules[i].secret \in collect_env_refs \cup {NoSecret}
      /\ document.telegram \in collect_env_refs \cup {NoSecret}
    BY DEF collect_env_refs
<1> QED
    BY <1>1 DEF Resolved, validate_env_vars

(* Building and the rules succeed on a complete configuration, and only on  *)
(* one whose secrets are the only thing left to check.                      *)
LEMMA CompleteFacts ==
    ASSUME deployed \in Deployments, document \notin {Nothing, Broken}, NEW p \in Proc
    PROVE  /\ Complete(p) => Building /\ build_notification_rules
           /\ Building /\ build_notification_rules /\ validate_env_vars(p) => Complete(p)
<1>1. Building <=> /\ Served
                   /\ Addable
    BY CollectorFacts, RegistryFacts DEF Building
<1>2. build_notification_rules <=>
          \A i \in DOMAIN document.rules : \A j \in DOMAIN document.rules[i].kinds :
              IsName(document.rules[i].kinds[j])
    BY RuleNames
<1>3. ASSUME Complete(p) PROVE Building /\ build_notification_rules
    <2>1. Served
        BY <1>3 DEF Complete, Served
    <2>2. Addable
        BY <1>3 DEF Complete, Insertable, Addable
    <2>3. build_notification_rules
        BY <1>2, <1>3 DEF Complete
    <2> QED
        BY <1>1, <2>1, <2>2, <2>3
<1>4. ASSUME Building, build_notification_rules, validate_env_vars(p) PROVE Complete(p)
    <2>1. /\ \A i \in DOMAIN document.nodes : document.nodes[i].secret \in deployed.secrets[p] \cup {NoSecret}
          /\ \A i \in DOMAIN document.rules : document.rules[i].secret \in deployed.secrets[p] \cup {NoSecret}
          /\ document.telegram \in deployed.secrets[p] \cup {NoSecret}
        BY <1>4, SecretFacts
    <2>2. /\ Served
          /\ Addable
        BY <1>1, <1>4
    <2>3. \A i \in DOMAIN document.collectors :
              /\ document.collectors[i].integration = "bitcoin_core_rpc"
              /\ \E j \in DOMAIN document.nodes :
                    /\ document.nodes[j].kind = "bitcoin_node" /\ document.collectors[i].kind = "bitcoin_node"
                    /\ document.nodes[j].id = document.collectors[i].target
                    /\ document.nodes[j].url
                    /\ document.nodes[j].secret \in deployed.secrets[p] \cup {NoSecret}
        BY <2>1, <2>2 DEF Served
    <2>4. deployed.catalog # Nothing =>
              /\ deployed.catalog # Broken
              /\ \A i \in DOMAIN deployed.catalog :
                    /\ IsName(deployed.catalog[i].name)
                    /\ deployed.catalog[i].name \notin Names(BUILTIN_KINDS)
                    /\ deployed.catalog[i].subjects \subseteq SubjectKind
              /\ Cardinality(Names(deployed.catalog)) = Len(deployed.catalog)
        BY <2>2 DEF Addable, Insertable
    <2> QED
        BY <1>2, <1>4, <2>1, <2>3, <2>4 DEF Complete
<1> QED
    BY <1>3, <1>4

-----------------------------------------------------------------------------
(* The overrides. *)

(* A variable sets its own key and leaves every other as it was. *)
LEMMA OverrideFacts ==
    ASSUME NEW tables, NEW v, NEW w
    PROVE  /\ ~Skipped(v) => Value(Overridden(tables, v), v) = coerce_env_value(v.text, Value(tables, v))
           /\ w.section # v.section \/ w.key # v.key => Value(Overridden(tables, v), w) = Value(tables, w)
<1> DEFINE section == At(tables, v.section, <<>>)
           new     == coerce_env_value(v.text, At(section, v.key, Nothing))
           res     == Overridden(tables, v)
<1>1. \A f, x, y, a, d : At(Put(f, x, a), y, d) = IF y = x THEN a ELSE At(f, y, d)
    BY DEF At, Put
<1>2. res = IF Skipped(v) THEN tables ELSE Put(tables, v.section, Put(section, v.key, new))
    BY DEF Overridden, Skipped
<1>3. new = coerce_env_value(v.text, Value(tables, v))
    BY DEF Value
<1> HIDE DEF new, res
<1>4. ASSUME ~Skipped(v)
      PROVE  \A y : At(res, y, <<>>) = IF y = v.section THEN Put(section, v.key, new)
                                       ELSE At(tables, y, <<>>)
    BY <1>1, <1>2, <1>4
<1>5. ASSUME ~Skipped(v) PROVE Value(res, v) = new
    BY <1>1, <1>4, <1>5 DEF Value
<1>6. ASSUME w.section # v.section \/ w.key # v.key PROVE Value(res, w) = Value(tables, w)
    <2>1. CASE Skipped(v)
        BY <1>2, <2>1
    <2>2. CASE ~Skipped(v) /\ w.section # v.section
        BY <1>4, <2>2 DEF Value
    <2>3. CASE ~Skipped(v) /\ w.section = v.section
        <3>1. At(res, w.section, <<>>) = Put(section, v.key, new)
            BY <1>4, <2>3
        <3>2. At(Put(section, v.key, new), w.key, Nothing) = At(section, w.key, Nothing)
            BY <1>1, <1>6, <2>3
        <3> QED
            BY <2>3, <3>1, <3>2 DEF Value
    <2> QED
        BY <2>1, <2>2, <2>3
<1> QED
    BY <1>3, <1>5, <1>6 DEF res

-----------------------------------------------------------------------------
(* The steps. *)

(* What the operator wrote stays, and all that follows from it. *)
LEMMA SameSetting ==
    ASSUME deployed' = deployed
    PROVE  /\ document' = document
           /\ Building' <=> Building
           /\ build_notification_rules' <=> build_notification_rules
           /\ KindRegistry_load' = KindRegistry_load
           /\ \A p \in Proc : validate_env_vars(p)' <=> validate_env_vars(p)
           /\ \A v : /\ Twins(v)' <=> Twins(v)
                     /\ Skipped(v)' <=> Skipped(v)
                     /\ InDocument(v)' = InDocument(v)
<1>1. document' = document
    BY DEF document, resolve_config_path
<1>2. KindRegistry_load' = KindRegistry_load
    BY Zenon DEF KindRegistry_load
<1>3. build_notification_rules' <=> build_notification_rules
    BY <1>1 DEF build_notification_rules
<1>4. build_polling_collectors' <=> build_polling_collectors
    BY <1>1 DEF build_polling_collectors, BuildsRpc, node_registry_from_config
<1>5. build_subscription_collectors' <=> build_subscription_collectors
    BY <1>1 DEF build_subscription_collectors
<1>6. \A p \in Proc : validate_env_vars(p)' <=> validate_env_vars(p)
    BY <1>1 DEF validate_env_vars, collect_env_refs
<1>7. \A v : /\ Twins(v)' <=> Twins(v)
             /\ Skipped(v)' <=> Skipped(v)
             /\ InDocument(v)' = InDocument(v)
    BY <1>1 DEF Twins, Skipped, IsArray, InDocument
<1> QED
    BY <1>1, <1>2, <1>3, <1>4, <1>5, <1>6, <1>7 DEF Building

(* A step of p: where it leaves it, and the other process as it was. *)
Moves(p, pc, tables, left, id, kinds, error) ==
    /\ DOMAIN proc' = Proc /\ DOMAIN proc'[p] = Fields
    /\ \A q \in Proc \ {p} : proc'[q] = proc[q]
    /\ proc'[p].pc = pc /\ proc'[p].tables = tables /\ proc'[p].left = left
    /\ proc'[p].id = id /\ proc'[p].kinds = kinds /\ proc'[p].error = error

(* Going on to another step. *)
LEMMA GotoMoves ==
    ASSUME ShapeInv, NEW p \in Proc, NEW pc, Goto(p, pc)
    PROVE  Moves(p, pc, proc[p].tables, proc[p].left, proc[p].id, proc[p].kinds, proc[p].error)
BY DEF Goto, Moves, ShapeInv, Fields

(* Ending with an error. *)
LEMMA FailMoves ==
    ASSUME ShapeInv, NEW p \in Proc, NEW error, Fail(p, error)
    PROVE  Moves(p, "exit78", proc[p].tables, proc[p].left, proc[p].id, proc[p].kinds, error)
BY DEF Fail, Moves, ShapeInv, Fields

(* The invariant after a step of p needs to be shown of p and the file. *)
LEMMA StepInv ==
    ASSUME Inv, NEW p \in Proc, deployed' = deployed, idFile' \in {"absent", "torn"} \cup Ids, raced' \in BOOLEAN,
           NEW pc, NEW tables, NEW left, NEW id, NEW kinds, NEW error,
           Moves(p, pc, tables, left, id, kinds, error),
           IdInv', OverrideOf(p)', ConfigOf(p)'
    PROVE  Inv'
<1>1. ShapeInv'
    BY DEF Inv, ShapeInv, Moves
<1>2. ASSUME NEW q \in Proc PROVE OverrideOf(q)'
    <2>1. CASE q = p
        BY <2>1
    <2>2. CASE q # p
        <3>1. proc'[q] = proc[q] /\ OverrideOf(q)
            BY <2>2 DEF Moves, Inv, OverrideInv
        <3> QED
            BY <3>1, SameSetting DEF OverrideOf
    <2> QED
        BY <2>1, <2>2
<1>3. ASSUME NEW q \in Proc PROVE ConfigOf(q)'
    <2>1. CASE q = p
        BY <2>1
    <2>2. CASE q # p
        <3>1. proc'[q] = proc[q] /\ ConfigOf(q)
            BY <2>2 DEF Moves, Inv, ConfigInv
        <3> QED
            BY <3>1, SameSetting DEF ConfigOf
    <2> QED
        BY <2>1, <2>2
<1> QED
    BY <1>1, <1>2, <1>3 DEF Inv, OverrideInv, ConfigInv

(* A step that keeps the tables keeps what is known of them. *)
LEMMA SameOverrides ==
    ASSUME OverrideInv, NEW p \in Proc, deployed' = deployed,
           proc'[p].tables = proc[p].tables, proc'[p].left = proc[p].left, proc'[p].pc # "override"
    PROVE  OverrideOf(p)'
<1>1. OverrideOf(p)
    BY DEF OverrideInv
<1> QED
    BY <1>1, SameSetting DEF OverrideOf

(* So does one that forgets them. *)
LEMMA NoOverrides ==
    ASSUME NEW p \in Proc, proc'[p].tables = Nothing, proc'[p].pc # "override"
    PROVE  OverrideOf(p)'
BY DEF OverrideOf

(* A step that leaves the id file alone and makes no id. *)
LEMMA SameIds ==
    ASSUME IdInv, NEW p \in Proc, UNCHANGED <<idFile, ran, raced>>,
           \A q \in Proc \ {p} : proc'[q] = proc[q],
           proc'[p].pc \notin {"create", "write"},
           proc'[p].pc \in HasId => proc[p].pc \in HasId /\ proc'[p].id = proc[p].id
    PROVE  IdInv'
<1> SUFFICES ASSUME ~raced
             PROVE  IdInv'
    BY DEF IdInv
<1>1. /\ \A q, r \in Proc : proc[q].pc = "create" /\ proc[r].pc = "create" => q = r
      /\ \A q, r \in Proc : proc[q].pc = "write" /\ proc[r].pc = "write" => q = r
      /\ \A q \in Proc : /\ proc[q].pc = "create" => idFile = "absent"
                         /\ proc[q].pc = "write" => idFile = "torn" /\ proc[q].id \in Ids
                         /\ proc[q].pc \in HasId => idFile = proc[q].id /\ idFile \in Ids
      /\ \A x \in ran : x = idFile /\ x \in Ids
    BY DEF IdInv
<1>2. \A q \in Proc : proc'[q].pc \in {"create", "write"} => q # p /\ proc'[q] = proc[q]
    OBVIOUS
<1>3. /\ \A q, r \in Proc : proc'[q].pc = "create" /\ proc'[r].pc = "create" => q = r
      /\ \A q, r \in Proc : proc'[q].pc = "write" /\ proc'[r].pc = "write" => q = r
    BY <1>1, <1>2
<1>4. ASSUME NEW q \in Proc
      PROVE  /\ proc'[q].pc = "create" => idFile' = "absent"
             /\ proc'[q].pc = "write" => idFile' = "torn" /\ proc'[q].id \in Ids
             /\ proc'[q].pc \in HasId => idFile' = proc'[q].id /\ idFile' \in Ids
    BY <1>1, <1>2
<1> QED
    BY <1>1, <1>3, <1>4 DEF IdInv

-----------------------------------------------------------------------------
(* One lemma for each step. *)

(* The invariant holds before anything was started. *)
LEMMA InitInv == Init => Inv
<1> SUFFICES ASSUME Init
             PROVE  Inv
    OBVIOUS
<1>1. DOMAIN proc = Proc /\ \A p \in Proc : proc[p] = Off
    BY DEF Init
<1>2. /\ DOMAIN Off = Fields
      /\ Off.pc = "off" /\ Off.tables = Nothing /\ Off.kinds = Nothing /\ Off.error = "none"
    BY DEF Off, Fields
<1>3. ShapeInv
    BY <1>1, <1>2 DEF Init, ShapeInv
<1>4. IdInv
    BY <1>1, <1>2 DEF Init, IdInv, HasId
<1>5. OverrideInv
    BY <1>1, <1>2 DEF OverrideInv, OverrideOf
<1>6. ConfigInv
    BY <1>1, <1>2 DEF ConfigInv, ConfigOf, PastCheck, HasId
<1> QED
    BY <1>3, <1>4, <1>5, <1>6 DEF Inv

(* A process that is started, or ended from outside, has forgotten all. *)
LEMMA StartInv ==
    ASSUME Inv, NEW p \in Proc, Start(p) \/ Stop(p)
    PROVE  Inv'
<1>1. PICK pc \in {"off", "read"} : proc' = [proc EXCEPT ![p] = [Off EXCEPT !.pc = pc]]
    <2>1. [Off EXCEPT !.pc = "off"] = Off
        BY DEF Off
    <2> QED
        BY <2>1 DEF Start, Stop
<1>2. deployed' = deployed /\ UNCHANGED <<idFile, ran, raced>>
    BY DEF Start, Stop
<1>3. Moves(p, pc, Nothing, {}, Nothing, Nothing, "none")
    BY <1>1 DEF Moves, Inv, ShapeInv, Off, Fields
<1>4. IdInv'
    <2>1. pc \notin {"create", "write"} /\ pc \notin HasId
        BY DEF HasId
    <2> QED
        BY <1>2, <1>3, <2>1, SameIds DEF Moves, Inv
<1>5. OverrideOf(p)'
    BY <1>3, NoOverrides DEF Moves
<1>6. ConfigOf(p)'
    BY <1>3 DEF Moves, ConfigOf, PastCheck, HasId
<1>7. idFile' \in {"absent", "torn"} \cup Ids /\ raced' \in BOOLEAN
    BY <1>2 DEF Inv, ShapeInv
<1> QED
    BY <1>2, <1>3, <1>4, <1>5, <1>6, <1>7, StepInv

(* An error that names neither a secret nor the building ends a process. *)
LEMMA FailInv ==
    ASSUME Inv, NEW p \in Proc, NEW error \in {"config", "id_file", "io"},
           Fail(p, error), UNCHANGED <<deployed, idFile, ran, raced>>
    PROVE  Inv'
<1>1. Moves(p, "exit78", proc[p].tables, proc[p].left, proc[p].id, proc[p].kinds, error)
    BY FailMoves DEF Inv
<1>2. IdInv'
    BY <1>1, SameIds DEF Moves, Inv, HasId
<1>3. OverrideOf(p)'
    BY <1>1, SameOverrides DEF Moves, Inv
<1>4. ConfigOf(p)'
    <2>1. ConfigOf(p)
        BY DEF Inv, ConfigInv
    <2> QED
        BY <1>1, <2>1, SameSetting DEF Moves, ConfigOf, PastCheck, HasId
<1>5. idFile' \in {"absent", "torn"} \cup Ids /\ raced' \in BOOLEAN
    BY DEF Inv, ShapeInv
<1> QED
    BY <1>1, <1>2, <1>3, <1>4, <1>5, StepInv

(* Reading: the tables are the document's, and all variables are left. *)
LEMMA ReadInv ==
    ASSUME Inv, NEW p \in Proc, ReadDocument(p)
    PROVE  Inv'
<1>1. UNCHANGED <<deployed, idFile, ran, raced>>
    BY DEF ReadDocument
<1>2. CASE document \in {Nothing, Broken}
    <2>1. Fail(p, "config")
        BY <1>2 DEF ReadDocument
    <2> QED
        BY <1>1, <2>1, FailInv
<1>3. CASE document \notin {Nothing, Broken}
    <2>1. Moves(p, "override", document.tables, deployed.overrides, proc[p].id, proc[p].kinds, proc[p].error)
        BY <1>3 DEF ReadDocument, Moves, Inv, ShapeInv, Fields
    <2>2. IdInv'
        BY <1>1, <2>1, SameIds DEF Moves, Inv, HasId
    <2>3. OverrideOf(p)'
        <3>1. \A v : Value(document.tables, v) = InDocument(v)
            BY DEF Value, InDocument
        <3> QED
            BY <1>1, <2>1, <3>1, SameSetting DEF Moves, OverrideOf
    <2>4. ConfigOf(p)'
        <3>1. ConfigOf(p)
            BY DEF Inv, ConfigInv
        <3> QED
            BY <1>1, <1>3, <2>1, <3>1, SameSetting DEF Moves, ConfigOf, PastCheck, HasId
    <2>5. idFile' \in {"absent", "torn"} \cup Ids /\ raced' \in BOOLEAN
        BY <1>1 DEF Inv, ShapeInv
    <2> QED
        BY <1>1, <2>1, <2>2, <2>3, <2>4, <2>5, StepInv
<1> QED
    BY <1>2, <1>3

(* A variable is applied: its key had the document's value, unless another  *)
(* spelling of it competes, and no other key changes.                       *)
LEMMA OverrideStepInv ==
    ASSUME Inv, NEW p \in Proc, ApplyOverride(p)
    PROVE  Inv'
<1>1. UNCHANGED <<deployed, idFile, ran, raced>> /\ proc[p].pc = "override"
    BY DEF ApplyOverride
<1>2. PICK v \in proc[p].left :
          proc' = [proc EXCEPT ![p].tables = Overridden(@, v), ![p].left = @ \ {v}]
    BY DEF ApplyOverride
<1> DEFINE tables == Overridden(proc[p].tables, v)
<1>3. Moves(p, "override", tables, proc[p].left \ {v}, proc[p].id, proc[p].kinds, proc[p].error)
    <2> HIDE DEF Overridden
    <2> QED
        BY <1>1, <1>2 DEF Moves, Inv, ShapeInv, Fields
<1>4. IdInv'
    BY <1>1, <1>3, SameIds DEF Moves, Inv, HasId
<1>5. ConfigOf(p)'
    <2>1. ConfigOf(p)
        BY DEF Inv, ConfigInv
    <2> HIDE DEF tables
    <2> QED
        BY <1>1, <1>3, <2>1, SameSetting DEF Moves, ConfigOf, PastCheck, HasId
<1>6. idFile' \in {"absent", "torn"} \cup Ids /\ raced' \in BOOLEAN
    BY <1>1 DEF Inv, ShapeInv
<1>7. OverrideOf(p)'
    <2>1. /\ proc[p].left \subseteq deployed.overrides
          /\ \A w \in deployed.overrides :
                Twins(w) \/ Skipped(w)
                \/ Value(proc[p].tables, w) = IF w \in proc[p].left THEN InDocument(w)
                                              ELSE coerce_env_value(w.text, InDocument(w))
        BY <1>1 DEF Inv, OverrideInv, OverrideOf
    <2>2. ASSUME NEW w \in deployed.overrides, ~Twins(w), ~Skipped(w)
          PROVE  Value(tables, w) = IF w \in proc[p].left \ {v} THEN InDocument(w)
                                    ELSE coerce_env_value(w.text, InDocument(w))
        <3>1. CASE w = v
            <4>1. Value(proc[p].tables, v) = InDocument(v)
                BY <2>1, <2>2, <3>1
            <4>2. Value(tables, v) = coerce_env_value(v.text, Value(proc[p].tables, v))
                BY <2>2, <3>1, OverrideFacts
            <4> HIDE DEF tables
            <4> QED
                BY <3>1, <4>1, <4>2
        <3>2. CASE w # v
            <4>1. w.section # v.section \/ w.key # v.key
                BY <2>1, <2>2, <3>2 DEF Twins
            <4>2. Value(tables, w) = Value(proc[p].tables, w)
                BY <4>1, OverrideFacts
            <4>3. w \in proc[p].left \ {v} <=> w \in proc[p].left
                BY <3>2
            <4> HIDE DEF tables
            <4> QED
                BY <2>1, <2>2, <4>2, <4>3
        <3> QED
            BY <3>1, <3>2
    <2>3. proc'[p].tables = tables /\ proc'[p].left = proc[p].left \ {v}
        BY <1>3 DEF Moves
    <2> HIDE DEF tables
    <2>4. proc'[p].left \subseteq deployed.overrides
        BY <2>1, <2>3
    <2> QED
        BY <1>1, <2>2, <2>3, <2>4, SameSetting DEF OverrideOf
<1> HIDE DEF tables
<1> QED
    BY <1>1, <1>3, <1>4, <1>5, <1>6, <1>7, StepInv

(* Validation lets only a process past whose variables are set. *)
LEMMA ValidateInv ==
    ASSUME Inv, NEW p \in Proc, Validate(p)
    PROVE  Inv'
<1>1. UNCHANGED <<deployed, idFile, ran, raced>> /\ proc[p].pc = "override"
    BY DEF Validate
<1>2. CASE Validated(p)
    <2>1. Goto(p, "id")
        BY <1>2 DEF Validate
    <2>2. Moves(p, "id", proc[p].tables, proc[p].left, proc[p].id, proc[p].kinds, proc[p].error)
        BY <2>1, GotoMoves DEF Inv
    <2>3. IdInv'
        BY <1>1, <2>2, SameIds DEF Moves, Inv, HasId
    <2>4. OverrideOf(p)'
        BY <1>1, <2>2, SameOverrides DEF Moves, Inv
    <2>5. ConfigOf(p)'
        <3>1. ConfigOf(p) /\ validate_env_vars(p)
            BY <1>2 DEF Inv, ConfigInv, Validated
        <3> QED
            BY <1>1, <2>2, <3>1, SameSetting DEF Moves, ConfigOf, PastCheck, HasId
    <2>6. idFile' \in {"absent", "torn"} \cup Ids /\ raced' \in BOOLEAN
        BY <1>1 DEF Inv, ShapeInv
    <2> QED
        BY <1>1, <2>2, <2>3, <2>4, <2>5, <2>6, StepInv
<1>3. CASE ~Validated(p)
    <2>1. Fail(p, "config")
        BY <1>3 DEF Validate
    <2> QED
        BY <1>1, <2>1, FailInv
<1> QED
    BY <1>2, <1>3

(* The facts of IdInv where nobody raced. *)
LEMMA IdFacts ==
    ASSUME IdInv, ~raced
    PROVE  /\ \A p, q \in Proc : proc[p].pc = "create" /\ proc[q].pc = "create" => p = q
           /\ \A p, q \in Proc : proc[p].pc = "write" /\ proc[q].pc = "write" => p = q
           /\ \A p \in Proc : /\ proc[p].pc = "create" => idFile = "absent"
                              /\ proc[p].pc = "write" => idFile = "torn" /\ proc[p].id \in Ids
                              /\ proc[p].pc \in HasId => idFile = proc[p].id /\ idFile \in Ids
           /\ \A x \in ran : x = idFile /\ x \in Ids
           /\ "absent" \notin Ids /\ "torn" \notin Ids
BY BootAssumption DEF IdInv

(* Reading the id: with no file there is nobody else with an id, and only   *)
(* one that makes the first unless the other is about to.                   *)
LEMMA LoadIdInv ==
    ASSUME Inv, NEW p \in Proc, LoadId(p)
    PROVE  Inv'
<1>1. UNCHANGED <<deployed, idFile, ran>> /\ proc[p].pc = "id"
    BY DEF LoadId
<1>2. /\ idFile = "absent" => Goto(p, "create")
      /\ idFile = "torn" => Fail(p, "id_file")
      /\ idFile \notin {"absent", "torn"} => proc' = [proc EXCEPT ![p].pc = "pool", ![p].id = idFile]
      /\ raced' = (raced \/ (idFile = "absent" /\ \E q \in Proc \ {p} : proc[q].pc = "create"))
    BY Zenon DEF LoadId
<1>3. idFile' \in {"absent", "torn"} \cup Ids /\ raced' \in BOOLEAN
    BY <1>1, <1>2 DEF Inv, ShapeInv
<1>4. ConfigOf(p)
    BY DEF Inv, ConfigInv
<1>5. CASE idFile = "absent"
    <2>1. Moves(p, "create", proc[p].tables, proc[p].left, proc[p].id, proc[p].kinds, proc[p].error)
        BY <1>2, <1>5, GotoMoves DEF Inv
    <2>2. OverrideOf(p)'
        BY <1>1, <2>1, SameOverrides DEF Moves, Inv
    <2>3. ConfigOf(p)'
        BY <1>1, <1>4, <2>1, SameSetting DEF Moves, ConfigOf, PastCheck, HasId
    <2>4. IdInv'
        <3> SUFFICES ASSUME ~raced'
                     PROVE  IdInv'
            BY DEF IdInv
        <3>1. ~raced /\ \A q \in Proc \ {p} : proc[q].pc # "create"
            BY <1>2, <1>5
        <3>2. /\ \A q \in Proc : proc[q].pc # "write" /\ proc[q].pc \notin HasId
              /\ \A x \in ran : FALSE
            BY <1>5, <3>1, IdFacts DEF Inv
        <3>3. /\ proc'[p].pc = "create"
              /\ \A q \in Proc \ {p} : /\ proc'[q].pc # "create" /\ proc'[q].pc # "write"
                                       /\ proc'[q].pc \notin HasId
            BY <2>1, <3>1, <3>2 DEF Moves
        <3>4. "create" # "write" /\ "create" \notin HasId
            BY DEF HasId
        <3> QED
            BY <1>1, <1>5, <3>2, <3>3, <3>4 DEF IdInv
    <2> QED
        BY <1>1, <1>3, <2>1, <2>2, <2>3, <2>4, StepInv
<1>6. CASE idFile = "torn"
    <2>1. Fail(p, "id_file") /\ raced' = raced
        BY <1>2, <1>6 DEF Inv, ShapeInv
    <2> QED
        BY <1>1, <2>1, FailInv
<1>7. CASE idFile \notin {"absent", "torn"}
    <2>1. Moves(p, "pool", proc[p].tables, proc[p].left, idFile, proc[p].kinds, proc[p].error)
        BY <1>2, <1>7 DEF Moves, Inv, ShapeInv, Fields
    <2>2. OverrideOf(p)'
        BY <1>1, <2>1, SameOverrides DEF Moves, Inv
    <2>3. ConfigOf(p)'
        BY <1>1, <1>4, <2>1, SameSetting DEF Moves, ConfigOf, PastCheck, HasId
    <2>4. IdInv'
        <3> SUFFICES ASSUME ~raced'
                     PROVE  IdInv'
            BY DEF IdInv
        <3>1. ~raced /\ idFile \in Ids
            BY <1>2, <1>7 DEF Inv, ShapeInv
        <3>2. \A q \in Proc \ {p} : proc'[q] = proc[q]
            BY <2>1 DEF Moves
        <3>3. proc'[p].pc = "pool" /\ proc'[p].id = idFile
            BY <2>1 DEF Moves
        <3>4. \A q \in Proc : proc[q].pc # "create" /\ proc[q].pc # "write"
            BY <1>7, <3>1, IdFacts DEF Inv
        <3>5. \A q \in Proc : proc'[q].pc # "create" /\ proc'[q].pc # "write"
            BY <3>2, <3>3, <3>4
        <3>6. \A q \in Proc : proc'[q].pc \in HasId => idFile = proc'[q].id
            BY <3>1, <3>2, <3>3, IdFacts DEF Inv
        <3>7. \A x \in ran : x = idFile /\ x \in Ids
            BY <3>1, IdFacts DEF Inv
        <3> QED
            BY <1>1, <3>1, <3>5, <3>6, <3>7 DEF IdInv
    <2> QED
        BY <1>1, <1>3, <2>1, <2>2, <2>3, <2>4, StepInv
<1> QED
    BY <1>5, <1>6, <1>7

(* Creating the file: without a race there was none, nobody has an id and   *)
(* nobody else makes one.                                                   *)
LEMMA CreateInv ==
    ASSUME Inv, NEW p \in Proc, CreateIdFile(p)
    PROVE  Inv'
<1>1. UNCHANGED <<deployed, ran, raced>> /\ proc[p].pc = "create" /\ idFile' = "torn"
    BY DEF CreateIdFile
<1>2. PICK id \in Ids : proc' = [proc EXCEPT ![p].pc = "write", ![p].id = id]
    BY DEF CreateIdFile
<1>3. Moves(p, "write", proc[p].tables, proc[p].left, id, proc[p].kinds, proc[p].error)
    BY <1>2 DEF Moves, Inv, ShapeInv, Fields
<1>4. OverrideOf(p)'
    BY <1>1, <1>3, SameOverrides DEF Moves, Inv
<1>5. ConfigOf(p)'
    <2>1. ConfigOf(p)
        BY DEF Inv, ConfigInv
    <2> QED
        BY <1>1, <1>3, <2>1, SameSetting DEF Moves, ConfigOf, PastCheck, HasId
<1>6. idFile' \in {"absent", "torn"} \cup Ids /\ raced' \in BOOLEAN
    BY <1>1 DEF Inv, ShapeInv
<1>7. IdInv'
    <2> SUFFICES ASSUME ~raced'
                 PROVE  IdInv'
        BY DEF IdInv
    <2>1. /\ idFile = "absent" /\ (\A x \in ran : FALSE)
          /\ \A q \in Proc : proc[q].pc # "write" /\ proc[q].pc \notin HasId
          /\ \A q \in Proc \ {p} : proc[q].pc # "create"
        BY <1>1, IdFacts DEF Inv
    <2>2. /\ proc'[p].pc = "write" /\ proc'[p].id \in Ids
          /\ \A q \in Proc \ {p} : /\ proc'[q].pc # "create" /\ proc'[q].pc # "write"
                                   /\ proc'[q].pc \notin HasId
        BY <1>3, <2>1 DEF Moves
    <2>3. "write" # "create" /\ "write" \notin HasId
        BY DEF HasId
    <2> QED
        BY <1>1, <2>1, <2>2, <2>3 DEF IdInv
<1> QED
    BY <1>1, <1>3, <1>4, <1>5, <1>6, <1>7, StepInv

(* Writing it: nobody else was at it, and nobody has an id yet. *)
LEMMA WriteInv ==
    ASSUME Inv, NEW p \in Proc, WriteIdFile(p)
    PROVE  Inv'
<1>1. UNCHANGED <<deployed, ran, raced>> /\ proc[p].pc = "write" /\ idFile' = proc[p].id /\ Goto(p, "pool")
    BY DEF WriteIdFile
<1>2. Moves(p, "pool", proc[p].tables, proc[p].left, proc[p].id, proc[p].kinds, proc[p].error)
    BY <1>1, GotoMoves DEF Inv
<1>3. OverrideOf(p)'
    BY <1>1, <1>2, SameOverrides DEF Moves, Inv
<1>4. ConfigOf(p)'
    <2>1. ConfigOf(p)
        BY DEF Inv, ConfigInv
    <2> QED
        BY <1>1, <1>2, <2>1, SameSetting DEF Moves, ConfigOf, PastCheck, HasId
<1>5. idFile' \in {"absent", "torn"} \cup Ids /\ raced' \in BOOLEAN
    BY <1>1 DEF Inv, ShapeInv, ConfigInv, ConfigOf
<1>6. IdInv'
    <2> SUFFICES ASSUME ~raced'
                 PROVE  IdInv'
        BY DEF IdInv
    <2>1. /\ proc[p].id \in Ids /\ (\A x \in ran : FALSE)
          /\ \A q \in Proc : proc[q].pc # "create" /\ proc[q].pc \notin HasId
          /\ \A q \in Proc \ {p} : proc[q].pc # "write"
        BY <1>1, IdFacts DEF Inv
    <2>2. /\ proc'[p].pc = "pool" /\ proc'[p].id = proc[p].id
          /\ \A q \in Proc \ {p} : /\ proc'[q].pc # "create" /\ proc'[q].pc # "write"
                                   /\ proc'[q].pc \notin HasId
        BY <1>2, <2>1 DEF Moves
    <2> QED
        BY <1>1, <2>1, <2>2 DEF IdInv
<1> QED
    BY <1>1, <1>2, <1>3, <1>4, <1>5, <1>6, StepInv

(* Going on from one step behind the id to the next, or to an end. *)
LEMMA GoOnInv ==
    ASSUME Inv, NEW p \in Proc, NEW pc, Goto(p, pc), proc[p].pc \in HasId,
           pc \in HasId \cup {"exit0", "panicked"},
           UNCHANGED <<deployed, idFile, ran, raced>>,
           pc \in {"load", "start", "running"} => Building,
           pc \in {"start", "running"} => build_notification_rules
    PROVE  Inv'
<1>1. Moves(p, pc, proc[p].tables, proc[p].left, proc[p].id, proc[p].kinds, proc[p].error)
    BY GotoMoves DEF Inv
<1>2. IdInv'
    <2>1. pc \notin {"create", "write"}
        BY DEF HasId
    <2> QED
        BY <1>1, <2>1, SameIds DEF Moves, Inv
<1>3. OverrideOf(p)'
    <2>1. pc # "override"
        BY DEF HasId
    <2> QED
        BY <1>1, <2>1, SameOverrides DEF Moves, Inv
<1>4. ConfigOf(p)'
    <2>1. ConfigOf(p)
        BY DEF Inv, ConfigInv
    <2> QED
        BY <1>1, <2>1, SameSetting DEF Moves, ConfigOf, PastCheck, HasId
<1>5. idFile' \in {"absent", "torn"} \cup Ids /\ raced' \in BOOLEAN
    BY DEF Inv, ShapeInv
<1> QED
    BY <1>1, <1>2, <1>3, <1>4, <1>5, StepInv

(* Opening the database. *)
LEMMA OpenPoolInv ==
    ASSUME Inv, NEW p \in Proc, open_pool(p)
    PROVE  Inv'
<1>1. PICK pc \in {"exit0", "build"} : Goto(p, pc)
    BY DEF open_pool
<1>2. proc[p].pc \in HasId /\ UNCHANGED <<deployed, idFile, ran, raced>>
    BY DEF open_pool, HasId
<1>3. pc \in HasId \cup {"exit0", "panicked"} /\ pc \notin {"load", "start", "running"}
    BY DEF HasId
<1> QED
    BY <1>1, <1>2, <1>3, GoOnInv

(* A process that fails to build has a configuration that cannot be built. *)
LEMMA FailBuildInv ==
    ASSUME Inv, NEW p \in Proc, Fail(p, "build"), UNCHANGED <<deployed, idFile, ran, raced>>,
           proc[p].pc \in HasId, ~(Building /\ build_notification_rules)
    PROVE  Inv'
<1>1. Moves(p, "exit78", proc[p].tables, proc[p].left, proc[p].id, proc[p].kinds, "build")
    BY FailMoves DEF Inv
<1>2. IdInv'
    BY <1>1, SameIds DEF Moves, Inv, HasId
<1>3. OverrideOf(p)'
    BY <1>1, SameOverrides DEF Moves, Inv
<1>4. ConfigOf(p)'
    <2>1. ConfigOf(p)
        BY DEF Inv, ConfigInv
    <2>2. document \notin {Nothing, Broken}
        BY <2>1 DEF ConfigOf, PastCheck
    <2> QED
        BY <1>1, <2>1, <2>2, SameSetting DEF Moves, ConfigOf, PastCheck, HasId
<1>5. idFile' \in {"absent", "torn"} \cup Ids /\ raced' \in BOOLEAN
    BY DEF Inv, ShapeInv
<1> QED
    BY <1>1, <1>2, <1>3, <1>4, <1>5, StepInv

(* Building: every secret is in the map, so that only a collector or a kind *)
(* can be refused.                                                          *)
LEMMA BuildInv ==
    ASSUME Inv, NEW p \in Proc, Build(p)
    PROVE  Inv'
<1>1. proc[p].pc = "build" /\ UNCHANGED <<deployed, idFile, ran, raced>>
    BY DEF Build
<1>2. \A s \in SecretsOfNodes : Resolved(s)
    BY SecretFacts DEF SecretsOfNodes, node_registry_from_config
<1>3. IF ~Building THEN Fail(p, "build")
      ELSE proc' = [proc EXCEPT ![p].pc = "load", ![p].kinds = KindRegistry_load.kinds]
    BY <1>2 DEF Build, Building
<1>4. CASE ~Building
    BY <1>1, <1>3, <1>4, FailBuildInv DEF HasId
<1>5. CASE Building
    <2> DEFINE kinds == KindRegistry_load.kinds
    <2>1. Moves(p, "load", proc[p].tables, proc[p].left, proc[p].id, kinds, proc[p].error)
        <3>1. proc' = [proc EXCEPT ![p].pc = "load", ![p].kinds = kinds]
            BY <1>3, <1>5
        <3> HIDE DEF kinds
        <3> QED
            BY <3>1 DEF Moves, Inv, ShapeInv, Fields
    <2>2. IdInv'
        <3> HIDE DEF kinds
        <3> QED
            BY <1>1, <2>1, SameIds DEF Moves, Inv, HasId
    <2>3. OverrideOf(p)'
        <3> HIDE DEF kinds
        <3> QED
            BY <1>1, <2>1, SameOverrides DEF Moves, Inv
    <2>4. ConfigOf(p)'
        <3>1. ConfigOf(p)
            BY DEF Inv, ConfigInv
        <3>2. KindRegistry_load.ok
            BY <1>5 DEF Building
        <3> QED
            BY <1>1, <1>5, <2>1, <3>1, <3>2, SameSetting DEF Moves, ConfigOf, PastCheck, HasId
    <2>5. idFile' \in {"absent", "torn"} \cup Ids /\ raced' \in BOOLEAN
        BY <1>1 DEF Inv, ShapeInv
    <2> HIDE DEF kinds
    <2> QED
        BY <1>1, <2>1, <2>2, <2>3, <2>4, <2>5, StepInv
<1> QED
    BY <1>4, <1>5

(* The rules and the senders: only a name can be refused. *)
LEMMA BuildRulesInv ==
    ASSUME Inv, NEW p \in Proc, BuildRules(p)
    PROVE  Inv'
<1>1. proc[p].pc = "load" /\ UNCHANGED <<deployed, idFile, ran, raced>>
    BY DEF BuildRules
<1>2. (\A i \in DOMAIN document.rules : Resolved(document.rules[i].secret)) /\ build_senders
    BY SecretFacts DEF build_senders
<1>3. IF ~build_notification_rules THEN Fail(p, "build") ELSE Goto(p, "start")
    BY <1>2 DEF BuildRules
<1>4. CASE ~build_notification_rules
    BY <1>1, <1>3, <1>4, FailBuildInv DEF HasId
<1>5. CASE build_notification_rules
    <2>1. Building
        BY <1>1 DEF Inv, ConfigInv, ConfigOf
    <2> QED
        BY <1>1, <1>3, <1>5, <2>1, GoOnInv DEF HasId
<1> QED
    BY <1>4, <1>5

(* Running: the id is that of the file. *)
LEMMA RunInv ==
    ASSUME Inv, NEW p \in Proc, RunRuntime(p)
    PROVE  Inv'
<1>1. proc[p].pc = "start" /\ UNCHANGED <<deployed, idFile, raced>>
    BY DEF RunRuntime
<1>2. Building /\ build_notification_rules
    BY <1>1 DEF Inv, ConfigInv, ConfigOf
<1>3. CASE Goto(p, "panicked") /\ ran' = ran
    BY <1>1, <1>3, GoOnInv DEF HasId
<1>4. CASE Goto(p, "running") /\ ran' = ran \cup {proc[p].id}
    <2>1. Moves(p, "running", proc[p].tables, proc[p].left, proc[p].id, proc[p].kinds, proc[p].error)
        BY <1>4, GotoMoves DEF Inv
    <2>2. OverrideOf(p)'
        BY <1>1, <2>1, SameOverrides DEF Moves, Inv
    <2>3. ConfigOf(p)'
        <3>1. ConfigOf(p)
            BY DEF Inv, ConfigInv
        <3> QED
            BY <1>1, <1>2, <2>1, <3>1, SameSetting DEF Moves, ConfigOf, PastCheck, HasId
    <2>4. IdInv'
        <3> SUFFICES ASSUME ~raced'
                     PROVE  IdInv'
            BY DEF IdInv
        <3>1. idFile = proc[p].id /\ idFile \in Ids
            BY <1>1, IdFacts DEF Inv, HasId
        <3>2. \A q \in Proc : proc[q].pc # "create" /\ proc[q].pc # "write"
            BY <1>1, <3>1, IdFacts DEF Inv
        <3>3. /\ \A q \in Proc \ {p} : proc'[q] = proc[q]
              /\ proc'[p].pc = "running" /\ proc'[p].id = proc[p].id
            BY <2>1 DEF Moves
        <3>4. \A q \in Proc : proc'[q].pc # "create" /\ proc'[q].pc # "write"
            BY <3>2, <3>3
        <3>5. \A q \in Proc : proc'[q].pc \in HasId => idFile = proc'[q].id
            BY <1>1, <3>1, <3>3, IdFacts DEF Inv
        <3>6. \A x \in ran' : x = idFile /\ x \in Ids
            BY <1>1, <1>4, <3>1, IdFacts DEF Inv
        <3> QED
            BY <1>1, <3>1, <3>4, <3>5, <3>6 DEF IdInv
    <2>5. idFile' \in {"absent", "torn"} \cup Ids /\ raced' \in BOOLEAN
        BY <1>1 DEF Inv, ShapeInv
    <2> QED
        BY <1>1, <2>1, <2>2, <2>3, <2>4, <2>5, StepInv
<1> QED
    BY <1>3, <1>4, Zenon DEF RunRuntime

(* Every step keeps the invariant. *)
LEMMA NextInv == Inv /\ [Next]_vars => Inv'
<1> SUFFICES ASSUME Inv, [Next]_vars
             PROVE  Inv'
    OBVIOUS
<1>1. CASE UNCHANGED vars
    <2>1. UNCHANGED <<deployed, idFile, proc, ran, raced>>
        BY <1>1 DEF vars
    <2>2. ShapeInv' /\ IdInv'
        BY <2>1 DEF Inv, ShapeInv, IdInv
    <2>3. OverrideInv'
        BY <2>1, SameSetting DEF Inv, OverrideInv, OverrideOf
    <2>4. ConfigInv'
        BY <2>1, SameSetting DEF Inv, ConfigInv, ConfigOf
    <2> QED
        BY <2>2, <2>3, <2>4 DEF Inv
<1>2. ASSUME NEW p \in Proc, Start(p) \/ Step(p) \/ IoFails(p) \/ Stop(p)
      PROVE  Inv'
    <2>1. CASE Start(p) \/ Stop(p)
        BY <2>1, StartInv
    <2>2. CASE IoFails(p)
        <3>1. Fail(p, "io") /\ UNCHANGED <<deployed, idFile, ran, raced>>
            BY <2>2 DEF IoFails
        <3> QED
            BY <3>1, FailInv
    <2>3. CASE Step(p)
        BY <2>3, ReadInv, OverrideStepInv, ValidateInv, LoadIdInv, CreateInv, WriteInv, OpenPoolInv,
           BuildInv, BuildRulesInv, RunInv DEF Step
    <2> QED
        BY <1>2, <2>1, <2>2, <2>3
<1> QED
    BY <1>1, <1>2 DEF Next

-----------------------------------------------------------------------------
(* The theorems. *)

(* The inductive invariant. *)
THEOREM Invariant == Spec => []Inv
BY InitInv, NextInv, PTL DEF Spec

(* Unless service and check raced to make the first one, the service has    *)
(* run with one id at most, and what runs has the id of the file: whatever  *)
(* load_or_generate_sidecar_id left behind when it was stopped or failed,   *)
(* and however often.                                                       *)
THEOREM IdentityStays == Spec => []IdentityIsStable
<1>1. Inv => IdentityIsStable
    <2> SUFFICES ASSUME Inv, ~raced
                 PROVE  /\ Cardinality(ran) =< 1
                        /\ proc["service"].pc = "running" => idFile = proc["service"].id
        BY DEF IdentityIsStable
    <2>1. ran \in SUBSET {idFile}
        BY IdFacts DEF Inv
    <2>2. IsFiniteSet({idFile}) /\ Cardinality({idFile}) = 1
        BY FS_Singleton
    <2>3. Cardinality(ran) <= Cardinality({idFile})
        BY <2>1, <2>2, FS_Subset
    <2>4. proc["service"].pc = "running" => idFile = proc["service"].id
        BY IdFacts DEF Inv, Proc, HasId
    <2> QED
        BY <2>2, <2>3, <2>4
<1> QED
    BY <1>1, Invariant, PTL

(* In whatever order apply_env_overrides walks the environment, a variable  *)
(* whose key no other one names has set that key, in the type the document  *)
(* has there, for any number of variables.                                  *)
THEOREM OverridesOrderIrrelevant == Spec => []OverridesCommute
<1>1. Inv => OverridesCommute
    <2> SUFFICES ASSUME Inv, NEW p \in Proc, proc[p].tables # Nothing,
                        NEW v \in deployed.overrides \ proc[p].left, ~Twins(v), ~Skipped(v)
                 PROVE  Value(proc[p].tables, v) = coerce_env_value(v.text, InDocument(v))
        BY DEF OverridesCommute, Skipped, Value
    <2> QED
        BY DEF Inv, OverrideInv, OverrideOf
<1> QED
    BY <1>1, Invariant, PTL

(* The service runs only what is complete and fails to build only what is   *)
(* not; no secret is missing after validation and the built-in kinds are    *)
(* never displaced: for documents, rules and catalogs of any length.        *)
THEOREM VerdictIsRight == Spec => []Verdict
<1>1. Inv => Verdict
    <2> SUFFICES ASSUME Inv
                 PROVE  Verdict
        OBVIOUS
    <2>1. deployed \in Deployments /\ \A p \in Proc : ConfigOf(p)
        BY DEF Inv, ShapeInv, ConfigInv
    <2>2. SecretsAreThere
        BY <2>1 DEF SecretsAreThere, ConfigOf
    <2>3. CatalogIsAdditive
        <3>1. ASSUME NEW p \in Proc, proc[p].kinds # Nothing
              PROVE  /\ validate_draft(proc[p].kinds, RuleDraft)
                     /\ \A i \in DOMAIN BUILTIN_KINDS : proc[p].kinds[BUILTIN_KINDS[i].name] = BUILTIN_KINDS[i]
            <4>1. KindRegistry_load.ok /\ proc[p].kinds = KindRegistry_load.kinds
                BY <2>1, <3>1 DEF ConfigOf
            <4> QED
                BY <2>1, <4>1, RegistryFacts
        <3> QED
            BY <3>1 DEF CatalogIsAdditive
    <2>4. "service" \in Proc
        BY DEF Proc
    <2>5. ASSUME proc["service"].pc = "running" PROVE Complete("service")
        <3>1. /\ document \notin {Nothing, Broken} /\ validate_env_vars("service")
              /\ Building /\ build_notification_rules
            BY <2>1, <2>4, <2>5 DEF ConfigOf, PastCheck, HasId
        <3> QED
            BY <2>1, <2>4, <3>1, CompleteFacts
    <2>6. ASSUME proc["service"].error = "build" PROVE ~Complete("service")
        <3>1. document \notin {Nothing, Broken} /\ ~(Building /\ build_notification_rules)
            BY <2>1, <2>4, <2>6 DEF ConfigOf
        <3> QED
            BY <2>1, <2>4, <3>1, CompleteFacts
    <2> QED
        BY <2>2, <2>3, <2>5, <2>6 DEF Verdict
<1> QED
    BY <1>1, Invariant, PTL
=============================================================================
