--------------------------- MODULE BootstrapNames ---------------------------
(***************************************************************************)
(* Names of labels and relationships as src/bootstrap/utils.py converts    *)
(* them.  A name is a sequence of kinds of characters: "a" and "A" are a   *)
(* letter in its two cases, "k" one without case (Korean), "1" a digit,    *)
(* "." any other character that is no separator.                           *)
(***************************************************************************)
EXTENDS Integers, Sequences, SequencesExt, FiniteSets

CONSTANT MaxRelationTypeLength

ASSUME LengthAssumption == MaxRelationTypeLength \in Nat \ {0}

Kinds == {"a", "A", "k", "1", " ", "-", "_", "."}

\* The places in ascending order, and what a sequence has there.
Ascending(places) ==
  [k \in 1 .. Cardinality(places) |->
     CHOOSE i \in places : Cardinality({j \in places : j < i}) = k - 1]

Picked(s, places) ==
  [k \in 1 .. Cardinality(places) |-> s[Ascending(places)[k]]]

Up(c) == IF c = "a" THEN "A" ELSE c
Down(c) == IF c = "A" THEN "a" ELSE c

\* str.isupper: a capital, and no small letter
IsUpper(s) == "A" \in Range(s) /\ "a" \notin Range(s)

Underscored(s) ==
  [i \in DOMAIN s |-> IF s[i] \in {" ", "-"} THEN "_" ELSE s[i]]

\* Every character, with room for an underscore before it, which the places say.
Parted(s, places) ==
  Picked([k \in 1 .. 2 * Len(s) |-> IF k % 2 = 1 THEN "_" ELSE Up(s[k \div 2])],
         {2 * i : i \in DOMAIN s} \cup {2 * i - 1 : i \in places})

ToScreamingSnakeMutant(s) == \* names in capitals are taken apart as well
  Underscored(Parted(s, {i \in 2 .. Len(s) : s[i] = "A"}))

ToScreamingSnake(s) ==
  IF IsUpper(s) THEN Underscored(s)
  ELSE Underscored(Parted(s, {i \in 2 .. Len(s) : s[i] = "A"}))

Separated(s) == {" ", "_"} \cap Range(s) # {}
Begins(s, i) == i = 1 \/ s[i - 1] \in {" ", "_"}

ToPascalCase(s) ==
  IF Separated(s)
  THEN Picked([i \in DOMAIN s |-> IF Begins(s, i) THEN Up(s[i]) ELSE Down(s[i])],
              {i \in DOMAIN s : s[i] \notin {" ", "_"}})
  ELSE [i \in DOMAIN s |-> IF i = 1 THEN Up(s[i]) ELSE s[i]]

\* Every character that is no letter and no digit becomes an underscore; an
\* underscore stays where it is alone between two others.
Cleaned(s) ==
  [i \in DOMAIN s |-> IF s[i] \in {"a", "A", "k", "1"} THEN Up(s[i]) ELSE "_"]

Squeezed(s) ==
  Picked(s, {i \in DOMAIN s :
               s[i] = "_" => /\ i > 1 /\ s[i - 1] # "_"
                             /\ \E j \in i + 1 .. Len(s) : s[j] # "_"})

\* The ValueError of a name that is empty, too long or has nothing to keep.
Refused == <<>>

NormalizeRelationType(s) ==
  LET safe == Squeezed(Cleaned(s))
  IN IF s = <<>> \/ Len(s) > MaxRelationTypeLength \/ safe = <<>> THEN Refused
     ELSE IF safe[1] = "1" THEN <<"A", "A", "A", "_">> \o safe \* REL_
     ELSE safe

-----------------------------------------------------------------------------
(* Properties                                                               *)

ShortNames == UNION {[1 .. n -> Kinds] : n \in 1 .. MaxRelationTypeLength + 1}

IsType(s) ==
  /\ Range(s) \subseteq {"A", "k", "1", "_"} /\ s[1] \notin {"1", "_"}
  /\ s[Len(s)] # "_" /\ \A i \in 1 .. Len(s) - 1 : s[i] # "_" \/ s[i + 1] # "_"

\* A type that converting again leaves as it is, unless it was cut.
Settled(type) ==
  /\ IsType(type)
  /\ Len(type) > MaxRelationTypeLength \/ NormalizeRelationType(type) = type

\* Files are written and read again and each reading converts anew (SchemaProposal
\* and RelationGroup in __post_init__, the loader for Cypher), so a converted
\* name must be a fixed point, and the two ways to write a relationship type
\* must meet: what goes into Cypher is a type, converting again changes nothing,
\* and a name comes to the same type with and without to_screaming_snake, unless
\* that takes a camelCase name apart.
ConvertsOnce(s) ==
  LET snake == ToScreamingSnake(s)
      type == NormalizeRelationType(s)
  IN /\ ToScreamingSnake(snake) = snake
     /\ ToPascalCase(ToPascalCase(s)) = ToPascalCase(s)
     /\ type # Refused => Settled(type)
     /\ IsUpper(s) \/ "A" \notin Range(Tail(s)) => NormalizeRelationType(snake) = type

ConvertedOnce == \A s \in ShortNames : ConvertsOnce(s)
=============================================================================
