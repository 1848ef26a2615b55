-------------------------------- MODULE Shapes --------------------------------
(* The shapes that objects must have when they are exchanged with a node or kept
   as bytes, and the two codecs, which parse an object with its shape before they
   encode and after they decode.  Parsing drops the entries a shape does not list.
   An object is a record of its entries; cbor gives back what it was given.  A number
   that a shape asks for literally goes by its name. *)
EXTENDS Serialization, TLC

Refused == [kind |-> "refused"]

OfType(type) == [type |-> type]
AnyNumber == OfType("number")
NaturalInt == OfType("natural")
PositiveInt == OfType("positive")
Byte == OfType("byte")
AnyText == OfType("text")
Flag == OfType("flag")
BytesOf == OfType("bytes")
Digest == OfType("digest")
AnyValue == OfType("any")
Literal(name) == [type |-> "literal", of |-> name]
ListOf(shape) == [type |-> "list", of |-> shape]
Maybe(shape) == [type |-> "maybe", of |-> shape]
Entries(entries) == [type |-> "entries", of |-> entries]
\* What is not listed is kept.
EntriesAndMore(entries) == [type |-> "more", of |-> entries]
\* One of several shapes, by the literal that an entry holds.
Variant(key, table) == [type |-> "variant", key |-> key,
                        of |-> [name \in DOMAIN table |-> Entries((key :> Literal(name)) @@ table[name])]]

-----------------------------------------------------------------------------
(* Parsing. *)

IsInteger(value) == value.kind = "number" /\ ~value.of.fraction

Fits(type, value) ==
    CASE type = "number"   -> value.kind = "number"
      [] type = "natural"  -> IsInteger(value) /\ value.of.n >= 0
      [] type = "positive" -> IsInteger(value) /\ value.of.n >= 1
      [] type = "byte"     -> IsInteger(value) /\ value.of.n \in 0 .. ByteValues - 1
      [] type = "text"     -> value.kind = "string"
      [] type = "flag"     -> value.kind = "boolean"
      [] type = "bytes"    -> value.kind = "binary"
      [] type = "digest"   -> value.kind = "binary" /\ Len(value.of) = DigestLength
      [] type = "any"      -> value # Missing

HasLiteral(value, name) == value.kind = "literal" /\ value.of = name

Entry(value, name) == IF name \in DOMAIN value.of THEN value.of[name] ELSE Missing

\* The shapes of a variant that a value may have, one or none.
Options(shape, value) ==
    {name \in DOMAIN shape.of : value.kind = "object" /\ HasLiteral(Entry(value, shape.key), name)}

RECURSIVE Accepts(_, _)
Accepts(shape, value) ==
    CASE shape.type = "literal" -> HasLiteral(value, shape.of)
      [] shape.type = "maybe"   -> value = Missing \/ Accepts(shape.of, value)
      [] shape.type = "list"    -> value.kind = "array" /\ \A i \in DOMAIN value.of : Accepts(shape.of, value.of[i])
      [] shape.type \in {"entries", "more"} ->
           value.kind = "object" /\ \A name \in DOMAIN shape.of : Accepts(shape.of[name], Entry(value, name))
      [] shape.type = "variant" -> \E name \in Options(shape, value) : Accepts(shape.of[name], value)
      [] OTHER -> Fits(shape.type, value)

\* What is left of a value of the shape.
RECURSIVE Listed(_, _)
Listed(shape, value) ==
    LET listed == [name \in DOMAIN shape.of \cap DOMAIN value.of |-> Listed(shape.of[name], value.of[name])]
    IN CASE shape.type = "maybe"   -> Listed(shape.of, value)
         [] shape.type = "list"    -> Value("array", [i \in DOMAIN value.of |-> Listed(shape.of, value.of[i])])
         [] shape.type = "entries" -> Value("object", listed)
         [] shape.type = "more"    -> Value("object", listed @@ value.of)
         [] shape.type = "variant" -> Listed(shape.of[CHOOSE name \in Options(shape, value) : TRUE], value)
         [] OTHER -> value

Parse(shape, value) == IF Accepts(shape, value) THEN Listed(shape, value) ELSE Refused

\* BlockchainUtils and AbciQueryEncoder: an object of the wrong shape throws.
Encoded(shape, value) == Parse(shape, value)
Decoded(shape, bytes) == Parse(shape, bytes)

-----------------------------------------------------------------------------
(* Objects of a shape: an ordinary one, and others that differ from it in one entry, by
   another value, by none or by one entry more. *)

OfNumber(n) == Value("number", Integer(n))
Fraction == Value("number", [n |-> 0, fraction |-> TRUE])
OfBytes(size) == Value("binary", [i \in 1 .. size |-> 0])

\* Of a variant, the first of the shapes it lists.
RECURSIVE Ordinary(_)
Ordinary(shape) ==
    CASE shape.type = "literal" -> Value("literal", shape.of)
      [] shape.type = "maybe"   -> Ordinary(shape.of)
      [] shape.type = "list"    -> Value("array", <<Ordinary(shape.of)>>)
      [] shape.type \in {"entries", "more"} ->
           Value("object", [name \in DOMAIN shape.of |-> Ordinary(shape.of[name])])
      [] shape.type = "variant" -> Ordinary(shape.of[CHOOSE name \in DOMAIN shape.of : TRUE])
      [] shape.type \in {"number", "natural", "positive", "byte", "any"} -> OfNumber(1)
      [] shape.type = "text"    -> Value("string", <<"a">>)
      [] shape.type = "flag"    -> Value("boolean", TRUE)
      [] shape.type \in {"bytes", "digest"} -> OfBytes(DigestLength)

OtherNumbers(type) ==
    {Fraction, OfNumber(0), OfNumber(-1)}
    \cup (IF type = "byte" THEN {OfNumber(ByteValues - 1), OfNumber(ByteValues)} ELSE {})

RECURSIVE Others(_)
OtherEntries(entries) ==
    LET ordinary == [name \in DOMAIN entries |-> Ordinary(entries[name])]
        Without(name) == [other \in DOMAIN entries \ {name} |-> ordinary[other]]
        Changed(name) == {[ordinary EXCEPT ![name] = value] : value \in Others(entries[name])}
        objects == {ordinary @@ [unlisted |-> Null]}
                   \cup UNION {{Without(name)} \cup Changed(name) : name \in DOMAIN entries}
    IN {Value("object", object) : object \in objects}
Others(shape) ==
    CASE shape.type = "maybe" -> Others(shape.of)
      [] shape.type = "list"  ->
           {Value("array", <<item>>) : item \in Others(shape.of)}
           \cup {Null, Value("array", <<>>), Value("array", <<Ordinary(shape.of), Ordinary(shape.of)>>)}
      [] shape.type \in {"entries", "more"} -> {Null} \cup OtherEntries(shape.of)
      [] shape.type = "variant" ->
           {Null} \cup UNION {{Ordinary(shape.of[name])} \cup Others(shape.of[name]) : name \in DOMAIN shape.of}
      [] shape.type \in {"number", "natural", "positive", "byte", "any"} -> {Null} \cup OtherNumbers(shape.type)
      [] shape.type = "flag"  -> {Null, Value("boolean", FALSE)}
      [] shape.type \in {"bytes", "digest"} -> {Null, OfBytes(DigestLength - 1)}
      [] OTHER -> {Null}

Examples(shape) == {Ordinary(shape)} \cup Others(shape)
=============================================================================
