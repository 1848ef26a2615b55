----------------------------- MODULE Serialization -----------------------------
(* Objects to bytes and back, along a schema: WriteStream and ReadStream, TypeChecker,
   SchemaSerializer and SchemaUnserializer, SchemaValidator, and the messages, which put
   the number of their schema before the bytes.
   Text is a sequence of characters, "a" of one byte and "e" of two. *)
EXTENDS Schemas, SequencesExt, Numbers

CONSTANT DigestLength    \* bound: bytes of a hash, 32 in the code

ASSUME SerializationAssumption == DigestLength \in Nat \ {0}

\* A field nobody set, and a value of none of the types expected.
Missing == [kind |-> "missing"]
Value(kind, of) == [kind |-> kind, of |-> of]
Null == Value("null", 0)

-----------------------------------------------------------------------------
(* WriteStream. *)

Half == ByteValues \div 2

\* Mutant: the last byte of the boundary is not marked as one that has another after it.
RECURSIVE WriteVarUintPastHalf(_)
WriteVarUintPastHalf(n) == IF n = 0 THEN <<>>
                           ELSE <<(n % Half) + (IF n > Half THEN Half ELSE 0)>> \o WriteVarUintPastHalf(n \div Half)

RECURSIVE WriteVarUintDigits(_)
WriteVarUintDigits(n) == IF n = 0 THEN <<>>
                         ELSE <<(n % Half) + (IF n > Half - 1 THEN Half ELSE 0)>> \o WriteVarUintDigits(n \div Half)

WriteVarUint(n) == IF n = 0 THEN <<0>> ELSE WriteVarUintDigits(n)

Utf8(text) == FlattenSeq([i \in DOMAIN text |-> IF text[i] = "a" THEN <<1>> ELSE <<2, 3>>])

\* Strings and binaries: the length comes first unless the schema gives it.
WriteSized(bytes, size) == (IF size = Unsized THEN WriteVarUint(Len(bytes)) ELSE <<>>) \o bytes

Width(type) == CASE type = "uint8" -> 1 [] type = "uint16" -> 2 [] type = "uint24" -> 3
                 [] type = "uint32" -> 4 [] type = "uint48" -> 6

Unsigned == {"uint8", "uint16", "uint24", "uint32", "uint48"}

WriteSchemaValue(type, value, size) ==
    CASE type \in Unsigned    -> WriteUnsigned(value.of.n, Width(type))
      [] type = "string"      -> WriteSized(Utf8(value.of), size)
      [] type = "number"      -> WriteNumber(value.of)
      [] type = "boolean"     -> <<IF value.of THEN ByteValues - 1 ELSE 0>>
      [] type = "binary"      -> WriteSized(value.of, size)
      [] type = "bin256"      -> value.of
      [] type = "hashString"  -> value.of.digits

-----------------------------------------------------------------------------
(* ReadStream.  What is read is [value, pointer]; past the end there is nothing, which
   counts as 0, and the pointer goes on. *)

ReadBytes(stream, pointer, size) ==
    SubSeq(stream, pointer + 1, Min({pointer + size, Len(stream)}))

\* The digits but the last have a flag.
WithDigit(byte, rest) == [rest EXCEPT !.value = @ * Half + (byte % Half)]

RECURSIVE ReadVarUint(_, _)
ReadVarUint(stream, pointer) ==
    LET byte == ReadByte(stream, pointer)
    IN IF byte < Half THEN [value |-> byte, pointer |-> pointer + 1]
       ELSE WithDigit(byte, ReadVarUint(stream, pointer + 1))

RECURSIVE FromUtf8(_)
FromUtf8(bytes) == CASE bytes = <<>> -> <<>>
                     [] bytes # <<>> /\ Head(bytes) = 1 -> <<"a">> \o FromUtf8(Tail(bytes))
                     [] OTHER -> <<"e">> \o FromUtf8(SubSeq(bytes, 3, Len(bytes)))

\* The size that the schema gives, or else the stream.
ReadSize(stream, pointer, size) ==
    IF size = Unsized THEN ReadVarUint(stream, pointer) ELSE [value |-> size, pointer |-> pointer]

BytesAfter(stream, length) == [value   |-> ReadBytes(stream, length.pointer, length.value),
                               pointer |-> length.pointer + length.value]

ReadSized(stream, pointer, size) == BytesAfter(stream, ReadSize(stream, pointer, size))

ReadAs(kind, read) == [read EXCEPT !.value = Value(kind, @)]

ReadSchemaValue(type, stream, pointer, size) ==
    LET Read(kind, of, width) == [value |-> Value(kind, of), pointer |-> pointer + width]
        Text(read) == [read EXCEPT !.value = FromUtf8(@)]
    IN CASE type \in Unsigned   -> Read("number", Integer(ReadUnsigned(stream, pointer, Width(type))),
                                        Width(type))
         [] type = "string"     -> ReadAs("string", Text(ReadSized(stream, pointer, size)))
         [] type = "number"     -> ReadAs("number", ReadNumber(stream, pointer))
         [] type = "boolean"    -> Read("boolean", ReadByte(stream, pointer) # 0, 1)
         [] type = "binary"     -> ReadAs("binary", ReadSized(stream, pointer, size))
         [] type = "bin256"     -> Read("binary", ReadBytes(stream, pointer, DigestLength), DigestLength)
         [] type = "hashString" -> Read("hashString", [digits |-> ReadBytes(stream, pointer, DigestLength),
                                                       upper |-> TRUE], DigestLength)

-----------------------------------------------------------------------------
(* TypeChecker: a number of more than 6 bytes is no safe integer. *)

SizeFits(actual, size) == size = Unsized \/ actual = size

Checks(item, value) ==
    CASE item.type \in Unsigned    -> /\ value.kind = "number"
                                      /\ ~value.of.fraction
                                      /\ value.of.n \in 0 .. Limit[Width(item.type)] - 1
      [] item.type = "string"      -> value.kind = "string" /\ SizeFits(Len(Utf8(value.of)), item.size)
      [] item.type = "number"      -> value.kind = "number"
      [] item.type = "boolean"     -> value.kind = "boolean"
      [] item.type = "binary"      -> value.kind = "binary" /\ SizeFits(Len(value.of), item.size)
      [] item.type = "bin256"      -> value.kind = "binary" /\ Len(value.of) = DigestLength
      [] item.type = "hashString"  -> value.kind = "hashString" /\ Len(value.of.digits) = DigestLength

-----------------------------------------------------------------------------
(* SchemaSerializer, SchemaUnserializer and SchemaValidator. *)

Primitive(item) == item.type \notin {"object", "unspecified"}

RECURSIVE CanSerialize(_, _), CanSerializeItem(_, _)
CanSerializeItem(item, value) ==
    CASE Primitive(item)           -> Checks(item, value)
      [] item.type = "object"      -> value.kind = "object" /\ CanSerialize(item.fields, value.of)
      [] item.type = "unspecified" -> FALSE
CanSerialize(fields, object) ==
    \A i \in DOMAIN fields :
      LET item == fields[i]
          value == object[i]
      IN IF item.array
         THEN /\ value.kind = "array"
              /\ SizeFits(Len(value.of), item.size)
              /\ \A k \in DOMAIN value.of : CanSerializeItem(item, value.of[k])
         ELSE CanSerializeItem(item, value)

RECURSIVE Serialized(_, _), SerializedItem(_, _)
SerializedItem(item, value) ==
    IF Primitive(item) THEN WriteSchemaValue(item.type, value, item.size)
    ELSE Serialized(item.fields, value.of)
Serialized(fields, object) ==
    LET Field(item, value) ==
          IF item.array
          THEN (IF item.size = Unsized THEN WriteVarUint(Len(value.of)) ELSE <<>>)
               \o FlattenSeq([k \in DOMAIN value.of |-> SerializedItem(item, value.of[k])])
          ELSE SerializedItem(item, value)
    IN FlattenSeq([i \in DOMAIN fields |-> Field(fields[i], object[i])])

\* What was read first and what was read from there on.
Joined(first, rest) == [rest EXCEPT !.value = <<first.value>> \o @]

RECURSIVE ReadObject(_, _, _), ReadItem(_, _, _), ReadItems(_, _, _, _)
ReadItem(item, stream, pointer) ==
    IF Primitive(item) THEN ReadSchemaValue(item.type, stream, pointer, item.size)
    ELSE ReadAs("object", ReadObject(item.fields, stream, pointer))
ItemsFrom(item, stream, first, count) ==
    Joined(first, ReadItems(item, stream, first.pointer, count))
ReadItems(item, stream, pointer, count) ==
    IF count = 0 THEN [value |-> <<>>, pointer |-> pointer]
    ELSE ItemsFrom(item, stream, ReadItem(item, stream, pointer), count - 1)
ReadArray(item, stream, size) == ReadAs("array", ReadItems(item, stream, size.pointer, size.value))
ReadField(item, stream, pointer) ==
    IF item.array THEN ReadArray(item, stream, ReadSize(stream, pointer, item.size))
    ELSE ReadItem(item, stream, pointer)
FieldsFrom(fields, stream, first) == Joined(first, ReadObject(fields, stream, first.pointer))
ReadObject(fields, stream, pointer) ==
    IF fields = <<>> THEN [value |-> <<>>, pointer |-> pointer]
    ELSE FieldsFrom(Tail(fields), stream, ReadField(Head(fields), stream, pointer))

\* unserialize refuses a stream that does not end where its object ends.
EndsWithObject(fields, stream) == ReadObject(fields, stream, 0).pointer = Len(stream)

Unserialized(fields, stream) == ReadObject(fields, stream, 0).value

\* The validator lets optional fields be missing and takes what has no schema, but knows
\* no definitions written in an item, nor the sizes of arrays.
RECURSIVE Validates(_, _), ValidatesItem(_, _)
ValidatesItem(item, value) ==
    CASE Primitive(item)           -> Checks(item, value)
      [] item.type = "object"      -> ~item.inline /\ value.kind = "object" /\ Validates(item.fields, value.of)
      [] item.type = "unspecified" -> value.kind = "object"
Validates(fields, object) ==
    \A i \in DOMAIN fields :
      LET item == fields[i]
          value == object[i]
      IN IF value = Missing THEN item.optional
         ELSE IF item.array
         THEN /\ value.kind = "array"
              /\ \A k \in DOMAIN value.of : ValidatesItem(item, value.of[k])
         ELSE ValidatesItem(item, value)

-----------------------------------------------------------------------------
(* Messages. *)

SerializedMessage(collection, type, object) == <<type>> \o Serialized(collection[type + 1], object)

KnownMessage(collection, message) == Head(message) + 1 \in DOMAIN collection

UnserializedMessage(collection, message) ==
    [type |-> Head(message), object |-> Unserialized(collection[Head(message) + 1], Tail(message))]
=============================================================================
