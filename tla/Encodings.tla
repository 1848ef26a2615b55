------------------------------- MODULE Encodings -------------------------------
(* Bytes as text, Base64, and the four bytes of a genesis seed that hold the expiration
   of a virtual blockchain, with the numbers, bytes and seeds that are encoded.  A Base64
   digit stands for 3/4 of a byte, and is known by its place in the alphabet, where the
   padding follows the digits. *)
EXTENDS Numbers, Inputs

CONSTANTS DigitValues,     \* bound: 64 in the code
          SecondsPerDay,
          SeedTypes,       \* the types of virtual blockchains
          MaxNumber,       \* bound: numbers of either sign
          MaxBytes,        \* bound: bytes that are encoded
          Samples,         \* which bytes are
          References,      \* seconds, from where expirations are counted
          Days             \* how many days later chains expire

\* Four digits hold three bytes, of those that Numbers knows.
ASSUME EncodingsAssumption == /\ <<ByteValues, DigitValues>> \in {<<16, 8>>, <<256, 64>>}
                              /\ SecondsPerDay \in Nat \ {0}
                              /\ SeedTypes \subseteq 0 .. ByteValues - 1
                              /\ MaxNumber \in Nat
                              /\ MaxBytes \in Nat
                              /\ Samples \subseteq 0 .. ByteValues - 1
                              /\ References \subseteq Nat
                              /\ Days \subseteq Nat

Padding == DigitValues

\* How many more make the length of a list a multiple of a group's.
Lacking(list, group) == (-Len(list)) % group

\* The place of i in its group, from 1 on, and how many places of groups before come first.
PlaceInGroup(i, group) == ((i - 1) % group) + 1
GroupStart(i, group, other) == ((i - 1) \div group) * other

Digit(acc, place) == (acc \div DigitValues ^ place) % DigitValues

\* The digits of groups of three bytes; those past the end count as 0.
DigitAt(bytes, i) == Digit(ReadUnsigned(bytes, GroupStart(i, 4, 3), 3), 4 - PlaceInGroup(i, 4))

PaddingFor(bytes, padded) == [i \in 1 .. (IF padded THEN Lacking(bytes, 3) ELSE 0) |-> Padding]

\* Mutant: a last group that is not whole keeps the digits that hold no byte.
EncodeBinaryWhole(bytes, padded) ==
    [i \in 1 .. ((Len(bytes) + Lacking(bytes, 3)) \div 3) * 4 |-> DigitAt(bytes, i)]
    \o PaddingFor(bytes, padded)

\* The digits that only stand for bytes past the end are dropped.
EncodeBinary(bytes, padded) ==
    [i \in 1 .. ((Len(bytes) + Lacking(bytes, 3)) \div 3) * 4 - Lacking(bytes, 3) |-> DigitAt(bytes, i)]
    \o PaddingFor(bytes, padded)

\* The place of the padding has one bit more than a digit: it goes into the digit before.
AddDigit(acc, digit) ==
    IF digit = Padding THEN (acc - (acc % 2) + 1) * DigitValues ELSE acc * DigitValues + digit

\* Three bytes, of the four digits from there on.
BytesOfGroup(text, start) ==
    WriteUnsigned(AddDigit(AddDigit(AddDigit(AddDigit(0, text[start + 1]), text[start + 2]),
                                    text[start + 3]), text[start + 4]), 3)

DecodeBinary(text) ==
    LET whole == text \o [i \in 1 .. Lacking(text, 4) |-> Padding]
        crop == Cardinality({i \in DOMAIN whole : whole[i] = Padding})
    IN [i \in 1 .. (Len(whole) \div 4) * 3 - crop |->
          BytesOfGroup(whole, GroupStart(i, 3, 4))[PlaceInGroup(i, 3)]]

-----------------------------------------------------------------------------

NoExpiration == 0

\* Midnight of the day that many days later.
ExpiresInDaysAfter(reference, days) == (reference \div SecondsPerDay + days) * SecondsPerDay

GenesisSeed(type, expiration, randomness) ==
    <<type>> \o WriteUnsigned(expiration, 4) \o <<0, 0, 0>> \o randomness

ExtractType(seed) == seed[1]

ExtractRandomness(seed) == SubSeq(seed, 9, Len(seed))

\* Shifts work on signed words of four bytes.
SignedWord(word) == IF word < Limit[4] \div 2 THEN word ELSE word - Limit[4]

ExtractExpirationDay(seed) == SignedWord(ReadUnsigned(seed, 1, 4))

-----------------------------------------------------------------------------

Randomness == <<1, 2, 3>>

NothingEncoded ==
    \/ input = [of |-> "bytes", bytes |-> <<>>]
    \/ \E fraction \in BOOLEAN : input = [of |-> "number", number |-> [n |-> 0, fraction |-> fraction]]
    \/ \E type \in SeedTypes : input = [of |-> "seed", type |-> type, expiration |-> NoExpiration]

AddByte ==
    /\ input.of = "bytes"
    /\ Len(input.bytes) < MaxBytes
    /\ \E byte \in Samples : input' = [input EXCEPT !.bytes = Append(@, byte)]

\* Away from 0 in either direction, by one byte or by one.
ChangeNumber ==
    /\ input.of = "number"
    /\ ~input.number.fraction
    /\ \E n \in {input.number.n + 1, input.number.n - 1, input.number.n * ByteValues} :
         /\ -MaxNumber <= n /\ n <= MaxNumber
         /\ input' = [input EXCEPT !.number.n = n]

Expire ==
    /\ input.of = "seed"
    /\ input.expiration = NoExpiration
    /\ \E reference \in References, days \in Days :
         input' = [input EXCEPT !.expiration = ExpiresInDaysAfter(reference, days)]

EncodingsSpec == NothingEncoded /\ [][AddByte \/ ChangeNumber \/ Expire]_input

\* A number is read back from as many bytes as were written for it; bytes come back from
\* Base64 with and without padding, and padded text is in groups of four; a genesis seed gives back
\* its type, its randomness and an expiration below half of what its bytes can hold
\* (byteStreams.ts:139-319, base64.ts:25-62, VirtualBlockchainSeed.ts:13-59, Microblock.ts:194-207).
EncodingsInvert ==
    /\ input.of = "number" =>
         ReadNumber(WriteNumber(input.number), 0)
           = [value |-> input.number, pointer |-> Len(WriteNumber(input.number))]
    /\ input.of = "bytes" =>
         /\ \A padded \in BOOLEAN : DecodeBinary(EncodeBinary(input.bytes, padded)) = input.bytes
         /\ Len(EncodeBinary(input.bytes, TRUE)) % 4 = 0
    /\ input.of = "seed" =>
         LET seed == GenesisSeed(input.type, input.expiration, Randomness)
         IN /\ ExtractType(seed) = input.type
            /\ ExtractRandomness(seed) = Randomness
            /\ input.expiration < Limit[4] \div 2 =>
                 ExtractExpirationDay(seed) = input.expiration
=============================================================================
