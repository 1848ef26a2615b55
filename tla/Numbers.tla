------------------------------- MODULE Numbers --------------------------------
(* Numbers in WriteStream and ReadStream.  A byte has ByteValues values, and bounds are
   scaled with it.  The first byte of a number, which has flags in it, is the record of
   its flags' meaning put into one number. *)
EXTENDS Integers, Sequences, FiniteSetsExt

CONSTANTS ByteValues,     \* bound: 256 in the code
          SingleFloats    \* what a float of four bytes gives back, with either sign

ASSUME NumbersAssumption == ByteValues \in {4 * n : n \in 1 .. 64}

-----------------------------------------------------------------------------
(* WriteStream. *)

\* The first number that so many bytes do not hold.
Limit[size \in 0 .. 6] == IF size = 0 THEN 1 ELSE Limit[size - 1] * ByteValues

WriteUnsigned(n, size) == [i \in 1 .. size |-> (n \div Limit[size - i]) % ByteValues]

Integer(n) == [n |-> n, fraction |-> FALSE]

SmallNumber == ByteValues \div 4
Flags(meaning, n) == ByteValues * meaning + n
SizedNumber == 2
FloatNumber == 3

\* A number is an integer, or a fraction, which only a float can hold; an integer of more
\* than four bytes is also a float when four bytes are enough for that.
WriteNumber(number) ==
    LET n == number.n
        small == ~number.fraction /\ -SmallNumber <= n /\ n < SmallNumber
        fits == {size \in 1 .. 6 : /\ ~number.fraction /\ -Limit[size] <= n /\ n < Limit[size]
                                   /\ size > 4 => {n, -n} \cap SingleFloats = {}}
        size == Min(fits)
        sign == IF n < 0 THEN 1 ELSE 0
    IN CASE small -> <<Flags(1, n + SmallNumber)>>
         [] ~small /\ fits # {} -> <<Flags(SizedNumber + 2 * sign, size)>>
                                   \o WriteUnsigned(IF n < 0 THEN -n - 1 ELSE n, size)
         [] OTHER -> <<Flags(FloatNumber, 0), number>>

-----------------------------------------------------------------------------
(* ReadStream.  What is read is [value, pointer]; past the end there is nothing, which
   counts as 0, and the pointer goes on. *)

ReadByte(stream, pointer) == IF pointer < Len(stream) THEN stream[pointer + 1] ELSE 0

ReadUnsigned(stream, pointer, size) ==
    LET read[i \in 0 .. size] ==
          IF i = 0 THEN 0 ELSE read[i - 1] * ByteValues + ReadByte(stream, pointer + i - 1)
    IN read[size]

ReadNumber(stream, pointer) ==
    LET first == ReadByte(stream, pointer)
        meaning == first \div ByteValues
        size == first % ByteValues
        n == ReadUnsigned(stream, pointer + 1, size)
    IN CASE meaning = FloatNumber -> [value |-> ReadByte(stream, pointer + 1), pointer |-> pointer + 2]
         [] meaning = 1 -> [value |-> Integer(size - SmallNumber), pointer |-> pointer + 1]
         [] OTHER -> [value |-> Integer(IF meaning > SizedNumber THEN -n - 1 ELSE n),
                      pointer |-> pointer + 1 + size]
===============================================================================
