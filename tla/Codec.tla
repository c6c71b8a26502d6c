-------------------------------- MODULE Codec --------------------------------
(***************************************************************************)
(* The Modbus codec of protocols/modbus_codec.py: values of a type to and  *)
(* from registers, under each word order and byte order, and the scaling   *)
(* between raw and engineering values.                                     *)
(*                                                                         *)
(* A byte has ByteBits bits, 8 in the code; every width follows from it.   *)
(* A register is two bytes.  A boolean is 0 or 1.  Scales and offsets are  *)
(* integers, a unit being as fine as need be.  Floating point types are    *)
(* left out: they go through the same reordering of bytes.                 *)
(***************************************************************************)
EXTENDS Integers, Sequences, SequencesExt

CONSTANTS ByteBits, None

ASSUME CodecAssumption == ByteBits \in Nat \ {0} /\ None \notin Int

TwoTo[n \in Nat] == IF n = 0 THEN 1 ELSE 2 * TwoTo[n - 1]

Base == TwoTo[ByteBits]

Register == 0..Base * Base - 1

Bits == 0..2 * ByteBits - 1

Orders == {"big", "little"}

Types == {"bool", "int16", "uint16", "int32", "uint32"}

RegisterCount(type) == IF type \in {"int32", "uint32"} THEN 2 ELSE 1

(* How many values a numeric type has, and which they are.                 *)
Span(type) == TwoTo[2 * ByteBits * RegisterCount(type)]

Lowest(type) == IF type \in {"int16", "int32"} THEN -(Span(type) \div 2) ELSE 0

Highest(type) == Lowest(type) + Span(type) - 1

-----------------------------------------------------------------------------
(* Registers and bytes                                                     *)

High(r) == r \div Base

Low(r) == r % Base

SwapBytes(r) == Low(r) * Base + High(r)

InWordOrder(regs, wordOrder) == IF wordOrder = "little" THEN Reverse(regs) ELSE regs

(* The bytes of a value, most significant first.                           *)
RegistersToBytes(regs, wordOrder, byteOrder) ==
    LET ordered == InWordOrder(regs, wordOrder)
    IN  [k \in 1..2 * Len(regs) |->
            IF (k % 2 = 1) = (byteOrder = "big")
            THEN High(ordered[(k + 1) \div 2]) ELSE Low(ordered[(k + 1) \div 2])]

BytesToRegisters(data, wordOrder, byteOrder) ==
    InWordOrder([i \in 1..Len(data) \div 2 |->
                    IF byteOrder = "little" THEN data[2 * i] * Base + data[2 * i - 1]
                    ELSE data[2 * i - 1] * Base + data[2 * i]],
                wordOrder)

-----------------------------------------------------------------------------
(* struct.pack and struct.unpack of integers, in two's complement          *)

Pack(value, type) ==
    LET length == 2 * RegisterCount(type)
    IN  [k \in 1..length |-> ((value % Span(type)) \div TwoTo[ByteBits * (length - k)]) % Base]

Unsigned(data) ==
    LET upTo[k \in 0..Len(data)] == IF k = 0 THEN 0 ELSE upTo[k - 1] * Base + data[k]
    IN  upTo[Len(data)]

Unpack(data, type) ==
    LET n == Unsigned(data)
    IN  IF n > Highest(type) THEN n - Span(type) ELSE n

-----------------------------------------------------------------------------
(* Bits, rounding and clamping                                             *)

BitFromWord(word, bit) == (word \div TwoTo[bit]) % 2

(* Mutant of WordFromBit: the word is made anew.                           *)
WordOfBit(bit, value, baseWord) == value * TwoTo[bit]

(* Mutant of WordFromBit: a bit is added to the word, set or not.          *)
BitAdded(bit, value, baseWord) == baseWord + value * TwoTo[bit]

WordFromBit(bit, value, baseWord) ==
    baseWord + (value - BitFromWord(baseWord, bit)) * TwoTo[bit]

ClampToType(n, type) ==
    IF n < Lowest(type) THEN Lowest(type)
    ELSE IF n > Highest(type) THEN Highest(type) ELSE n

(* round() of n / d: to the nearest integer, from halfway to the even one. *)
Rounded(n, d) ==
    LET m == IF d < 0 THEN -n ELSE n
        e == IF d < 0 THEN -d ELSE d
        floor == m \div e
        rest == 2 * (m % e)
    IN  IF rest < e \/ (rest = e /\ floor % 2 = 0) THEN floor ELSE floor + 1

-----------------------------------------------------------------------------
(* Values; tag is a record with fields type, word, byte, bit, scale, offset *)

DecodeRegisters(regs, tag) ==
    IF tag.type = "bool"
    THEN LET word == IF tag.byte = "little" THEN SwapBytes(regs[1]) ELSE regs[1]
         IN  IF tag.bit # None THEN BitFromWord(word, tag.bit)
             ELSE IF word # 0 THEN 1 ELSE 0
    ELSE Unpack(RegistersToBytes(regs, tag.word, tag.byte), tag.type)

(* The value of a bit is put into the word as it came from the device, and *)
(* the bytes of the whole word are swapped after that.                     *)
EncodeBool(value, tag, baseWord) ==
    LET word == IF tag.bit = None THEN value ELSE WordFromBit(tag.bit, value, baseWord)
    IN  <<IF tag.byte = "little" THEN SwapBytes(word) ELSE word>>

(* The raw value is (value - offset) / scale, rounded as it is encoded.    *)
EncodeNumber(value, tag) ==
    LET raw == ClampToType(Rounded(value - tag.offset, tag.scale), tag.type)
    IN  BytesToRegisters(Pack(raw, tag.type), tag.word, tag.byte)

ToEngineering(raw, tag) == IF tag.type = "bool" THEN raw ELSE raw * tag.scale + tag.offset
=============================================================================
