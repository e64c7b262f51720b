------------------------------ MODULE Numbers ------------------------------
(***************************************************************************)
(* The numbers of the code and their bytes (encoding/binary, the one-line  *)
(* helpers of bytes.go).  A byte has Byte values, 256 in the code and      *)
(* fewer for model checking; a uint16 has Byte * Byte and wraps.           *)
(***************************************************************************)
EXTENDS Integers, Sequences

CONSTANT Byte

ASSUME ByteAssumption == Byte \in Nat /\ Byte >= 2

Bytes == 0 .. Byte - 1
U16 == Byte * Byte
U32 == U16 * U16
Wrap(n) == n % U16

\* PutUint16 and Uint16 of binary.BigEndian and binary.LittleEndian
BE16(v) == <<v \div Byte, v % Byte>>
LE16(v) == <<v % Byte, v \div Byte>>
OfBE16(b) == b[1] * Byte + b[2]
OfLE16(b) == b[2] * Byte + b[1]

BE32(v) == BE16(v \div U16) \o BE16(v % U16)
OfBE32(b) == OfBE16(<<b[1], b[2]>>) * U16 + OfBE16(<<b[3], b[4]>>)

\* Slip: the sign is kept.
SlipUnsigned(x, n) == x

\* intN(x) of an unsigned x below n, and uintN of any number.
Signed(x, n) == IF x < n \div 2 THEN x ELSE x - n
Unsigned(x, n) == x % n
=============================================================================
