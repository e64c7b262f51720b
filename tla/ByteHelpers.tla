---------------------------- MODULE ByteHelpers ----------------------------
(***************************************************************************)
(* The helpers of bytes.go.  The functions for 2, 3, 4 and 8 bytes differ  *)
(* in nothing but the width, and are one operator each; a float is the     *)
(* number of its bit pattern.  A byte has PerByte bits, 8 in the code.     *)
(***************************************************************************)
EXTENDS Numbers, SequencesExt

CONSTANT PerByte

ASSUME PerByteAssumption == PerByte \in Nat \ {0} /\ Byte = 2 ^ PerByte

\* The number of some digits, the most significant first: each is added to the shifted rest.
OfDigits(base, d) ==
  LET upTo[j \in 0 .. Len(d)] == IF j = 0 THEN 0 ELSE base * upTo[j - 1] + d[j]
  IN  upTo[Len(d)]

\* What is left of n without its last k digits.
Shifted(base, n, k) ==
  LET rest[i \in 0 .. k] == IF i = 0 THEN n ELSE rest[i - 1] \div base
  IN  rest[k]

\* ParseUint16, ParseUint32, ParseUint64 and the floats
ParseUint(b) == OfDigits(Byte, b)
ParseUintLittleEndian(b) == OfDigits(Byte, Reverse(b))

\* Slip: the bytes are shifted by one more.
SlipUintToBytes(n, value) == [i \in 1 .. n |-> Shifted(Byte, value, n - i + 1) % Byte]

\* Uint16ToBytes, WriteUint24ToBytes, WriteUint64ToBytes, ...
UintToBytes(n, value) == [i \in 1 .. n |-> Shifted(Byte, value, n - i) % Byte]
UintToBytesLittleEndian(n, value) == [i \in 1 .. n |-> Shifted(Byte, value, i - 1) % Byte]

BoolToAscii(b) == [i \in DOMAIN b |-> IF b[i] = 0 THEN "0" ELSE "1"]
AsciiToBool(b) == [i \in DOMAIN b |-> IF b[i] = "0" THEN 0 ELSE 1]

Bit(b, i) == Shifted(2, b, i) % 2

\* The j-th byte has bits 0 to PerByte - 1 of its own, those beyond the end 0.
ShrinkBool(b) ==
  [j \in 1 .. (Len(b) + PerByte - 1) \div PerByte |->
     OfDigits(2, [k \in 1 .. PerByte |->
       LET i == j * PerByte + 1 - k
       IN  IF i <= Len(b) /\ b[i] > 0 THEN 1 ELSE 0])]

\* Slip: it is b[i/8] that is set, as in ShrinkBool.
SlipExpandBool(b, count) ==
  [i \in 1 .. count |->
     IF \E k \in 0 .. Len(b) - 1 : i = 1 + k \div PerByte
                                   /\ Bit(b[1 + k \div PerByte], k % PerByte) = 1
       THEN 1 ELSE 0]

\* The loop runs over the bytes of b, not over the bits: the rest stays 0.
ExpandBool(b, count) ==
  [i \in 1 .. (IF count > PerByte * Len(b) THEN PerByte * Len(b) ELSE count) |->
     IF i <= Len(b) THEN Bit(b[1 + (i - 1) \div PerByte], (i - 1) % PerByte) ELSE 0]

\* b[i] = 1 of a bit that is set beyond count entries
ExpandOutOfRange(b, count) ==
  \E i \in 1 .. Len(b) :
    i > count /\ Bit(b[1 + (i - 1) \div PerByte], (i - 1) % PerByte) = 1
=============================================================================
