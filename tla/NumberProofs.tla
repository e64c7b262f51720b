---------------------------- MODULE NumberProofs ----------------------------
(***************************************************************************)
(* Facts about numbers that the proofs about the data need: induction over *)
(* the naturals, and that the bytes of a number are the number's, for      *)
(* every width of a byte.                                                  *)
(***************************************************************************)
EXTENDS Numbers, SequenceTheorems, WellFoundedInduction, TLAPS

USE ByteAssumption

-----------------------------------------------------------------------------
(* Induction.  The induction theorems of the library are about operators;  *)
(* these are about sets, and follow from its theorem about minimal         *)
(* elements of a well-founded relation.                                    *)

Less == OpToRel(<, Nat)

LEMMA LessIs ==
  IsWellFoundedOn(Less, Nat) /\ \A x \in Nat, y \in Nat : <<y, x>> \in Less <=> y < x
  <1>1. IsWellFoundedOn(Less, Nat)
    BY NatLessThanWellFounded DEF Less
  <1>2. \A x \in Nat, y \in Nat : <<y, x>> \in Less <=> y < x
    BY DEF OpToRel, Less
  <1>3. QED
    BY <1>1, <1>2

LEMMA SmallestOf ==
  ASSUME NEW S \in SUBSET Nat, S # {}
  PROVE  \E k \in S : \A y \in S : k <= y
  <1>1. PICK k \in S : \A y \in S : ~(<<y, k>> \in Less)
    BY LessIs, WFMin
  <1>2. \A y \in S : ~(y < k)
    BY <1>1, LessIs
  <1>3. k \in Nat /\ \A y \in S : y \in Nat
    OBVIOUS
  <1>4. \A y \in S : k <= y
    BY <1>2, <1>3
  <1>5. QED
    BY <1>4

LEMMA SetInduction ==
  ASSUME NEW S, 0 \in S, \A n \in Nat : n \in S => n + 1 \in S
  PROVE  Nat \subseteq S
  <1> SUFFICES ASSUME Nat \ S # {} PROVE FALSE
    OBVIOUS
  <1>1. PICK k \in Nat \ S : \A y \in Nat \ S : k <= y
    BY SmallestOf
  <1>2. k # 0 /\ k - 1 \in Nat /\ k - 1 \in S
    BY <1>1
  <1>3. (k - 1) + 1 \in S
    BY <1>2
  <1>4. QED
    BY <1>1, <1>3

-----------------------------------------------------------------------------
(* Sequences *)

LEMMA TuplesAreSequences ==
  ASSUME NEW S
  PROVE  /\ \A b \in S \X S : b \in Seq(S) /\ Len(b) = 2
         /\ \A b \in S \X S \X S \X S : b \in Seq(S) /\ Len(b) = 4
  <1>1. ASSUME NEW b \in S \X S
        PROVE  b \in Seq(S) /\ Len(b) = 2
    <2>1. PICK x \in S, y \in S : b = <<x, y>>
      OBVIOUS
    <2>2. <<x, y>> \in Seq(S) /\ Len(<<x, y>>) = 2
      OBVIOUS
    <2>3. QED
      BY <2>1, <2>2
  <1>2. ASSUME NEW b \in S \X S \X S \X S
        PROVE  b \in Seq(S) /\ Len(b) = 4
    <2>1. PICK x \in S, y \in S, z \in S, u \in S : b = <<x, y, z, u>>
      OBVIOUS
    <2>2. <<x, y, z, u>> \in Seq(S) /\ Len(<<x, y, z, u>>) = 4
      OBVIOUS
    <2>3. QED
      BY <2>1, <2>2
  <1>3. QED
    BY <1>1, <1>2

-----------------------------------------------------------------------------
(* Numbers and their bytes *)

LEMMA WordWidth == U16 \in Nat /\ U16 >= 4 /\ U32 \in Nat /\ U32 >= U16
  <1>1. PICK b \in Nat : b = Byte /\ b >= 2
    BY DEF ByteAssumption
  <1>2. b * b \in Nat /\ b * b >= 2 * b
    BY <1>1, SMT
  <1>3. PICK w \in Nat : w = U16 /\ w >= 4
    BY <1>1, <1>2 DEF U16
  <1>4. w * w \in Nat /\ w * w >= w
    BY <1>3, SMT
  <1>5. QED
    BY <1>3, <1>4 DEF U32

LEMMA Divides ==
  ASSUME NEW n \in Nat, NEW d \in Nat, d > 0
  PROVE  n \div d \in Nat /\ n % d \in 0 .. d - 1 /\ n = d * (n \div d) + (n % d)
  OBVIOUS

LEMMA QuotientIsBelow ==
  ASSUME NEW a \in Nat, NEW b \in Nat, NEW c \in Nat, b > 0, a < b * c
  PROVE  a \div b < c
  OBVIOUS

LEMMA Bytes16 ==
  ASSUME NEW v \in 0 .. U16 - 1
  PROVE  /\ BE16(v) \in Bytes \X Bytes /\ LE16(v) \in Bytes \X Bytes
         /\ OfBE16(BE16(v)) = v /\ OfLE16(LE16(v)) = v
         /\ BE16(v) = <<v \div Byte, v % Byte>> /\ LE16(v) = <<v % Byte, v \div Byte>>
  <1>1. v \in Nat /\ v < Byte * Byte
    BY WordWidth DEF U16
  <1>2. v \div Byte \in Bytes /\ v % Byte \in Bytes /\ (v \div Byte) * Byte + (v % Byte) = v
    BY <1>1, Divides, QuotientIsBelow DEF Bytes
  <1>3. QED
    BY <1>2 DEF BE16, LE16, OfBE16, OfLE16

\* Two bytes are what the numbers of them are made of.
LEMMA NumberOf16 ==
  ASSUME NEW b, NEW x \in Bytes, NEW y \in Bytes, b = <<x, y>>
  PROVE  OfBE16(b) \in 0 .. U16 - 1 /\ OfLE16(b) \in 0 .. U16 - 1
  <1>1. x * Byte + y \in Nat /\ x * Byte + y < Byte * Byte
    <2>1. x \in Nat /\ y \in Nat /\ x <= Byte - 1 /\ y <= Byte - 1
      BY DEF Bytes
    <2>2. x * Byte <= (Byte - 1) * Byte /\ x * Byte \in Nat
      BY <2>1
    <2>3. QED
      BY <2>1, <2>2
  <1>2. y * Byte + x \in Nat /\ y * Byte + x < Byte * Byte
    <2>1. x \in Nat /\ y \in Nat /\ x <= Byte - 1 /\ y <= Byte - 1
      BY DEF Bytes
    <2>2. y * Byte <= (Byte - 1) * Byte /\ y * Byte \in Nat
      BY <2>1
    <2>3. QED
      BY <2>1, <2>2
  <1>3. QED
    BY <1>1, <1>2 DEF OfBE16, OfLE16, U16

LEMMA Concat22 ==
  ASSUME NEW a, NEW b, NEW c, NEW d
  PROVE  <<a, b>> \o <<c, d>> = <<a, b, c, d>>
  <1> DEFINE S == {a, b, c, d}
             s == <<a, b>> \o <<c, d>>
             t == <<a, b, c, d>>
  <1>1. <<a, b>> \in Seq(S) /\ <<c, d>> \in Seq(S) /\ t \in Seq(S)
    OBVIOUS
  <1>2. s \in Seq(S) /\ Len(s) = 4 /\ Len(t) = 4
    BY <1>1
  <1>3. s[1] = a /\ s[2] = b /\ s[3] = c /\ s[4] = d
    BY <1>1
  <1>4. \A i \in 1 .. Len(s) : s[i] = t[i]
    BY <1>2, <1>3
  <1> HIDE DEF S, s, t
  <1>5. s = t
    BY <1>1, <1>2, <1>4, SeqEqual
  <1>6. QED
    BY <1>5 DEF s, t

LEMMA Bytes32 ==
  ASSUME NEW v \in 0 .. U32 - 1
  PROVE  /\ BE32(v) \in Bytes \X Bytes \X Bytes \X Bytes
         /\ OfBE32(BE32(v)) = v
  <1> DEFINE h == v \div U16
             l == v % U16
  <1>1. v \in Nat /\ v < U16 * U16 /\ U16 \in Nat /\ U16 > 0
    BY WordWidth DEF U32
  <1>2. h \in 0 .. U16 - 1 /\ l \in 0 .. U16 - 1 /\ h * U16 + l = v
    BY <1>1, Divides, QuotientIsBelow
  <1> HIDE DEF h, l
  <1>3. BE32(v) = <<h \div Byte, h % Byte, l \div Byte, l % Byte>>
    <2>1. BE32(v) = BE16(h) \o BE16(l)
      BY DEF BE32, h, l
    <2>2. BE16(h) = <<h \div Byte, h % Byte>> /\ BE16(l) = <<l \div Byte, l % Byte>>
      BY DEF BE16
    <2>3. QED
      BY <2>1, <2>2, Concat22
  <1>4. /\ h \div Byte \in Bytes /\ h % Byte \in Bytes
        /\ l \div Byte \in Bytes /\ l % Byte \in Bytes
    BY <1>2, Bytes16
  <1>5. OfBE16(<<h \div Byte, h % Byte>>) = h /\ OfBE16(<<l \div Byte, l % Byte>>) = l
    BY <1>2, Bytes16
  <1>6. OfBE32(BE32(v)) = h * U16 + l
    BY <1>3, <1>5 DEF OfBE32
  <1>7. QED
    BY <1>2, <1>3, <1>4, <1>6

LEMMA NumberOf32 ==
  ASSUME NEW b \in Bytes \X Bytes \X Bytes \X Bytes
  PROVE  OfBE32(b) \in 0 .. U32 - 1
  <1>1. b[1] \in Bytes /\ b[2] \in Bytes /\ b[3] \in Bytes /\ b[4] \in Bytes
    OBVIOUS
  <1>2. PICK h \in 0 .. U16 - 1 : h = OfBE16(<<b[1], b[2]>>)
    BY <1>1, NumberOf16
  <1>3. PICK l \in 0 .. U16 - 1 : l = OfBE16(<<b[3], b[4]>>)
    BY <1>1, NumberOf16
  <1>4. h * U16 + l \in Nat /\ h * U16 + l < U16 * U16
    <2>1. U16 \in Nat /\ h \in Nat /\ l \in Nat /\ h <= U16 - 1 /\ l <= U16 - 1
      BY WordWidth
    <2>2. h * U16 <= (U16 - 1) * U16 /\ h * U16 \in Nat
      BY <2>1
    <2>3. QED
      BY <2>1, <2>2
  <1>5. OfBE32(b) = h * U16 + l
    BY <1>2, <1>3 DEF OfBE32
  <1>6. OfBE32(b) \in Nat /\ OfBE32(b) < U32 /\ U32 \in Nat
    BY <1>4, <1>5, WordWidth DEF U32
  <1>7. QED
    BY <1>6

\* intN and uintN are inverse to each other.
LEMMA Signs ==
  ASSUME NEW n \in Nat, n > 0, NEW x \in 0 .. n - 1
  PROVE  /\ Signed(x, n) \in Int
         /\ Unsigned(x, n) = x
         /\ Unsigned(Signed(x, n), n) = x
  <1>1. x % n = x /\ (x - n) % n = x
    OBVIOUS
  <1>2. QED
    BY <1>1 DEF Signed, Unsigned
=============================================================================
