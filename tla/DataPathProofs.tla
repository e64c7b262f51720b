---------------------------- MODULE DataPathProofs ----------------------------
(***************************************************************************)
(* The data path for every width of a byte, every buffer and all calls:    *)
(* what is written is read back, reads return the memory, writes change    *)
(* their own data only, and reads that ask for something return.           *)
(*                                                                         *)
(* The argument: what a request carries (Encoded) and what is made of a    *)
(* response (Decoded) are described kind by kind; the invariant DataInv    *)
(* then says what the simulator's memory has to do with them at any time.  *)
(* An answer that waits to be sent is the memory (ReadInv), the data of a  *)
(* write that has been handled are in it (WriteInv), and so are those of   *)
(* all writes that are intact, the one being answered excepted that may    *)
(* just have touched them (IntactInv).  The properties of what a read      *)
(* returns need nothing more: only Return makes them say something new.    *)
(***************************************************************************)
EXTENDS DataPath, PlcSimulatorProofs, NumberProofs

USE ByteAssumption, SimulatorAssumption, DataPathAssumption

-----------------------------------------------------------------------------
(* What an operation puts into its request *)

\* A swap undoes itself.
LEMMA SwapsUndo ==
  ASSUME NEW S, NEW bs \in BOOLEAN, NEW ws \in BOOLEAN
  PROVE  /\ \A b \in S \X S : Swap16(b, bs) \in S \X S /\ Swap16(Swap16(b, bs), bs) = b
         /\ \A b \in S \X S \X S \X S :
              /\ Swap32(b, bs, ws) \in S \X S \X S \X S
              /\ Swap32(Swap32(b, bs, ws), bs, ws) = b
  BY DEF Swap16, Swap32, SwappedInPlace, ByteSwapped, WordSwapped

\* The fields of an operation
LEMMA OperationIs ==
  ASSUME NEW o \in Operations
  PROVE  /\ o.do \in {"read", "write"} /\ o.kind \in Kinds /\ o.area \in Areas
         /\ o.address \in 0 .. U16 - 1 /\ o.address \in Nat /\ o.bit \in Bytes /\ o.bit \in Nat
         /\ o.count \in 0 .. U16 - 1 /\ o.count \in Nat
         /\ o.bs \in BOOLEAN /\ o.ws \in BOOLEAN
         /\ o.do = "write" => /\ o.kind # "clock" /\ o.value \in Seq(NumbersOf(o.kind))
                             /\ Len(o.value) \in Nat
         /\ o.do = "write" /\ o.kind \in Kinds16 \cup Kinds32 \cup {"float"} =>
              Len(o.value) = 1 /\ o.value[1] \in NumbersOf(o.kind)
  BY OperationsAssumption, Widths DEF WellTyped, Bytes

\* The item count, kind by kind, is one of 16 bits.
LEMMA ItemsOf ==
  ASSUME NEW o \in Operations, o.do = "write"
  PROVE  /\ o.kind \in Kinds16 => Items(o) = 1
         /\ o.kind \in Kinds32 \cup {"float"} => Items(o) = 2
         /\ o.kind = "string" => Items(o) = Wrap((Len(o.value) + 1) \div 2)
         /\ o.kind \in {"words", "bytes", "bits"} =>
              Items(o) = Wrap(Len(o.value)) /\ Items(o) <= Len(o.value)
         /\ Items(o) \in Nat /\ Items(o) < U16
  <1>1. o.kind \in Kinds \ {"clock"} /\ Len(o.value) \in Nat
    BY OperationIs
  <1>2. /\ o.kind \in Kinds16 => Items(o) = 1
        /\ o.kind \in Kinds32 \cup {"float"} => Items(o) = 2
        /\ o.kind = "string" => Items(o) = Wrap((Len(o.value) + 1) \div 2)
        /\ o.kind \in {"words", "bytes", "bits"} => Items(o) = Wrap(Len(o.value))
    BY DEF Items, Kinds16, Kinds32
  <1>3. /\ 1 \in Nat /\ 2 \in Nat /\ 1 < U16 /\ 2 < U16
        /\ Wrap(Len(o.value)) \in Nat /\ Wrap(Len(o.value)) < U16
        /\ Wrap(Len(o.value)) <= Len(o.value)
    BY <1>1, WrapIs, Widths
  <1>4. Wrap((Len(o.value) + 1) \div 2) \in Nat /\ Wrap((Len(o.value) + 1) \div 2) < U16
    <2>1. PICK n \in Nat : n = Len(o.value)
      BY <1>1
    <2>2. (n + 1) \div 2 \in Nat
      OBVIOUS
    <2>3. QED
      BY <2>1, <2>2, WrapIs
  <1>5. CASE o.kind \in Kinds16 \cup Kinds32 \cup {"float"}
    <2>1. Items(o) \in Nat /\ Items(o) < U16
      BY <1>2, <1>3, <1>5
    <2>2. QED
      BY <1>2, <1>5, <2>1 DEF Kinds16, Kinds32
  <1>6. CASE o.kind = "string"
    BY <1>2, <1>4, <1>6 DEF Kinds16, Kinds32
  <1>7. CASE o.kind \in {"words", "bytes", "bits"}
    BY <1>2, <1>3, <1>7 DEF Kinds16, Kinds32
  <1>8. QED
    BY <1>1, <1>5, <1>6, <1>7 DEF Kinds

LEMMA AskedForIs ==
  ASSUME NEW o \in Operations
  PROVE  /\ WordsPer(o.kind) \in {1, 2, 4}
         /\ o.kind # "clock" => AskedFor(o) = Wrap(WordsPer(o.kind) * o.count)
         /\ AskedFor(o) \in Nat /\ AskedFor(o) < U16
  <1>1. WordsPer(o.kind) \in {1, 2, 4}
    BY DEF WordsPer
  <1>2. WordsPer(o.kind) * o.count \in Nat
    BY <1>1, OperationIs
  <1>3. QED
    BY <1>1, <1>2, WrapIs, Widths DEF AskedFor

\* The encoding, kind by kind.
LEMMA EncodedOf ==
  ASSUME NEW o, NEW ord
  PROVE  /\ o.kind = "uint16" =>
              Encoded(o, ord) = IF o.bs THEN LE16(o.value[1]) ELSE BE16(o.value[1])
         /\ o.kind = "int16" => Encoded(o, ord) = LE16(Unsigned(o.value[1], U16))
         /\ o.kind \in Kinds32 =>
              Encoded(o, ord) = Swap32(BE32(Unsigned(o.value[1], U32)), o.bs, o.ws)
         /\ o.kind = "float" => Encoded(o, ord) = BE32(o.value[1])
         /\ o.kind = "words" =>
              Encoded(o, ord) =
                [j \in 1 .. 2 * Items(o) |-> Put16(ord, o.value[(j + 1) \div 2])[2 - (j % 2)]]
         /\ o.kind = "string" => Encoded(o, ord) = o.value \o [i \in DOMAIN o.value |-> 0]
         /\ o.kind = "bits" => Encoded(o, ord) = SubSeq(o.value, 1, Items(o))
         /\ o.kind = "bytes" => Encoded(o, ord) = o.value
  BY DEF Encoded, Kinds32

\* A number that is written in two or four bytes
LEMMA UnsignedValue ==
  ASSUME NEW o \in Operations, o.do = "write"
  PROVE  /\ o.kind = "uint16" => o.value[1] \in 0 .. U16 - 1
         /\ o.kind = "int16" =>
              /\ Unsigned(o.value[1], U16) \in 0 .. U16 - 1
              /\ Signed(Unsigned(o.value[1], U16), U16) = o.value[1]
         /\ o.kind \in {"uint32", "float"} =>
              o.value[1] \in 0 .. U32 - 1 /\ Unsigned(o.value[1], U32) = o.value[1]
         /\ o.kind = "int32" =>
              /\ Unsigned(o.value[1], U32) \in 0 .. U32 - 1
              /\ Signed(Unsigned(o.value[1], U32), U32) = o.value[1]
  <1>1. U16 \in Nat /\ U16 > 0 /\ U32 \in Nat /\ U32 > 0
    BY Widths DEF U32
  <1>2. o.kind \in Kinds16 \cup Kinds32 \cup {"float"} => o.value[1] \in NumbersOf(o.kind)
    BY OperationIs
  <1>3. CASE o.kind = "uint16"
    BY <1>2, <1>3 DEF NumbersOf, Kinds16
  <1>4. CASE o.kind = "int16"
    <2>1. PICK x \in 0 .. U16 - 1 : o.value[1] = Signed(x, U16)
      BY <1>2, <1>4 DEF NumbersOf, Kinds16
    <2>2. Unsigned(o.value[1], U16) = x
      BY <1>1, <2>1, Signs
    <2>3. QED
      BY <1>4, <2>1, <2>2 DEF Kinds32
  <1>5. CASE o.kind \in {"uint32", "float"}
    <2>1. o.value[1] \in 0 .. U32 - 1
      BY <1>2, <1>5 DEF NumbersOf, Kinds32
    <2>2. QED
      BY <1>1, <1>5, <2>1, Signs
  <1>6. CASE o.kind = "int32"
    <2>1. PICK x \in 0 .. U32 - 1 : o.value[1] = Signed(x, U32)
      BY <1>2, <1>6 DEF NumbersOf, Kinds32
    <2>2. Unsigned(o.value[1], U32) = x
      BY <1>1, <2>1, Signs
    <2>3. QED
      BY <1>6, <2>1, <2>2
  <1>7. QED
    BY <1>3, <1>4, <1>5, <1>6

LEMMA EncodedNumber ==
  ASSUME NEW o \in Operations, o.do = "write", NEW ord
  PROVE  /\ o.kind \in Kinds16 => Encoded(o, ord) \in Bytes \X Bytes
         /\ o.kind \in Kinds32 \cup {"float"} =>
              Encoded(o, ord) \in Bytes \X Bytes \X Bytes \X Bytes
  <1>1. ASSUME o.kind = "uint16"
        PROVE  Encoded(o, ord) \in Bytes \X Bytes
    <2>1. o.value[1] \in 0 .. U16 - 1
      BY <1>1, UnsignedValue
    <2>2. Encoded(o, ord) = LE16(o.value[1]) \/ Encoded(o, ord) = BE16(o.value[1])
      BY <1>1, EncodedOf
    <2>3. QED
      BY <2>1, <2>2, Bytes16
  <1>2. ASSUME o.kind = "int16"
        PROVE  Encoded(o, ord) \in Bytes \X Bytes
    <2>1. Unsigned(o.value[1], U16) \in 0 .. U16 - 1
      BY <1>2, UnsignedValue
    <2>2. Encoded(o, ord) = LE16(Unsigned(o.value[1], U16))
      BY <1>2, EncodedOf
    <2>3. QED
      BY <2>1, <2>2, Bytes16
  <1>3. ASSUME o.kind \in Kinds32
        PROVE  Encoded(o, ord) \in Bytes \X Bytes \X Bytes \X Bytes
    <2>1. Unsigned(o.value[1], U32) \in 0 .. U32 - 1
      BY <1>3, UnsignedValue DEF Kinds32
    <2>2. Encoded(o, ord) = Swap32(BE32(Unsigned(o.value[1], U32)), o.bs, o.ws)
      BY <1>3, EncodedOf
    <2>3. BE32(Unsigned(o.value[1], U32)) \in Bytes \X Bytes \X Bytes \X Bytes
      BY <2>1, Bytes32
    <2>4. o.bs \in BOOLEAN /\ o.ws \in BOOLEAN
      BY OperationIs
    <2>5. QED
      BY <2>2, <2>3, <2>4, SwapsUndo
  <1>4. ASSUME o.kind = "float"
        PROVE  Encoded(o, ord) \in Bytes \X Bytes \X Bytes \X Bytes
    <2>1. o.value[1] \in 0 .. U32 - 1
      BY <1>4, UnsignedValue
    <2>2. Encoded(o, ord) = BE32(o.value[1])
      BY <1>4, EncodedOf
    <2>3. QED
      BY <2>1, <2>2, Bytes32
  <1>5. QED
    BY <1>1, <1>2, <1>3, <1>4 DEF Kinds16

\* Words are encoded one after the other.
LEMMA EncodedWords ==
  ASSUME NEW o \in Operations, o.do = "write", o.kind = "words", NEW ord \in {"big", "little"}
  PROVE  /\ Encoded(o, ord) \in Seq(Bytes) /\ Len(Encoded(o, ord)) = 2 * Items(o)
         /\ \A i \in 1 .. Items(o) :
              <<Encoded(o, ord)[2 * i - 1], Encoded(o, ord)[2 * i]>> = Put16(ord, o.value[i])
  <1> DEFINE At(j) == Put16(ord, o.value[(j + 1) \div 2])[2 - (j % 2)]
             n == Items(o)
  <1>1. /\ n \in Nat /\ n <= Len(o.value) /\ Len(o.value) \in Nat
        /\ o.value \in Seq(0 .. U16 - 1)
    <2>1. NumbersOf("words") = 0 .. U16 - 1
      BY DEF NumbersOf
    <2>2. QED
      BY <2>1, ItemsOf, OperationIs
  <1> HIDE DEF n
  <1>2. ASSUME NEW i \in 1 .. n
        PROVE  Put16(ord, o.value[i]) \in Bytes \X Bytes
    <2>1. o.value[i] \in 0 .. U16 - 1
      <3>1. i \in 1 .. Len(o.value)
        BY <1>1
      <3>2. QED
        BY <1>1, <3>1, ElementOfSeq
    <2>2. QED
      BY <2>1, Bytes16 DEF Put16
  <1>3. Encoded(o, ord) = [j \in 1 .. 2 * n |-> At(j)]
    BY EncodedOf DEF n
  <1>4. ASSUME NEW j \in 1 .. 2 * n
        PROVE  (j + 1) \div 2 \in 1 .. n /\ (j % 2 = 0 \/ j % 2 = 1)
    BY <1>1
  <1>5. \A j \in 1 .. 2 * n : At(j) \in Bytes
    BY <1>2, <1>4
  <1>6. Encoded(o, ord) \in [1 .. 2 * n -> Bytes]
    BY <1>3, <1>5
  <1>7. Encoded(o, ord) \in Seq(Bytes) /\ Len(Encoded(o, ord)) = 2 * n
    <2>1. 2 * n \in Nat
      BY <1>1
    <2>2. QED
      BY <1>6, <2>1, FunctionsAreSequences, LenProperties
  <1>8. ASSUME NEW i \in 1 .. n
        PROVE  <<Encoded(o, ord)[2 * i - 1], Encoded(o, ord)[2 * i]>> = Put16(ord, o.value[i])
    <2>1. /\ 2 * i - 1 \in 1 .. 2 * n /\ ((2 * i - 1) + 1) \div 2 = i /\ (2 * i - 1) % 2 = 1
          /\ 2 * i \in 1 .. 2 * n /\ (2 * i + 1) \div 2 = i /\ (2 * i) % 2 = 0
      BY <1>1
    <2>2. /\ Encoded(o, ord)[2 * i - 1] = Put16(ord, o.value[i])[1]
          /\ Encoded(o, ord)[2 * i] = Put16(ord, o.value[i])[2]
      BY <1>3, <2>1
    <2>3. QED
      BY <1>2, <2>2
  <1>9. QED
    BY <1>7, <1>8 DEF n

\* The bytes of a string are followed by as many zeros.
LEMMA EncodedString ==
  ASSUME NEW o \in Operations, o.do = "write", o.kind = "string", NEW ord
  PROVE  /\ Encoded(o, ord) \in Seq(Bytes) /\ Len(Encoded(o, ord)) = 2 * Len(o.value)
         /\ \A i \in 1 .. Len(o.value) : Encoded(o, ord)[i] = o.value[i]
         /\ \A i \in Len(o.value) + 1 .. 2 * Len(o.value) : Encoded(o, ord)[i] = 0
  <1> DEFINE n == Len(o.value)
             zeros == [i \in 1 .. n |-> 0]
  <1>1. o.value \in Seq(Bytes) /\ n \in Nat /\ DOMAIN o.value = 1 .. n
    BY OperationIs, LenProperties DEF NumbersOf
  <1>2. zeros \in [1 .. n -> Bytes]
    BY DEF Bytes
  <1>3. zeros \in Seq(Bytes) /\ Len(zeros) = n
    BY <1>1, <1>2, FunctionsAreSequences, LenProperties
  <1>4. Encoded(o, ord) = o.value \o zeros
    <2>1. Encoded(o, ord) = o.value \o [i \in DOMAIN o.value |-> 0]
      BY EncodedOf
    <2>2. QED
      BY <1>1, <2>1
  <1>5. /\ Encoded(o, ord) \in Seq(Bytes) /\ Len(Encoded(o, ord)) = n + n
        /\ \A i \in 1 .. n + n :
             Encoded(o, ord)[i] = IF i <= n THEN o.value[i] ELSE zeros[i - n]
    BY <1>1, <1>3, <1>4, ConcatProperties
  <1>6. \A i \in n + 1 .. n + n : zeros[i - n] = 0
    BY <1>1
  <1> HIDE DEF n, zeros
  <1>7. n + n = 2 * n
    BY <1>1
  <1>8. \A i \in 1 .. n : i \in 1 .. n + n /\ i <= n
    BY <1>1
  <1>9. \A i \in n + 1 .. n + n : i \in 1 .. n + n /\ ~(i <= n)
    BY <1>1
  <1>10. /\ \A i \in 1 .. n : Encoded(o, ord)[i] = o.value[i]
         /\ \A i \in n + 1 .. n + n : Encoded(o, ord)[i] = 0
    BY <1>5, <1>6, <1>8, <1>9
  <1>11. QED
    BY <1>5, <1>7, <1>10 DEF n

LEMMA EncodedBits ==
  ASSUME NEW o \in Operations, o.do = "write", o.kind = "bits", NEW ord
  PROVE  /\ Encoded(o, ord) \in Seq(Bytes) /\ Len(Encoded(o, ord)) = Items(o)
         /\ \A i \in 1 .. Items(o) :
              Encoded(o, ord)[i] = o.value[i] /\ o.value[i] \in {0, 1}
  <1>1. /\ o.value \in Seq({0, 1}) /\ Len(o.value) \in Nat
        /\ Items(o) \in Nat /\ Items(o) <= Len(o.value)
    BY OperationIs, ItemsOf DEF NumbersOf
  <1>2. \A i \in 1 .. Items(o) : o.value[i] \in {0, 1} /\ o.value[i] \in Bytes
    BY <1>1 DEF Bytes
  <1>3. Encoded(o, ord) = SubSeq(o.value, 1, Items(o))
    BY EncodedOf
  <1>4. \A i \in 1 .. Items(o) : o.value[i] \in Bytes
    BY <1>2
  <1> DEFINE n == Items(o)
             v == o.value
  <1>5. n \in Nat /\ v \in Seq({0, 1}) /\ n <= Len(v) /\ \A i \in 1 .. n : v[i] \in Bytes
    BY <1>1, <1>4
  <1> HIDE DEF n, v
  <1>6. SubSeq(v, 1, n) \in Seq(Bytes) /\ Len(SubSeq(v, 1, n)) = n
    BY <1>5, SubSeqProperties
  <1>7. \A i \in 1 .. n : SubSeq(v, 1, n)[i] = v[i]
    BY <1>5, SubSeqProperties
  <1>8. QED
    BY <1>2, <1>3, <1>6, <1>7 DEF n, v

LEMMA EncodedIsData ==
  ASSUME NEW o \in Operations, o.do = "write", NEW ord \in {"big", "little"}
  PROVE  Encoded(o, ord) \in Seq(Bytes)
  <1>1. o.kind \in Kinds \ {"clock"}
    BY OperationIs
  <1>2. CASE o.kind \in Kinds16 \cup Kinds32 \cup {"float"}
    BY <1>2, EncodedNumber, TuplesAreSequences
  <1>3. CASE o.kind = "bytes"
    BY <1>3, EncodedOf, OperationIs DEF NumbersOf
  <1>4. QED
    BY <1>1, <1>2, <1>3, EncodedWords, EncodedString, EncodedBits DEF Kinds

(***************************************************************************)
(* What the client sends is a request: the service ids aside, every field  *)
(* of a request is as wide as the frame has room for it.                   *)
(***************************************************************************)
LEMMA CommandIsRequest ==
  ASSUME NEW o \in Operations, order \in {"big", "little"}
  PROVE  /\ Command(o) \in Request
         /\ Command(o).area = o.area /\ Command(o).address = o.address /\ Command(o).bit = o.bit
         /\ Command(o).code = "read" => o.do = "read" /\ o.kind # "clock"
         /\ Command(o).code = "write" <=> o.do = "write"
         /\ o.do = "read" => Command(o).count = AskedFor(o)
         /\ o.do = "write" =>
              Command(o).count = Items(o) /\ Command(o).data = Encoded(o, order)
  <1>1. /\ o.do \in {"read", "write"} /\ (o.do = "write" => o.kind # "clock")
        /\ o.area \in Areas /\ o.address \in 0 .. U16 - 1 /\ o.bit \in Bytes
    BY OperationIs
  <1>2. o.do = "write" => Items(o) \in 0 .. U16 - 1 /\ Encoded(o, order) \in Seq(Bytes)
    <2>1. ASSUME o.do = "write"
          PROVE  Items(o) \in 0 .. U16 - 1 /\ Encoded(o, order) \in Seq(Bytes)
      <3>1. Items(o) \in Nat /\ Items(o) < U16 /\ U16 \in Nat
        BY <2>1, ItemsOf, Widths
      <3>2. QED
        BY <2>1, <3>1, EncodedIsData
    <2>2. QED
      BY <2>1
  <1>3. AskedFor(o) \in 0 .. U16 - 1
    BY AskedForIs, Widths
  <1>4. <<>> \in Seq(Bytes)
    OBVIOUS
  <1>5. QED
    BY <1>1, <1>2, <1>3, <1>4 DEF Command, Request

-----------------------------------------------------------------------------
(* What an operation makes of its response *)

\* The buffer of the response: its data, and zeros after them
ByteAt(data, i) == IF i <= Len(data) THEN data[i] ELSE 0
FirstTwo(data) == <<ByteAt(data, 1), ByteAt(data, 2)>>
FirstFour(data) == <<ByteAt(data, 1), ByteAt(data, 2), ByteAt(data, 3), ByteAt(data, 4)>>

LEMMA DecodedOf ==
  ASSUME NEW o, NEW data, NEW ord
  PROVE  /\ o.kind = "uint16" =>
              Decoded(o, data, ord) = <<OfBE16(Swap16(FirstTwo(data), o.bs))>>
         /\ o.kind = "int16" =>
              Decoded(o, data, ord) = <<Signed(OfBE16(Swap16(FirstTwo(data), o.bs)), U16)>>
         /\ o.kind = "uint32" =>
              Decoded(o, data, ord) = <<OfBE32(Swap32(FirstFour(data), o.bs, o.ws))>>
         /\ o.kind = "int32" =>
              Decoded(o, data, ord) = <<Signed(OfBE32(Swap32(FirstFour(data), o.bs, o.ws)), U32)>>
         /\ o.kind = "float" => Decoded(o, data, ord) = <<OfBE32(FirstFour(data))>>
         /\ o.kind = "words" =>
              Decoded(o, data, ord) =
                [i \in 1 .. o.count |->
                   Get16(ord, <<ByteAt(data, 2 * i - 1), ByteAt(data, 2 * i)>>)]
         /\ o.kind = "bits" => Decoded(o, data, ord) = [i \in 1 .. o.count |-> data[i] % 2]
         /\ o.kind = "bytes" => Decoded(o, data, ord) = data
         /\ o.kind = "string" =>
              Decoded(o, data, ord) =
                IF ToTerminator(data) = 0 THEN data ELSE SubSeq(data, 1, ToTerminator(data) - 1)
  BY DEF Decoded, ByteAt, FirstTwo, FirstFour

LEMMA RawOf ==
  ASSUME NEW o, NEW data
  PROVE  /\ o.kind \in Kinds16 => Raw(o, data) = SubSeq(data, 1, 2)
         /\ o.kind = "uint32" => Raw(o, data) = SwappedInPlace(SubSeq(data, 1, 4), o.bs)
         /\ o.kind \in {"int32", "float"} => Raw(o, data) = SubSeq(data, 1, 4)
         /\ o.kind \in Kinds \ (Kinds16 \cup Kinds32 \cup {"float"}) => Raw(o, data) = <<>>
  BY DEF Raw, Kinds16, Kinds32

LEMMA BytesAt ==
  ASSUME NEW data \in Seq(Bytes)
  PROVE  /\ \A i \in Nat \ {0} : ByteAt(data, i) \in Bytes
         /\ FirstTwo(data) \in Bytes \X Bytes
         /\ FirstFour(data) \in Bytes \X Bytes \X Bytes \X Bytes
  <1>1. ASSUME NEW i \in Nat \ {0}
        PROVE  ByteAt(data, i) \in Bytes
    BY DEF ByteAt, Bytes
  <1>2. QED
    BY <1>1 DEF FirstTwo, FirstFour

\* Where ReadString cuts the data off
LEMMA TerminatorIs ==
  ASSUME NEW data \in Seq(Bytes)
  PROVE  \/ /\ ToTerminator(data) = 0
            /\ \A i \in 1 .. Len(data) : data[i] # 0
         \/ /\ ToTerminator(data) \in 1 .. Len(data)
            /\ data[ToTerminator(data)] = 0
            /\ \A i \in 1 .. Len(data) : i < ToTerminator(data) => data[i] # 0
  <1> DEFINE zeros == {i \in 1 .. Len(data) : data[i] = 0}
  <1>1. ToTerminator(data) = IF zeros # {} THEN Min(zeros) ELSE 0
    BY DEF ToTerminator, SelectInSeq
  <1>2. CASE zeros = {}
    BY <1>1, <1>2
  <1>3. CASE zeros # {}
    <2>1. zeros \in SUBSET Nat
      OBVIOUS
    <2>2. PICK k \in zeros : \A y \in zeros : k <= y
      BY <1>3, <2>1, SmallestOf
    <2>3. Min(zeros) \in zeros /\ \A y \in zeros : Min(zeros) <= y
      BY <2>2 DEF Min
    <2>4. PICK t : t = ToTerminator(data) /\ t \in zeros /\ \A y \in zeros : t <= y
      BY <1>1, <1>3, <2>3
    <2>5. \A i \in 1 .. Len(data) : i < t => data[i] # 0
      BY <2>1, <2>4
    <2>6. QED
      BY <2>4, <2>5
  <1>4. QED
    BY <1>2, <1>3

LEMMA OutOfRangeIs ==
  ASSUME NEW o, NEW data, NEW room
  PROVE  /\ o.kind \in Kinds16 => (OutOfRange(o, data, room) <=> Len(data) < 2)
         /\ o.kind \in Kinds32 \cup {"float"} => (OutOfRange(o, data, room) <=> Len(data) < 4)
         /\ o.kind = "words" => (OutOfRange(o, data, room) <=> 2 * o.count > room)
         /\ o.kind = "bits" => (OutOfRange(o, data, room) <=> Len(data) < o.count)
         /\ o.kind \in {"bytes", "string"} => ~OutOfRange(o, data, room)
  BY DEF OutOfRange, Kinds16, Kinds32

\* What a swap makes of bytes are bytes, and numbers of so many bytes.
LEMMA SwappedNumbers ==
  ASSUME NEW bs \in BOOLEAN, NEW ws \in BOOLEAN
  PROVE  /\ \A b \in Bytes \X Bytes : OfBE16(Swap16(b, bs)) \in 0 .. U16 - 1
         /\ \A b \in Bytes \X Bytes \X Bytes \X Bytes :
              OfBE32(Swap32(b, bs, ws)) \in 0 .. U32 - 1
  <1>1. ASSUME NEW b \in Bytes \X Bytes
        PROVE  OfBE16(Swap16(b, bs)) \in 0 .. U16 - 1
    <2>1. PICK x \in Bytes, y \in Bytes : Swap16(b, bs) = <<x, y>>
      BY SwapsUndo
    <2>2. QED
      BY <2>1, NumberOf16
  <1>2. ASSUME NEW b \in Bytes \X Bytes \X Bytes \X Bytes
        PROVE  OfBE32(Swap32(b, bs, ws)) \in 0 .. U32 - 1
    BY SwapsUndo, NumberOf32
  <1>3. QED
    BY <1>1, <1>2

LEMMA DecodedIsValue ==
  ASSUME NEW o \in Operations, o.kind # "clock", NEW data \in Seq(Bytes), NEW ord,
         ~OutOfRange(o, data, RespCap)
  PROVE  Decoded(o, data, ord) \in Seq(Int)
  <1>1. /\ o.kind \in Kinds \ {"clock"} /\ o.bs \in BOOLEAN /\ o.ws \in BOOLEAN
        /\ o.count \in Nat
    BY OperationIs
  <1>2. Bytes \subseteq Int
    BY DEF Bytes
  <1>3. \A n \in Int : <<n>> \in Seq(Int)
    OBVIOUS
  <1>4. CASE o.kind \in Kinds16
    <2>1. PICK n \in 0 .. U16 - 1 : n = OfBE16(Swap16(FirstTwo(data), o.bs))
      BY <1>1, BytesAt, SwappedNumbers
    <2>2. n \in Int /\ Signed(n, U16) \in Int
      BY WordWidth, Signs
    <2>3. Decoded(o, data, ord) = <<n>> \/ Decoded(o, data, ord) = <<Signed(n, U16)>>
      BY <1>4, <2>1, DecodedOf DEF Kinds16
    <2>4. QED
      BY <1>3, <2>2, <2>3
  <1>5. CASE o.kind \in Kinds32
    <2>1. PICK n \in 0 .. U32 - 1 : n = OfBE32(Swap32(FirstFour(data), o.bs, o.ws))
      BY <1>1, BytesAt, SwappedNumbers
    <2>2. n \in Int /\ Signed(n, U32) \in Int
      BY WordWidth, Signs
    <2>3. Decoded(o, data, ord) = <<n>> \/ Decoded(o, data, ord) = <<Signed(n, U32)>>
      BY <1>5, <2>1, DecodedOf DEF Kinds32
    <2>4. QED
      BY <1>3, <2>2, <2>3
  <1>6. CASE o.kind = "float"
    <2>1. PICK n \in 0 .. U32 - 1 : n = OfBE32(FirstFour(data))
      BY BytesAt, NumberOf32
    <2>2. Decoded(o, data, ord) = <<OfBE32(FirstFour(data))>>
      BY <1>6, DecodedOf
    <2>3. n \in Int
      BY WordWidth
    <2>4. QED
      BY <1>3, <2>1, <2>2, <2>3
  <1>7. CASE o.kind = "words"
    <2>1. ASSUME NEW i \in 1 .. o.count
          PROVE  Get16(ord, <<ByteAt(data, 2 * i - 1), ByteAt(data, 2 * i)>>) \in Int
      <3>1. 2 * i - 1 \in Nat \ {0} /\ 2 * i \in Nat \ {0}
        OBVIOUS
      <3>2. ByteAt(data, 2 * i - 1) \in Bytes /\ ByteAt(data, 2 * i) \in Bytes
        BY <3>1, BytesAt
      <3>3. QED
        BY <3>2, NumberOf16 DEF Get16
    <2>2. Decoded(o, data, ord) =
            [i \in 1 .. o.count |-> Get16(ord, <<ByteAt(data, 2 * i - 1), ByteAt(data, 2 * i)>>)]
      BY <1>7, DecodedOf
    <2>3. Decoded(o, data, ord) \in [1 .. o.count -> Int]
      BY <2>1, <2>2
    <2>4. QED
      BY <1>1, <2>3, FunctionsAreSequences
  <1>8. CASE o.kind = "bits"
    <2>1. Len(data) >= o.count
      BY <1>1, <1>8, OutOfRangeIs
    <2>2. ASSUME NEW i \in 1 .. o.count
          PROVE  data[i] % 2 \in Int
      <3>1. data[i] \in Nat
        BY <1>1, <2>1 DEF Bytes
      <3>2. QED
        BY <3>1
    <2>3. Decoded(o, data, ord) \in [1 .. o.count -> Int]
      BY <1>8, <2>2, DecodedOf
    <2>4. QED
      BY <1>1, <2>3, FunctionsAreSequences
  <1>9. CASE o.kind \in {"bytes", "string"}
    <2>1. data \in Seq(Int)
      BY <1>2, SeqMonotonic
    <2>2. ASSUME ToTerminator(data) # 0
          PROVE  SubSeq(data, 1, ToTerminator(data) - 1) \in Seq(Int)
      <3>1. ToTerminator(data) \in 1 .. Len(data)
        BY <2>2, TerminatorIs
      <3>2. \A i \in 1 .. ToTerminator(data) - 1 : data[i] \in Int
        BY <2>1, <3>1
      <3>3. QED
        BY <3>1, <3>2, SubSeqProperties
    <2>3. \/ Decoded(o, data, ord) = data
          \/ /\ ToTerminator(data) # 0
             /\ Decoded(o, data, ord) = SubSeq(data, 1, ToTerminator(data) - 1)
      BY <1>9, DecodedOf
    <2>4. QED
      BY <2>1, <2>2, <2>3
  <1>10. QED
    BY <1>1, <1>4, <1>5, <1>6, <1>7, <1>8, <1>9 DEF Kinds

LEMMA RawIsData ==
  ASSUME NEW o \in Operations, NEW data \in Seq(Bytes), ~OutOfRange(o, data, RespCap)
  PROVE  /\ Raw(o, data) \in Seq(Bytes)
         /\ o.kind \in Kinds16 => Raw(o, data) = FirstTwo(data)
         /\ o.kind = "uint32" => Raw(o, data) = SwappedInPlace(FirstFour(data), o.bs)
         /\ o.kind \in {"int32", "float"} => Raw(o, data) = FirstFour(data)
  <1>1. Len(data) \in Nat /\ o.kind \in Kinds /\ o.bs \in BOOLEAN
    BY OperationIs
  <1>2. ASSUME o.kind \in Kinds16
        PROVE  SubSeq(data, 1, 2) = FirstTwo(data)
    <2>1. Len(data) >= 2
      BY <1>1, <1>2, OutOfRangeIs
    <2>2. \A i \in 1 .. 2 : data[i] \in Bytes /\ data[i] = ByteAt(data, i)
      BY <1>1, <2>1 DEF ByteAt
    <2>3. /\ SubSeq(data, 1, 2) \in Seq(Bytes) /\ Len(SubSeq(data, 1, 2)) = 2
          /\ \A i \in 1 .. 2 : SubSeq(data, 1, 2)[i] = data[i]
      BY <2>2, SubSeqProperties
    <2>4. FirstTwo(data) \in Seq(Bytes) /\ Len(FirstTwo(data)) = 2
      BY BytesAt, TuplesAreSequences
    <2>5. \A i \in 1 .. 2 : FirstTwo(data)[i] = ByteAt(data, i)
      BY DEF FirstTwo
    <2>6. QED
      BY <2>2, <2>3, <2>4, <2>5, SeqEqual
  <1>3. ASSUME o.kind \in Kinds32 \cup {"float"}
        PROVE  SubSeq(data, 1, 4) = FirstFour(data)
    <2>1. Len(data) >= 4
      BY <1>1, <1>3, OutOfRangeIs
    <2>2. \A i \in 1 .. 4 : data[i] \in Bytes /\ data[i] = ByteAt(data, i)
      BY <1>1, <2>1 DEF ByteAt
    <2>3. /\ SubSeq(data, 1, 4) \in Seq(Bytes) /\ Len(SubSeq(data, 1, 4)) = 4
          /\ \A i \in 1 .. 4 : SubSeq(data, 1, 4)[i] = data[i]
      BY <2>2, SubSeqProperties
    <2>4. FirstFour(data) \in Seq(Bytes) /\ Len(FirstFour(data)) = 4
      BY BytesAt, TuplesAreSequences
    <2>5. \A i \in 1 .. 4 : FirstFour(data)[i] = ByteAt(data, i)
      BY DEF FirstFour
    <2>6. QED
      BY <2>2, <2>3, <2>4, <2>5, SeqEqual
  <1>4. FirstTwo(data) \in Seq(Bytes) /\ FirstFour(data) \in Seq(Bytes)
    BY BytesAt, TuplesAreSequences
  <1>5. SwappedInPlace(FirstFour(data), o.bs) \in Seq(Bytes)
    <2>1. SwappedInPlace(FirstFour(data), o.bs) \in Bytes \X Bytes \X Bytes \X Bytes
      BY <1>1, BytesAt DEF SwappedInPlace, ByteSwapped
    <2>2. QED
      BY <2>1, TuplesAreSequences
  <1>6. <<>> \in Seq(Bytes)
    OBVIOUS
  <1>7. QED
    BY <1>1, <1>2, <1>3, <1>4, <1>5, <1>6, RawOf DEF Kinds16, Kinds32

-----------------------------------------------------------------------------
(* The inductive invariant *)

ClientTypeOK ==
  /\ order \in {"big", "little"}
  /\ client \in {"idle", "called", "waiting", "panicked"}
  /\ op \in Operations \cup {NoOp}
  /\ result.kind \in {"none", "ok", "endcode", "badarea", "panic"}
  /\ result.value \in Seq(Int) /\ result.raw \in Seq(Bytes)
  /\ calls \in 0 .. MaxCalls

\* The server handles and answers what the client waits for.
PhaseInv ==
  /\ client \in {"called", "waiting"} => op \in Operations /\ ~RefusesArea(op)
  /\ client = "waiting" => req = Command(op)
  /\ at \in {"handle", "send"} => client = "waiting"

\* What the handler computes of a request: the memory, the first byte, the number of them
MemoryOf(r) == IF r.area = "DMWord" THEN dmarea ELSE bitdmarea
StartOf(r) == IF r.area = "DMWord" THEN r.address ELSE Wrap(r.address + r.bit)
BytesAsked(r) == IF r.area = "DMWord" THEN Wrap(r.count * 2) ELSE r.count

\* An answer to a read that waits to be sent is what the memory is.
ReadInv ==
  at = "send" /\ reply.end = "normal" =>
    /\ req.code \in {"read", "write"} /\ req.area \in {"DMWord", "DMBit"}
    /\ req.code = "read" =>
         /\ StartOf(req) + BytesAsked(req) <= DM_AREA_SIZE
         /\ reply.data =
              Slice(MemoryOf(req), StartOf(req), StartOf(req) + BytesAsked(req))

\* The data of a write are in the memory.
Stored(r) ==
  /\ r.area \in {"DMWord", "DMBit"}
  /\ FirstByte(r) + NeedsBytes(r) <= DM_AREA_SIZE
  /\ NeedsBytes(r) <= BufLen
  /\ \A i \in 1 .. NeedsBytes(r) :
       i <= Len(r.data) => MemoryOf(r)[FirstByte(r) + i - 1] = r.data[i]

WriteInv ==
  at = "send" /\ reply.end = "normal" /\ req.code = "write" /\ ~Wild(req) => Stored(req)

\* The request of a write of earlier, and whether the one that waits for its answer
\* has touched what it wrote
WriteOf(w) ==
  [code |-> "write", area |-> w.op.area, address |-> w.op.address, bit |-> w.op.bit,
   count |-> Items(w.op), data |-> Encoded(w.op, w.order)]
Disturbed(w) ==
  /\ client = "waiting" /\ reply.end = "normal" /\ req.code = "write"
  /\ Wild(req) \/ w.bytes \cap Touched(req) # {}

IntactInv ==
  \A w \in intact :
    /\ w.op \in Operations /\ w.op.do = "write" /\ w.order \in {"big", "little"}
    /\ w.bytes = Touched(WriteOf(w)) /\ ~Wild(WriteOf(w))
    /\ Disturbed(w) \/ Stored(WriteOf(w))

DataInv ==
  SimInv /\ ClientTypeOK /\ PhaseInv /\ ReadInv /\ WriteInv /\ IntactInv

-----------------------------------------------------------------------------
(* What an answer with normal completion says of the memory *)

\* A range that can be sliced has not wrapped.
LEMMA SlicedHasNotWrapped ==
  ASSUME NEW from \in Nat, NEW n \in Nat, from < U16, n < U16,
         Sliceable(from, Wrap(from + n))
  PROVE  Wrap(from + n) = from + n /\ from + n <= DM_AREA_SIZE
  <1>1. from <= Wrap(from + n) /\ Wrap(from + n) <= DM_AREA_SIZE
    BY DEF Sliceable
  <1>2. U16 \in Nat /\ from + n < 2 * U16
    BY Widths
  <1>3. CASE from + n >= U16
    <2>1. (from + n) % U16 = from + n - U16
      BY <1>2, <1>3
    <2>2. from + n - U16 < from
      BY <1>2
    <2>3. QED
      BY <1>1, <1>2, <2>1, <2>2 DEF Wrap
  <1>4. CASE from + n < U16
    BY <1>1, <1>4, WrapIs
  <1>5. QED
    BY <1>2, <1>3, <1>4

LEMMA AccessAnswers ==
  ASSUME NEW m, NEW n \in Nat, NEW from \in Nat, from < U16, n < U16,
         Access(m, n, from), reply.end # "normal", reply'.end = "normal"
  PROVE  /\ from + n <= DM_AREA_SIZE /\ at' = "send"
         /\ \/ /\ req.code = "read" /\ reply'.data = Slice(m, from, from + n)
               /\ UNCHANGED memVars
            \/ /\ req.code = "write" /\ n <= BufLen
               /\ IF req.area = "DMWord"
                    THEN dmarea' = Copied(m, from, from + n) /\ UNCHANGED bitdmarea
                    ELSE bitdmarea' = Copied(m, from, from + n) /\ UNCHANGED dmarea
  <1>1. ~Panic
    BY DEF Panic
  <1>2. Sliceable(from, Wrap(from + n))
    BY <1>1 DEF Access
  <1>3. Wrap(from + n) = from + n /\ from + n <= DM_AREA_SIZE
    BY <1>2, SlicedHasNotWrapped
  <1>4. QED
    BY <1>1, <1>3 DEF Access, Respond

\* The numbers the handler computes with
LEMMA ComputedIs ==
  ASSUME NEW r \in Request
  PROVE  /\ StartOf(r) \in Nat /\ StartOf(r) < U16
         /\ BytesAsked(r) \in Nat /\ BytesAsked(r) < U16
         /\ ~Wild(r) /\ r.area \in {"DMWord", "DMBit"} =>
              StartOf(r) = FirstByte(r) /\ BytesAsked(r) = NeedsBytes(r)
  <1>1. /\ r.address \in Nat /\ r.bit \in Nat /\ r.count \in Nat
        /\ r.address < U16 /\ r.count < U16
    BY FieldsOf
  <1>2. r.address + r.bit \in Nat /\ r.count * 2 \in Nat
    BY <1>1
  <1>3. QED
    BY <1>1, <1>2, WrapIs, TameWords, TameBits DEF StartOf, BytesAsked, FirstByte, NeedsBytes

LEMMA HandleAnswers ==
  ASSUME SimInv, Handle, reply'.end = "normal"
  PROVE  /\ req.area \in {"DMWord", "DMBit"} /\ at' = "send" /\ UNCHANGED <<buf, req>>
         /\ StartOf(req) + BytesAsked(req) <= DM_AREA_SIZE
         /\ \/ /\ req.code = "read" /\ UNCHANGED memVars
               /\ reply'.data =
                    Slice(MemoryOf(req), StartOf(req), StartOf(req) + BytesAsked(req))
            \/ /\ req.code = "write" /\ BytesAsked(req) <= BufLen
               /\ LET new == Copied(MemoryOf(req), StartOf(req), StartOf(req) + BytesAsked(req))
                  IN  IF req.area = "DMWord" THEN dmarea' = new /\ UNCHANGED bitdmarea
                                             ELSE bitdmarea' = new /\ UNCHANGED dmarea
  <1>1. /\ req \in Request /\ reply = NoAnswer /\ UNCHANGED <<buf, req>>
    BY DEF SimInv, SrvTypeOK, Handle, PendingInv
  <1>2. reply.end # "normal"
    BY <1>1 DEF NoAnswer
  <1>3. /\ StartOf(req) \in Nat /\ StartOf(req) < U16
        /\ BytesAsked(req) \in Nat /\ BytesAsked(req) < U16
    BY <1>1, ComputedIs
  <1>4. CASE HandleWords
    <2>1. /\ req.area = "DMWord" /\ MemoryOf(req) = dmarea
          /\ StartOf(req) = req.address /\ BytesAsked(req) = Wrap(req.count * 2)
      BY <1>4 DEF HandleWords, MemoryOf, StartOf, BytesAsked
    <2>2. Access(MemoryOf(req), BytesAsked(req), StartOf(req))
      BY <1>4, <2>1 DEF HandleWords
    <2>3. QED
      BY <1>1, <1>2, <1>3, <2>1, <2>2, AccessAnswers
  <1>5. CASE HandleBits
    <2>1. /\ req.area = "DMBit" /\ MemoryOf(req) = bitdmarea
          /\ StartOf(req) = Wrap(req.address + req.bit) /\ BytesAsked(req) = req.count
      BY <1>5 DEF HandleBits, MemoryOf, StartOf, BytesAsked
    <2>2. Access(MemoryOf(req), BytesAsked(req), StartOf(req))
      BY <1>5, <2>1 DEF HandleBits
    <2>3. QED
      BY <1>1, <1>2, <1>3, <2>1, <2>2, AccessAnswers
  <1>6. CASE HandleBeyond \/ HandleUnsupported
    BY <1>6 DEF HandleBeyond, HandleUnsupported, Respond
  <1>7. QED
    BY <1>4, <1>5, <1>6 DEF Handle

\* All other ways to handle a request leave the memories as they are.
LEMMA HandleRefuses ==
  ASSUME SimInv, Handle, reply'.end # "normal"
  PROVE  UNCHANGED memVars
  <1>1. CASE HandleWords
    BY <1>1 DEF HandleWords, Access, Respond, Panic
  <1>2. CASE HandleBits
    BY <1>2 DEF HandleBits, Access, Respond, Panic
  <1>3. CASE HandleBeyond \/ HandleUnsupported
    BY <1>3 DEF HandleBeyond, HandleUnsupported
  <1>4. QED
    BY <1>1, <1>2, <1>3 DEF Handle

LEMMA WordsOfRequest ==
  ASSUME SimInv, at = "handle"
  PROVE  /\ req \in Request /\ dmarea \in Memory /\ bitdmarea \in Memory
         /\ FirstByte(req) \in Nat /\ NeedsBytes(req) \in Nat
         /\ MemoryOf(req) \in Memory /\ Len(req.data) \in Nat
         /\ \A i \in 1 .. BufLen : i <= Len(req.data) => buf[i] = req.data[i]
  BY FieldsOf DEF SimInv, SrvTypeOK, PendingInv, MemoryOf

LEMMA HandleStores ==
  ASSUME SimInv, Handle, reply'.end = "normal", req.code = "write", ~Wild(req)
  PROVE  Stored(req)'
  <1> DEFINE from == FirstByte(req)
             n == NeedsBytes(req)
             new == Copied(MemoryOf(req), from, from + n)
  <1>1. /\ from \in Nat /\ n \in Nat /\ MemoryOf(req) \in Memory /\ Len(req.data) \in Nat
        /\ req \in Request
        /\ \A i \in 1 .. BufLen : i <= Len(req.data) => buf[i] = req.data[i]
    BY WordsOfRequest DEF Handle
  <1>2. /\ req.area \in {"DMWord", "DMBit"} /\ UNCHANGED req
        /\ StartOf(req) + BytesAsked(req) <= DM_AREA_SIZE
        /\ BytesAsked(req) <= BufLen
        /\ LET to == StartOf(req) + BytesAsked(req)
           IN  IF req.area = "DMWord" THEN dmarea' = Copied(MemoryOf(req), StartOf(req), to)
                                      ELSE bitdmarea' = Copied(MemoryOf(req), StartOf(req), to)
    BY HandleAnswers
  <1>3. StartOf(req) = from /\ BytesAsked(req) = n
    BY <1>1, <1>2, ComputedIs
  <1>4. from + n <= DM_AREA_SIZE /\ n <= BufLen
    BY <1>2, <1>3
  <1>5. MemoryOf(req)' = new
    BY <1>2, <1>3 DEF MemoryOf
  <1> HIDE DEF from, n
  <1>6. ASSUME NEW i \in 1 .. n, i <= Len(req.data)
        PROVE  new[from + i - 1] = req.data[i]
    <2>1. from + i - 1 \in 0 .. DM_AREA_SIZE - 1 /\ i \in 1 .. BufLen
      BY <1>1, <1>4, Widths DEF SimulatorAssumption
    <2>2. new[from + i - 1] = buf[(from + i - 1) - from + 1]
      BY <1>1, <2>1, Widths DEF Copied, Memory
    <2>3. (from + i - 1) - from + 1 = i
      BY <1>1
    <2>4. QED
      BY <1>1, <1>6, <2>1, <2>2, <2>3
  <1>7. req' = req /\ FirstByte(req)' = from /\ NeedsBytes(req)' = n
    BY <1>2 DEF FirstByte, NeedsBytes, from, n
  <1>8. \A i \in 1 .. n : i <= Len(req.data) => MemoryOf(req)'[from + i - 1] = req.data[i]
    BY <1>5, <1>6
  <1>9. QED
    BY <1>2, <1>4, <1>7, <1>8 DEF Stored

LEMMA WriteOfIs ==
  ASSUME NEW w, w.op \in Operations, w.op.do = "write", w.order \in {"big", "little"}
  PROVE  WriteOf(w) \in Request
  <1>1. /\ w.op.area \in Areas /\ w.op.address \in 0 .. U16 - 1 /\ w.op.bit \in Bytes
    BY OperationIs
  <1>2. Items(w.op) \in 0 .. U16 - 1
    <2>1. Items(w.op) \in Nat /\ Items(w.op) < U16 /\ U16 \in Nat
      BY ItemsOf, Widths
    <2>2. QED
      BY <2>1
  <1>3. Encoded(w.op, w.order) \in Seq(Bytes)
    BY EncodedIsData
  <1>4. QED
    BY <1>1, <1>2, <1>3 DEF WriteOf, Request

\* What was written stays where no byte of it is touched.
LEMMA HandleSpares ==
  ASSUME SimInv, Handle, reply'.end = "normal", req.code = "write", ~Wild(req),
         NEW r \in Request, Stored(r), Touched(r) \cap Touched(req) = {}
  PROVE  Stored(r)'
  <1>1. /\ FirstByte(req) \in Nat /\ NeedsBytes(req) \in Nat
        /\ FirstByte(r) \in Nat /\ NeedsBytes(r) \in Nat /\ Len(r.data) \in Nat
        /\ dmarea \in Memory /\ bitdmarea \in Memory /\ req \in Request
    BY WordsOfRequest, FieldsOf DEF Handle
  <1>2. /\ req.area \in {"DMWord", "DMBit"} /\ r.area \in {"DMWord", "DMBit"}
        /\ FirstByte(r) + NeedsBytes(r) <= DM_AREA_SIZE
        /\ LET new == Copied(MemoryOf(req), StartOf(req), StartOf(req) + BytesAsked(req))
           IN  IF req.area = "DMWord" THEN dmarea' = new /\ UNCHANGED bitdmarea
                                      ELSE bitdmarea' = new /\ UNCHANGED dmarea
    BY HandleAnswers DEF Stored
  <1>3. StartOf(req) = FirstByte(req) /\ BytesAsked(req) = NeedsBytes(req)
    BY <1>1, <1>2, ComputedIs
  <1>4. ASSUME NEW i \in 1 .. NeedsBytes(r)
        PROVE  MemoryOf(r)'[FirstByte(r) + i - 1] = MemoryOf(r)[FirstByte(r) + i - 1]
    <2> DEFINE k == FirstByte(r) + i - 1
    <2>1. k \in FirstByte(r) .. FirstByte(r) + NeedsBytes(r) - 1 /\ k \in 0 .. DM_AREA_SIZE - 1
      BY <1>1, <1>2, Widths
    <2>2. CASE r.area # req.area
      BY <1>2, <2>2 DEF MemoryOf
    <2>3. CASE r.area = req.area
      <3>1. <<r.area, k>> \in Touched(r)
        BY <2>1 DEF Touched
      <3>2. k \notin FirstByte(req) .. FirstByte(req) + NeedsBytes(req) - 1
        BY <2>3, <3>1 DEF Touched
      <3>3. ~(FirstByte(req) <= k /\ k < FirstByte(req) + NeedsBytes(req))
        BY <1>1, <2>1, <3>2
      <3>4. MemoryOf(r)' = Copied(MemoryOf(r), FirstByte(req), FirstByte(req) + NeedsBytes(req))
        BY <1>2, <1>3, <2>3 DEF MemoryOf
      <3>5. MemoryOf(r) \in Memory
        BY <1>1 DEF MemoryOf
      <3> HIDE DEF k
      <3>6. Copied(MemoryOf(r), FirstByte(req), FirstByte(req) + NeedsBytes(req))[k]
              = MemoryOf(r)[k]
        BY <2>1, <3>3, <3>5 DEF Copied, Memory
      <3>7. QED
        BY <3>4, <3>6 DEF k
    <2>4. QED
      BY <2>2, <2>3
  <1>5. QED
    BY <1>2, <1>4 DEF Stored

-----------------------------------------------------------------------------
(* The invariant is inductive *)

\* No step of the composition is one the simulator could not take alone.
LEMMA StepIsSimStep ==
  ASSUME DataInv, [Next]_vars
  PROVE  [SimNext]_srvVars
  <1>1. CASE Arrive
    <2>1. op \in Operations /\ order \in {"big", "little"}
      BY <1>1 DEF Arrive, DataInv, PhaseInv, ClientTypeOK
    <2>2. Command(op) \in Request
      BY <2>1, CommandIsRequest
    <2>3. QED
      BY <1>1, <2>2 DEF Arrive, SimNext
  <1>2. CASE Return
    BY <1>2 DEF Return, SimNext, ServerStep
  <1>3. CASE (\E o \in Operations : Call(o)) \/ (\E o \in {"big", "little"} : SetByteOrder(o))
    BY <1>3 DEF Call, SetByteOrder
  <1>4. CASE Handle \/ LoopFails \/ SetServerClosed \/ CloseServerSocket
    BY <1>4 DEF SimNext, ServerStep
  <1>5. CASE UNCHANGED vars
    BY <1>5 DEF vars
  <1>6. QED
    BY <1>1, <1>2, <1>3, <1>4, <1>5 DEF Next

LEMMA StoredStays ==
  ASSUME NEW r, Stored(r), UNCHANGED memVars
  PROVE  Stored(r)'
  BY DEF Stored, MemoryOf, memVars

\* A step that does not touch the memory and does not answer a write keeps IntactInv.
LEMMA IntactStays ==
  ASSUME IntactInv, UNCHANGED <<memVars, intact>>,
         \/ UNCHANGED <<client, reply, req>>
         \/ client # "waiting" \/ reply.end # "normal" \/ req.code # "write"
  PROVE  IntactInv'
  <1> SUFFICES ASSUME NEW w \in intact
               PROVE  /\ w.op \in Operations /\ w.op.do = "write" /\ w.order \in {"big", "little"}
                      /\ w.bytes = Touched(WriteOf(w)) /\ ~Wild(WriteOf(w))
                      /\ Disturbed(w)' \/ Stored(WriteOf(w))'
    BY DEF IntactInv, WriteOf
  <1>1. /\ w.op \in Operations /\ w.op.do = "write" /\ w.order \in {"big", "little"}
        /\ w.bytes = Touched(WriteOf(w)) /\ ~Wild(WriteOf(w))
        /\ Disturbed(w) \/ Stored(WriteOf(w))
    BY DEF IntactInv
  <1>2. CASE Stored(WriteOf(w))
    BY <1>1, <1>2, StoredStays
  <1>3. CASE Disturbed(w)
    BY <1>1, <1>3 DEF Disturbed, Wild, Touched, FirstByte, NeedsBytes
  <1>4. QED
    BY <1>1, <1>2, <1>3

LEMMA DataInit == Init => DataInv
  <1> SUFFICES ASSUME Init PROVE DataInv
    OBVIOUS
  <1>1. SimInv
    BY InitInv DEF Init
  <1>2. <<>> \in Seq(Int) /\ <<>> \in Seq(Bytes) /\ 0 \in 0 .. MaxCalls
    OBVIOUS
  <1>3. ClientTypeOK
    BY <1>2 DEF Init, ClientTypeOK, NoResult
  <1>4. PhaseInv /\ ReadInv /\ WriteInv /\ IntactInv
    BY DEF Init, SrvInit, PhaseInv, ReadInv, WriteInv, IntactInv
  <1>5. QED
    BY <1>1, <1>3, <1>4 DEF DataInv

\* Steps of the server that are no answers
LEMMA QuietKeepsInv ==
  ASSUME DataInv, SimInv', UNCHANGED clientVars,
         \/ LoopFails \/ SetServerClosed \/ CloseServerSocket \/ UNCHANGED srvVars
  PROVE  DataInv'
  <1>1. /\ UNCHANGED <<memVars, buf, req, reply>> /\ UNCHANGED <<order, client, op, intact>>
        /\ at' \in {"handle", "send"} => at' = at
    BY DEF LoopFails, SetServerClosed, CloseServerSocket, srvVars, loopVars, clientVars
  <1>2. ClientTypeOK'
    BY DEF DataInv, ClientTypeOK, clientVars
  <1>3. PhaseInv'
    BY <1>1 DEF DataInv, PhaseInv, Command
  <1>4. ReadInv'
    BY <1>1 DEF DataInv, ReadInv, MemoryOf, StartOf, BytesAsked, memVars
  <1>5. WriteInv'
    BY <1>1 DEF DataInv, WriteInv, Stored, MemoryOf, Wild, FirstByte, NeedsBytes, memVars
  <1>6. IntactInv'
    BY <1>1, IntactStays DEF DataInv
  <1>7. QED
    BY <1>2, <1>3, <1>4, <1>5, <1>6 DEF DataInv

LEMMA CallKeepsInv ==
  ASSUME DataInv, SimInv', NEW o \in Operations, Call(o)
  PROVE  DataInv'
  <1>1. /\ client = "idle" /\ client' # "waiting" /\ UNCHANGED <<srvVars, order, intact>> /\ op' = o
        /\ client' \in {"idle", "called", "panicked"}
        /\ calls < MaxCalls /\ calls' = calls + 1
        /\ result' \in {NoResult, Failed("badarea"), Failed("panic")}
    BY DEF Call
  <1>2. UNCHANGED <<memVars, req, reply, at>>
    BY <1>1 DEF srvVars, loopVars
  <1>3. <<>> \in Seq(Int) /\ <<>> \in Seq(Bytes)
    OBVIOUS
  <1>4. calls' \in 0 .. MaxCalls
    BY <1>1 DEF DataInv, ClientTypeOK
  <1>5. ClientTypeOK'
    <2>1. /\ result'.kind \in {"none", "ok", "endcode", "badarea", "panic"}
          /\ result'.value = <<>> /\ result'.raw = <<>>
      BY <1>1 DEF NoResult, Failed
    <2>2. result'.value \in Seq(Int) /\ result'.raw \in Seq(Bytes)
      BY <1>3, <2>1
    <2>3. op' \in Operations \cup {NoOp} /\ client' \in {"idle", "called", "waiting", "panicked"}
      BY <1>1
    <2>4. order' \in {"big", "little"}
      BY <1>1 DEF DataInv, ClientTypeOK
    <2>5. QED
      BY <1>4, <2>1, <2>2, <2>3, <2>4 DEF ClientTypeOK
  <1>6. PhaseInv'
    <2>1. client' = "called" => ~RefusesArea(o)
      BY DEF Call
    <2>2. QED
      BY <1>1, <1>2, <2>1 DEF DataInv, PhaseInv
  <1>7. ReadInv'
    BY <1>2 DEF DataInv, ReadInv, MemoryOf, StartOf, BytesAsked, memVars
  <1>8. WriteInv'
    BY <1>2 DEF DataInv, WriteInv, Stored, MemoryOf, Wild, FirstByte, NeedsBytes, memVars
  <1>9. IntactInv'
    BY <1>1, <1>2, IntactStays DEF DataInv
  <1>10. QED
    BY <1>5, <1>6, <1>7, <1>8, <1>9 DEF DataInv

LEMMA SetByteOrderKeepsInv ==
  ASSUME DataInv, SimInv', NEW o \in {"big", "little"}, SetByteOrder(o)
  PROVE  DataInv'
  <1>1. /\ client = "idle" /\ UNCHANGED <<srvVars, client, op, intact, calls>> /\ order' = o
        /\ result' = NoResult
    BY DEF SetByteOrder
  <1>2. UNCHANGED <<memVars, req, reply, at>>
    BY <1>1 DEF srvVars, loopVars
  <1>3. <<>> \in Seq(Int) /\ <<>> \in Seq(Bytes)
    OBVIOUS
  <1>4. ClientTypeOK'
    BY <1>1, <1>3 DEF DataInv, ClientTypeOK, NoResult
  <1>5. PhaseInv'
    BY <1>1, <1>2 DEF DataInv, PhaseInv
  <1>6. ReadInv'
    BY <1>2 DEF DataInv, ReadInv, MemoryOf, StartOf, BytesAsked, memVars
  <1>7. WriteInv'
    BY <1>2 DEF DataInv, WriteInv, Stored, MemoryOf, Wild, FirstByte, NeedsBytes, memVars
  <1>8. IntactInv'
    BY <1>1, <1>2, IntactStays DEF DataInv
  <1>9. QED
    BY <1>4, <1>5, <1>6, <1>7, <1>8 DEF DataInv

LEMMA ArriveKeepsInv ==
  ASSUME DataInv, SimInv', Arrive
  PROVE  DataInv'
  <1>1. /\ client = "called" /\ client' = "waiting" /\ at' = "handle" /\ req' = Command(op)
        /\ UNCHANGED <<memVars, order, op, result, intact, calls>>
    BY DEF Arrive, ReceiveRequest
  <1>2. ClientTypeOK'
    BY <1>1 DEF DataInv, ClientTypeOK
  <1>3. PhaseInv'
    BY <1>1 DEF DataInv, PhaseInv, Command, RefusesArea
  <1>4. ReadInv' /\ WriteInv'
    BY <1>1 DEF ReadInv, WriteInv
  <1>5. IntactInv'
    BY <1>1, IntactStays DEF DataInv
  <1>6. QED
    BY <1>2, <1>3, <1>4, <1>5 DEF DataInv

LEMMA HandleKeepsInv ==
  ASSUME DataInv, SimInv', Handle, UNCHANGED clientVars
  PROVE  DataInv'
  <1>1. /\ SimInv /\ at = "handle" /\ client = "waiting" /\ reply = NoAnswer /\ req \in Request
        /\ UNCHANGED <<buf, req>>
    BY DEF DataInv, SimInv, SrvTypeOK, PendingInv, PhaseInv, Handle
  <1>2. at' \in {"send", "panicked"}
    BY <1>1, HandleType DEF SimInv
  <1>3. UNCHANGED <<order, client, op, intact>>
    BY DEF clientVars
  <1>4. ClientTypeOK'
    BY DEF DataInv, ClientTypeOK, clientVars
  <1>5. PhaseInv'
    BY <1>1, <1>3 DEF DataInv, PhaseInv, Command
  <1>6. ReadInv'
    <2> SUFFICES ASSUME reply'.end = "normal"
                 PROVE  /\ req.code \in {"read", "write"} /\ req.area \in {"DMWord", "DMBit"}
                        /\ req.code = "read" =>
                             /\ StartOf(req) + BytesAsked(req) <= DM_AREA_SIZE
                             /\ reply'.data = Slice(MemoryOf(req), StartOf(req),
                                                    StartOf(req) + BytesAsked(req))
                             /\ UNCHANGED memVars
      BY <1>1 DEF ReadInv, MemoryOf, StartOf, BytesAsked, memVars
    <2>1. QED
      BY <1>1, HandleAnswers
  <1>7. WriteInv'
    <2> SUFFICES ASSUME reply'.end = "normal", req.code = "write", ~Wild(req)
                 PROVE  Stored(req)'
      BY <1>1 DEF WriteInv, Wild, FirstByte, NeedsBytes
    <2>1. QED
      BY <1>1, HandleStores
  <1>8. IntactInv'
    <2>1. reply.end # "normal"
      BY <1>1 DEF NoAnswer
    <2>2. CASE UNCHANGED memVars
      BY <1>3, <2>1, <2>2, IntactStays DEF DataInv
    <2>3. CASE reply'.end = "normal" /\ req.code = "write"
      <3> SUFFICES ASSUME NEW w \in intact
                   PROVE  /\ w.op \in Operations /\ w.op.do = "write"
                          /\ w.order \in {"big", "little"}
                          /\ w.bytes = Touched(WriteOf(w)) /\ ~Wild(WriteOf(w))
                          /\ Disturbed(w)' \/ Stored(WriteOf(w))'
        BY <1>3 DEF IntactInv, WriteOf
      <3>1. /\ w.op \in Operations /\ w.op.do = "write" /\ w.order \in {"big", "little"}
            /\ w.bytes = Touched(WriteOf(w)) /\ ~Wild(WriteOf(w))
            /\ Stored(WriteOf(w))
        BY <2>1 DEF DataInv, IntactInv, Disturbed
      <3>2. CASE Wild(req) \/ w.bytes \cap Touched(req) # {}
        BY <1>1, <1>3, <2>3, <3>1, <3>2 DEF Disturbed, Wild, Touched, FirstByte, NeedsBytes
      <3>3. CASE ~Wild(req) /\ w.bytes \cap Touched(req) = {}
        BY <1>1, <2>3, <3>1, <3>3, WriteOfIs, HandleSpares
      <3>4. QED
        BY <3>1, <3>2, <3>3
    <2>4. QED
      BY <1>1, <2>2, <2>3, HandleAnswers, HandleRefuses
  <1>9. QED
    BY <1>4, <1>5, <1>6, <1>7, <1>8 DEF DataInv

(***************************************************************************)
(* What an operation knows of its response: nothing if the end code is not *)
(* normal; else the request was its own, and the data of a read are the    *)
(* memory, from where the request says, as far as both the request and the *)
(* buffer of the Read reach.                                               *)
(***************************************************************************)
LEMMA ReturnOf ==
  ASSUME DataInv, Return
  PROVE  /\ op \in Operations /\ ~RefusesArea(op) /\ req = Command(op) /\ req \in Request
         /\ at = "send" /\ at' = "read" /\ client = "waiting" /\ result' = Outcome
         /\ client' = (IF Outcome.kind = "panic" THEN "panicked" ELSE "idle")
         /\ intact' = (IF op.do = "write" /\ reply.end = "normal" THEN Written ELSE intact)
         /\ UNCHANGED <<memVars, buf, req, reply, order, op, calls>>
         /\ order \in {"big", "little"} /\ Received \in Seq(Bytes)
         /\ reply.end = "normal" =>
              op.kind # "clock" /\ req.code = op.do /\ op.area \in {"DMWord", "DMBit"}
  <1>1. /\ at = "send" /\ at' = "read" /\ client = "waiting" /\ result' = Outcome
        /\ client' = (IF Outcome.kind = "panic" THEN "panicked" ELSE "idle")
        /\ intact' = (IF op.do = "write" /\ reply.end = "normal" THEN Written ELSE intact)
        /\ UNCHANGED <<memVars, buf, req, reply, order, op, calls>>
    BY DEF Return, SendReply
  <1>2. /\ op \in Operations /\ ~RefusesArea(op) /\ req = Command(op) /\ req \in Request
        /\ order \in {"big", "little"} /\ reply.data \in Seq(Bytes)
    BY <1>1 DEF DataInv, PhaseInv, ClientTypeOK, SimInv, SrvTypeOK
  <1>3. Received \in Seq(Bytes)
    <2>1. PICK n \in Nat : /\ n = (IF Len(reply.data) < RespCap THEN Len(reply.data) ELSE RespCap)
                           /\ n <= Len(reply.data)
      BY <1>2
    <2>2. \A i \in 1 .. n : reply.data[i] \in Bytes
      BY <1>2, <2>1
    <2>3. QED
      BY <2>1, <2>2, SubSeqProperties DEF Received
  <1>4. ASSUME reply.end = "normal"
        PROVE  op.kind # "clock" /\ req.code = op.do /\ op.area \in {"DMWord", "DMBit"}
    <2>1. req.code \in {"read", "write"} /\ req.area \in {"DMWord", "DMBit"}
      BY <1>1, <1>4 DEF DataInv, ReadInv
    <2>2. QED
      BY <1>2, <2>1, OperationIs, CommandIsRequest
  <1>5. QED
    BY <1>1, <1>2, <1>3, <1>4

LEMMA ReceivedIs ==
  ASSUME DataInv, Return, reply.end = "normal", op.do = "read"
  PROVE  /\ BytesAsked(req) = (IF op.area = "DMWord" THEN Wrap(2 * AskedFor(op)) ELSE AskedFor(op))
         /\ StartOf(req) \in Nat /\ BytesAsked(req) \in Nat
         /\ Len(Received) = (IF BytesAsked(req) < RespCap THEN BytesAsked(req) ELSE RespCap)
         /\ Len(Received) \in Nat
         /\ \A i \in 1 .. Len(Received) : Received[i] = MemoryOf(req)[StartOf(req) + i - 1]
  <1> DEFINE n == BytesAsked(req)
             from == StartOf(req)
             k == IF n < RespCap THEN n ELSE RespCap
  <1>1. /\ op \in Operations /\ req = Command(op) /\ req \in Request /\ at = "send"
        /\ req.code = "read" /\ op.area \in {"DMWord", "DMBit"} /\ order \in {"big", "little"}
    BY ReturnOf
  <1>2. req.count = AskedFor(op) /\ req.area = op.area
    BY <1>1, CommandIsRequest
  <1>3. n = IF op.area = "DMWord" THEN Wrap(2 * AskedFor(op)) ELSE AskedFor(op)
    <2>1. AskedFor(op) * 2 = 2 * AskedFor(op)
      BY <1>1, AskedForIs
    <2>2. QED
      BY <1>2, <2>1 DEF BytesAsked
  <1>4. from \in Nat /\ n \in Nat
    BY <1>1, ComputedIs
  <1>5. from + n <= DM_AREA_SIZE /\ reply.data = Slice(MemoryOf(req), from, from + n)
    BY <1>1 DEF DataInv, ReadInv
  <1>6. MemoryOf(req) \in Memory
    BY DEF DataInv, SimInv, SrvTypeOK, MemoryOf
  <1> HIDE DEF n, from
  <1>7. reply.data = [i \in 1 .. n |-> MemoryOf(req)[from + i - 1]]
    BY <1>4, <1>5 DEF Slice
  <1>8. \A i \in 1 .. n : MemoryOf(req)[from + i - 1] \in Bytes
    <2>1. \A j \in 0 .. DM_AREA_SIZE - 1 : MemoryOf(req)[j] \in Bytes
      BY <1>6 DEF Memory
    <2>2. \A i \in 1 .. n : from + i - 1 \in 0 .. DM_AREA_SIZE - 1
      BY <1>4, <1>5, Widths
    <2>3. QED
      BY <2>1, <2>2
  <1>9. reply.data \in Seq(Bytes) /\ Len(reply.data) = n
    BY <1>4, <1>7, <1>8, FunctionsAreSequences, LenProperties
  <1>10. Received = SubSeq(reply.data, 1, k)
    BY <1>9 DEF Received
  <1>11. k \in Nat /\ k <= n
    BY <1>4
  <1> HIDE DEF k
  <1>12. \A i \in 1 .. k : reply.data[i] \in Bytes
    BY <1>7, <1>8, <1>11, <1>4
  <1>13. /\ Len(SubSeq(reply.data, 1, k)) = k
         /\ \A i \in 1 .. k : SubSeq(reply.data, 1, k)[i] = reply.data[i]
    BY <1>11, <1>12, SubSeqProperties
  <1>14. \A i \in 1 .. k : reply.data[i] = MemoryOf(req)[from + i - 1]
    BY <1>4, <1>7, <1>11
  <1>15. Len(Received) = k /\ \A i \in 1 .. k : Received[i] = MemoryOf(req)[from + i - 1]
    BY <1>10, <1>13, <1>14
  <1>16. QED
    BY <1>3, <1>4, <1>11, <1>15 DEF n, from, k

LEMMA OutcomeIs ==
  ASSUME DataInv, Return
  PROVE  /\ Outcome.kind \in {"ok", "endcode", "panic"}
         /\ Outcome.value \in Seq(Int) /\ Outcome.raw \in Seq(Bytes)
         /\ Outcome.kind \in {"ok", "panic"} => reply.end = "normal"
         /\ op.do = "read" /\ Outcome.kind = "panic" => OutOfRange(op, Received, RespCap)
         /\ op.do = "read" /\ Outcome.kind = "ok" =>
              /\ ~OutOfRange(op, Received, RespCap)
              /\ Outcome.value = Decoded(op, Received, order)
              /\ Outcome.raw = Raw(op, Received)
  <1>1. <<>> \in Seq(Int) /\ <<>> \in Seq(Bytes)
    OBVIOUS
  <1>2. CASE reply.end # "normal" \/ op.do = "write" \/ OutOfRange(op, Received, RespCap)
    <2>1. /\ Outcome.value = <<>> /\ Outcome.raw = <<>>
          /\ Outcome.kind \in {"ok", "endcode", "panic"}
          /\ Outcome.kind \in {"ok", "panic"} => reply.end = "normal"
          /\ Outcome.kind = "panic" => OutOfRange(op, Received, RespCap)
          /\ Outcome.kind = "ok" => op.do = "write"
      BY <1>2 DEF Outcome, Failed
    <2>2. QED
      BY <1>1, <2>1
  <1>3. CASE reply.end = "normal" /\ op.do # "write" /\ ~OutOfRange(op, Received, RespCap)
    <2>1. op \in Operations /\ op.kind # "clock" /\ Received \in Seq(Bytes)
      BY <1>3, ReturnOf
    <2>2. Outcome = [kind |-> "ok", value |-> Decoded(op, Received, order),
                     raw |-> Raw(op, Received)]
      BY <1>3 DEF Outcome
    <2>3. Decoded(op, Received, order) \in Seq(Int) /\ Raw(op, Received) \in Seq(Bytes)
      BY <1>3, <2>1, DecodedIsValue, RawIsData
    <2>4. /\ Outcome.kind = "ok" /\ Outcome.value = Decoded(op, Received, order)
          /\ Outcome.raw = Raw(op, Received)
      BY <2>2
    <2>5. QED
      BY <1>3, <2>3, <2>4
  <1>4. QED
    BY <1>2, <1>3

LEMMA ReturnKeepsInv ==
  ASSUME DataInv, SimInv', Return
  PROVE  DataInv'
  <1>1. /\ op \in Operations /\ req = Command(op) /\ req \in Request
        /\ at = "send" /\ at' = "read" /\ client = "waiting" /\ result' = Outcome
        /\ client' \in {"panicked", "idle"} /\ order \in {"big", "little"}
        /\ intact' = (IF op.do = "write" /\ reply.end = "normal" THEN Written ELSE intact)
        /\ UNCHANGED <<memVars, buf, req, reply, order, op, calls>>
        /\ reply.end = "normal" => req.code = op.do
    BY ReturnOf
  <1>2. ClientTypeOK'
    <2>1. /\ result'.kind \in {"none", "ok", "endcode", "badarea", "panic"}
          /\ result'.value \in Seq(Int) /\ result'.raw \in Seq(Bytes)
      BY <1>1, OutcomeIs
    <2>2. calls \in 0 .. MaxCalls
      BY DEF DataInv, ClientTypeOK
    <2>3. QED
      BY <1>1, <2>1, <2>2 DEF ClientTypeOK
  <1>3. PhaseInv' /\ ReadInv' /\ WriteInv'
    BY <1>1 DEF PhaseInv, ReadInv, WriteInv
  <1>4. IntactInv'
    <2>1. CASE ~(op.do = "write" /\ reply.end = "normal")
      BY <1>1, <2>1, IntactStays DEF DataInv
    <2>2. CASE op.do = "write" /\ reply.end = "normal"
      <3> SUFFICES ASSUME NEW w \in Written
                   PROVE  /\ w.op \in Operations /\ w.op.do = "write"
                          /\ w.order \in {"big", "little"}
                          /\ w.bytes = Touched(WriteOf(w)) /\ ~Wild(WriteOf(w))
                          /\ Disturbed(w)' \/ Stored(WriteOf(w))'
        BY <1>1, <2>2 DEF IntactInv, WriteOf
      <3>1. ~Wild(req) /\ req.code = "write"
        BY <1>1, <2>2 DEF Written
      <3>2. CASE w \in intact /\ w.bytes \cap Touched(req) = {}
        <4>1. /\ w.op \in Operations /\ w.op.do = "write" /\ w.order \in {"big", "little"}
              /\ w.bytes = Touched(WriteOf(w)) /\ ~Wild(WriteOf(w))
              /\ Stored(WriteOf(w))
          BY <3>1, <3>2 DEF DataInv, IntactInv, Disturbed
        <4>2. QED
          BY <1>1, <4>1, StoredStays
      <3>3. CASE w = [op |-> op, order |-> order, bytes |-> Touched(req)]
        <4>1. w.op = op /\ w.order = order /\ w.bytes = Touched(req)
          BY <3>3
        <4>2. WriteOf(w) = req
          <5>1. req = [code |-> "write", area |-> op.area, address |-> op.address, bit |-> op.bit,
                       count |-> Items(op), data |-> Encoded(op, order)]
            BY <1>1, <2>2, OperationIs DEF Command
          <5>2. QED
            BY <4>1, <5>1 DEF WriteOf
        <4>3. Stored(req)
          BY <1>1, <2>2, <3>1 DEF DataInv, WriteInv
        <4>4. Stored(WriteOf(w))'
          BY <1>1, <4>2, <4>3, StoredStays
        <4>5. QED
          BY <1>1, <2>2, <3>1, <4>1, <4>2, <4>4
      <3>4. QED
        BY <3>1, <3>2, <3>3 DEF Written
    <2>3. QED
      BY <2>1, <2>2
  <1>5. QED
    BY <1>2, <1>3, <1>4 DEF DataInv

LEMMA StepKeepsDataInv == DataInv /\ [Next]_vars => DataInv'
  <1> SUFFICES ASSUME DataInv, [Next]_vars PROVE DataInv'
    OBVIOUS
  <1>1. SimInv'
    BY StepIsSimStep, StepKeepsInv DEF DataInv
  <1>2. CASE \E o \in Operations : Call(o)
    BY <1>1, <1>2, CallKeepsInv
  <1>3. CASE \E o \in {"big", "little"} : SetByteOrder(o)
    BY <1>1, <1>3, SetByteOrderKeepsInv
  <1>4. CASE Arrive
    BY <1>1, <1>4, ArriveKeepsInv
  <1>5. CASE Return
    BY <1>1, <1>5, ReturnKeepsInv
  <1>6. CASE Handle /\ UNCHANGED clientVars
    BY <1>1, <1>6, HandleKeepsInv
  <1>7. CASE (LoopFails \/ SetServerClosed \/ CloseServerSocket) /\ UNCHANGED clientVars
    BY <1>1, <1>7, QuietKeepsInv
  <1>8. CASE UNCHANGED vars
    BY <1>1, <1>8, QuietKeepsInv DEF vars
  <1>9. QED
    BY <1>2, <1>3, <1>4, <1>5, <1>6, <1>7, <1>8 DEF Next

LEMMA DataInvariant == Spec => []DataInv
  BY DataInit, StepKeepsDataInv, PTL DEF Spec

(***************************************************************************)
(* Whatever operations are called, and in whatever order, what they return *)
(* has its type and the server's state keeps its own.                      *)
(***************************************************************************)
THEOREM TypeCorrect == Spec => []TypeOK
  <1>1. DataInv => TypeOK
    BY DEF DataInv, SimInv, ClientTypeOK, TypeOK
  <1>2. QED
    BY <1>1, DataInvariant, PTL

(***************************************************************************)
(* A client that speaks to the simulator asks nothing of it that the       *)
(* simulator's own specification does not allow: what is proved of the     *)
(* simulator alone, whoever sends to it, holds of it here.                 *)
(***************************************************************************)
THEOREM UsesTheSimulator == Spec => SimSpec
  <1>1. Init => SrvInit
    BY DEF Init
  <1>2. DataInv /\ [Next]_vars => [SimNext]_srvVars
    BY StepIsSimStep
  <1>3. QED
    BY <1>1, <1>2, DataInvariant, PTL DEF Spec, SimSpec

(***************************************************************************)
(* The simulator's own results, in the composition: no operation makes it  *)
(* panic but one whose numbers leave the 16 bits, the bit area or the      *)
(* buffer, and the memory the operations work on is a memory.              *)
(***************************************************************************)
COROLLARY OperationsKeepMemory ==
  Spec => [](PanicsOnlyWild /\ NoFatalOnUserClose) /\ KeepsMemory
  BY UsesTheSimulator, OnlyWildRequestsPanic, UserCloseIsNotFatal, SimulatorKeepsMemory, PTL

-----------------------------------------------------------------------------
(* What a read returns *)

\* Between two operations nothing happens that they could return.
LEMMA IdleStays ==
  ASSUME DataInv, [Next]_vars, client' = "idle", result'.kind = "ok"
  PROVE  \/ Return
         \/ client = "idle" /\ UNCHANGED <<memVars, order, op, result, intact>>
  <1>1. CASE \E o \in Operations : Call(o)
    BY <1>1 DEF Call, NoResult, Failed
  <1>2. CASE \E o \in {"big", "little"} : SetByteOrder(o)
    BY <1>2 DEF SetByteOrder, NoResult
  <1>3. CASE Arrive
    BY <1>3 DEF Arrive
  <1>4. CASE Return
    BY <1>4
  <1>5. CASE Handle /\ UNCHANGED clientVars
    BY <1>5 DEF DataInv, PhaseInv, Handle, clientVars
  <1>6. CASE (LoopFails \/ SetServerClosed \/ CloseServerSocket) /\ UNCHANGED clientVars
    BY <1>6 DEF LoopFails, SetServerClosed, CloseServerSocket, clientVars
  <1>7. CASE UNCHANGED vars
    BY <1>7 DEF vars, srvVars, clientVars
  <1>8. QED
    BY <1>1, <1>2, <1>3, <1>4, <1>5, <1>6, <1>7 DEF Next

\* How much a read that has not indexed out of range has received
LEMMA EnoughReceived ==
  ASSUME DataInv, Return, reply.end = "normal", op.do = "read",
         ~OutOfRange(op, Received, RespCap)
  PROVE  /\ op.kind \in Kinds16 => Len(Received) >= 2
         /\ op.kind \in Kinds32 \cup {"float"} => Len(Received) >= 4
         /\ op.kind = "words" => op.area = "DMWord" /\ Len(Received) = 2 * op.count
         /\ op.kind = "bits" => Len(Received) >= op.count
  <1>1. /\ op \in Operations /\ ~RefusesArea(op) /\ op.area \in {"DMWord", "DMBit"}
        /\ op.count \in Nat /\ op.count < U16 /\ Len(Received) \in Nat
    BY ReturnOf, ReceivedIs, OperationIs, Widths
  <1>2. /\ op.kind \in Kinds16 => Len(Received) >= 2
        /\ op.kind \in Kinds32 \cup {"float"} => Len(Received) >= 4
        /\ op.kind = "bits" => Len(Received) >= op.count
    BY <1>1, OutOfRangeIs
  <1>3. ASSUME op.kind = "words"
        PROVE  op.area = "DMWord" /\ Len(Received) = 2 * op.count
    <2>1. 2 * op.count <= RespCap
      BY <1>1, <1>3, OutOfRangeIs
    <2>2. op.area = "DMWord"
      BY <1>1, <1>3 DEF RefusesArea
    <2>3. AskedFor(op) = op.count
      <3>1. WordsPer(op.kind) = 1
        BY <1>3 DEF WordsPer, Kinds32
      <3>2. WordsPer(op.kind) * op.count = op.count
        BY <1>1, <3>1
      <3>3. QED
        BY <1>1, <1>3, <3>2, AskedForIs, WrapIs
    <2>4. Wrap(2 * op.count) = 2 * op.count
      BY <1>1, <2>1, WrapIs, Widths
    <2>5. BytesAsked(req) = 2 * op.count
      BY <2>2, <2>3, <2>4, ReceivedIs
    <2>6. Len(Received) = (IF 2 * op.count < RespCap THEN 2 * op.count ELSE RespCap)
      BY <2>5, ReceivedIs
    <2>7. QED
      BY <1>1, <2>1, <2>2, <2>6
  <1>4. QED
    BY <1>2, <1>3

\* What a read has received is what InMemory says.
LEMMA ReceivedIsMemory ==
  ASSUME DataInv, Return, reply.end = "normal", op.do = "read", NEW n \in Nat
  PROVE  /\ InMemory(n) = [i \in 1 .. n |-> MemoryOf(req)[StartOf(req) + i - 1]]
         /\ \A i \in 1 .. n : i <= Len(Received) => InMemory(n)[i] = Received[i]
  <1>1. /\ op \in Operations /\ op.area \in {"DMWord", "DMBit"}
        /\ req = Command(op) /\ order \in {"big", "little"}
    BY ReturnOf
  <1>2. req.area = op.area /\ req.address = op.address /\ req.bit = op.bit
    BY <1>1, CommandIsRequest
  <1>3. CASE op.area = "DMWord"
    <2>1. StartOf(req) = op.address /\ MemoryOf(req) = dmarea /\ op.area # "DMBit"
      BY <1>2, <1>3 DEF StartOf, MemoryOf
    <2>2. InMemory(n) = [i \in 1 .. n |-> MemoryOf(req)[StartOf(req) + i - 1]]
      BY <2>1 DEF InMemory
    <2>3. QED
      BY <2>2, ReceivedIs
  <1>4. CASE op.area = "DMBit"
    <2>1. StartOf(req) = Wrap(op.address + op.bit) /\ MemoryOf(req) = bitdmarea
      BY <1>2, <1>4 DEF StartOf, MemoryOf
    <2>2. InMemory(n) = [i \in 1 .. n |-> MemoryOf(req)[StartOf(req) + i - 1]]
      BY <1>4, <2>1 DEF InMemory
    <2>3. QED
      BY <2>2, ReceivedIs
  <1>5. QED
    BY <1>1, <1>3, <1>4

LEMMA ReturnIsMemory ==
  ASSUME DataInv, Return
  PROVE  AnswersAreMemory'
  <1> SUFFICES ASSUME result'.kind = "ok", op.do = "read"
               PROVE  AnswersAreMemory'
    BY ReturnOf DEF AnswersAreMemory
  <1>1. /\ op \in Operations /\ Received \in Seq(Bytes) /\ reply.end = "normal"
        /\ op.count \in Nat /\ op.bs \in BOOLEAN /\ op.kind \in Kinds \ {"clock"}
        /\ UNCHANGED <<memVars, order, op>> /\ Len(Received) \in Nat
        /\ result'.value = Decoded(op, Received, order)
        /\ result'.raw = Raw(op, Received)
        /\ ~OutOfRange(op, Received, RespCap)
    BY ReturnOf, OutcomeIs, OperationIs
  <1>2. /\ \A n : InMemory(n)' = InMemory(n)
        /\ \A n \in Nat : \A i \in 1 .. n : i <= Len(Received) => InMemory(n)[i] = Received[i]
    <2>1. \A n : InMemory(n)' = InMemory(n)
      BY <1>1 DEF InMemory, memVars
    <2>2. ASSUME NEW n \in Nat
          PROVE  \A i \in 1 .. n : i <= Len(Received) => InMemory(n)[i] = Received[i]
      BY <1>1, ReceivedIsMemory
    <2>3. QED
      BY <2>1, <2>2
  <1>3. ASSUME op.kind = "words"
        PROVE  \A i \in 1 .. op.count :
                 LET m == InMemory(2 * op.count) IN
                   result'.value[i] = Get16(order, <<m[2 * i - 1], m[2 * i]>>)
    <2> SUFFICES ASSUME NEW i \in 1 .. op.count
                 PROVE  result'.value[i] = Get16(order, <<InMemory(2 * op.count)[2 * i - 1],
                                                          InMemory(2 * op.count)[2 * i]>>)
      OBVIOUS
    <2>1. Len(Received) = 2 * op.count
      BY <1>1, <1>3, EnoughReceived
    <2>2. /\ 2 * op.count \in Nat /\ 2 * i - 1 \in 1 .. 2 * op.count
          /\ 2 * i \in 1 .. 2 * op.count
      BY <1>1
    <2>3. /\ InMemory(2 * op.count)[2 * i - 1] = Received[2 * i - 1]
          /\ InMemory(2 * op.count)[2 * i] = Received[2 * i]
      BY <1>2, <2>1, <2>2
    <2>4. ByteAt(Received, 2 * i - 1) = Received[2 * i - 1] /\ ByteAt(Received, 2 * i) = Received[2 * i]
      BY <2>1, <2>2 DEF ByteAt
    <2>5. result'.value[i] = Get16(order, <<ByteAt(Received, 2 * i - 1), ByteAt(Received, 2 * i)>>)
      BY <1>1, <1>3, DecodedOf
    <2>6. QED
      BY <2>3, <2>4, <2>5
  <1>4. ASSUME op.kind = "bytes"
        PROVE  result'.value = InMemory(Len(result'.value))
    <2>1. result'.value = Received
      BY <1>1, <1>4, DecodedOf
    <2>2. InMemory(Len(Received)) = [i \in 1 .. Len(Received) |->
                                       MemoryOf(req)[StartOf(req) + i - 1]]
      BY <1>1, ReceivedIsMemory
    <2>3. \A i \in 1 .. Len(Received) : InMemory(Len(Received))[i] = Received[i]
      BY <1>1, ReceivedIsMemory
    <2>4. Received = [i \in 1 .. Len(Received) |-> Received[i]]
      BY <1>1
    <2>5. QED
      BY <2>1, <2>2, <2>3, <2>4
  <1>5. ASSUME op.kind = "bits"
        PROVE  result'.value = [i \in 1 .. op.count |-> InMemory(op.count)[i] % 2]
    <2>1. Len(Received) >= op.count
      BY <1>1, <1>5, EnoughReceived
    <2>2. \A i \in 1 .. op.count : InMemory(op.count)[i] = Received[i]
      <3>1. \A i \in 1 .. op.count : i <= Len(Received)
        BY <1>1, <2>1
      <3>2. QED
        BY <1>1, <1>2, <3>1
    <2>3. result'.value = [i \in 1 .. op.count |-> Received[i] % 2]
      BY <1>1, <1>5, DecodedOf
    <2>4. QED
      BY <2>2, <2>3
  <1>6. ASSUME result'.raw # <<>>
        PROVE  result'.raw = IF op.kind = "uint32" /\ op.bs
                               THEN ByteSwapped(InMemory(4)) ELSE InMemory(Len(result'.raw))
    <2>1. op.kind \in Kinds16 \cup Kinds32 \cup {"float"}
      BY <1>1, <1>6, RawOf
    <2>2. CASE op.kind \in Kinds16
      <3>1. Len(Received) >= 2
        BY <1>1, <2>2, EnoughReceived
      <3>2. InMemory(2) = FirstTwo(Received)
        <4>1. InMemory(2)[1] = Received[1] /\ InMemory(2)[2] = Received[2]
          BY <1>1, <1>2, <3>1
        <4>2. FirstTwo(Received) = <<Received[1], Received[2]>>
          BY <1>1, <3>1 DEF FirstTwo, ByteAt
        <4>3. InMemory(2) = [i \in 1 .. 2 |-> InMemory(2)[i]]
          BY DEF InMemory
        <4>4. QED
          BY <4>1, <4>2, <4>3
      <3>3. result'.raw = FirstTwo(Received)
        BY <1>1, <2>2, RawIsData
      <3>4. Len(FirstTwo(Received)) = 2
        BY DEF FirstTwo
      <3>5. QED
        BY <2>2, <3>2, <3>3, <3>4 DEF Kinds16
    <2>3. CASE op.kind \in Kinds32 \cup {"float"}
      <3>1. Len(Received) >= 4
        BY <1>1, <2>3, EnoughReceived
      <3>2. InMemory(4) = FirstFour(Received)
        <4>1. /\ InMemory(4)[1] = Received[1] /\ InMemory(4)[2] = Received[2]
              /\ InMemory(4)[3] = Received[3] /\ InMemory(4)[4] = Received[4]
          <5>1. \A i \in 1 .. 4 : i <= Len(Received)
            BY <1>1, <3>1
          <5>2. 4 \in Nat /\ 1 \in 1 .. 4 /\ 2 \in 1 .. 4 /\ 3 \in 1 .. 4 /\ 4 \in 1 .. 4
            OBVIOUS
          <5>3. QED
            BY <1>2, <5>1, <5>2
        <4>2. FirstFour(Received) = <<Received[1], Received[2], Received[3], Received[4]>>
          BY <1>1, <3>1 DEF FirstFour, ByteAt
        <4>3. InMemory(4) = [i \in 1 .. 4 |-> InMemory(4)[i]]
          BY DEF InMemory
        <4>4. QED
          BY <4>1, <4>2, <4>3
      <3>3. Len(FirstFour(Received)) = 4
        BY DEF FirstFour
      <3>4. CASE op.kind = "uint32" /\ op.bs
        <4>1. result'.raw = ByteSwapped(FirstFour(Received))
          BY <1>1, <3>4, RawIsData DEF SwappedInPlace
        <4>2. QED
          BY <3>2, <3>4, <4>1
      <3>5. CASE ~(op.kind = "uint32" /\ op.bs)
        <4>1. result'.raw = FirstFour(Received)
          BY <1>1, <2>3, <3>5, RawIsData DEF SwappedInPlace, Kinds32
        <4>2. QED
          BY <3>2, <3>3, <3>5, <4>1
      <3>6. QED
        BY <3>4, <3>5
    <2>4. QED
      BY <2>1, <2>2, <2>3
  <1>7. QED
    BY <1>1, <1>2, <1>3, <1>4, <1>5, <1>6 DEF AnswersAreMemory

(***************************************************************************)
(* What a read returns is what the memory holds, as it is when the call    *)
(* returns and until the next: the words in the byte order set, the bytes, *)
(* the lowest bits, the raw bytes (client_udp.go:84-345), for every width, *)
(* every operation and every history of the memory.                        *)
(***************************************************************************)
THEOREM ReadsReturnTheMemory == Spec => []AnswersAreMemory
  <1>1. Init => AnswersAreMemory
    BY DEF Init, NoResult, AnswersAreMemory
  <1>2. DataInv /\ AnswersAreMemory /\ [Next]_vars => AnswersAreMemory'
    <2> SUFFICES ASSUME DataInv, AnswersAreMemory, [Next]_vars
                 PROVE  AnswersAreMemory'
      OBVIOUS
    <2>1. CASE ~(client' = "idle" /\ result'.kind = "ok")
      BY <2>1 DEF AnswersAreMemory
    <2>2. CASE Return
      BY <2>2, ReturnIsMemory
    <2>3. CASE client = "idle" /\ UNCHANGED <<memVars, order, op, result, intact>>
      BY <2>3 DEF AnswersAreMemory, InMemory, memVars
    <2>4. QED
      BY <2>1, <2>2, <2>3, IdleStays
  <1>3. QED
    BY <1>1, <1>2, DataInvariant, PTL DEF Spec
\* A read that asks for something in 16 bits is answered with as much as it indexes.
LEMMA WellAskedIsEnough ==
  ASSUME DataInv, Return, reply.end = "normal", op.do = "read", WellAsked(op)
  PROVE  ~OutOfRange(op, Received, RespCap)
  <1> DEFINE n == WordsPer(op.kind) * op.count
  <1>1. /\ op \in Operations /\ op.kind \in Kinds \ {"clock"} /\ op.count \in Nat /\ op.count > 0
        /\ WordsPer(op.kind) \in {1, 2, 4} /\ op.area \in {"DMWord", "DMBit"}
        /\ 2 * WordsPer(op.kind) * op.count < U16
    BY ReturnOf, OperationIs, AskedForIs DEF WellAsked
  <1>2. /\ n \in Nat /\ n >= op.count /\ 2 * n < U16
        /\ op.kind \in Kinds32 \cup {"float"} => n >= 2
    <2>1. op.kind \in Kinds32 => WordsPer(op.kind) = 2
      BY DEF WordsPer, Kinds32
    <2>2. op.kind = "float" => WordsPer(op.kind) = 4
      BY DEF WordsPer, Kinds32
    <2>3. n \in Nat /\ n >= op.count /\ 2 * n < U16
      BY <1>1
    <2>4. WordsPer(op.kind) \in {2, 4} => n >= 2
      BY <1>1
    <2>5. QED
      BY <2>1, <2>2, <2>3, <2>4
  <1> HIDE DEF n
  <1>3. AskedFor(op) = n /\ Wrap(2 * n) = 2 * n
    <2>1. AskedFor(op) = Wrap(n)
      BY <1>1, AskedForIs DEF n
    <2>2. QED
      BY <1>2, <2>1, WrapIs, Widths
  <1>4. /\ BytesAsked(req) = (IF op.area = "DMWord" THEN 2 * n ELSE n)
        /\ Len(Received) = (IF BytesAsked(req) < RespCap THEN BytesAsked(req) ELSE RespCap)
    BY <1>3, ReceivedIs
  <1>5. CASE op.kind = "words"
    BY <1>1, <1>5, OutOfRangeIs DEF WellAsked
  <1>6. CASE op.kind = "bits"
    <2>1. Len(Received) >= op.count
      BY <1>1, <1>2, <1>4, <1>6 DEF WellAsked
    <2>2. QED
      BY <1>1, <1>2, <1>4, <1>6, <2>1, OutOfRangeIs
  <1>7. CASE op.kind \in Kinds16
    <2>1. op.area = "DMWord"
      BY <1>1, <1>7 DEF WellAsked, Kinds16
    <2>2. Len(Received) >= 2
      BY <1>1, <1>2, <1>4, <2>1
    <2>3. Len(Received) \in Nat
      BY ReceivedIs
    <2>4. QED
      BY <1>7, <2>2, <2>3, OutOfRangeIs
  <1>8. CASE op.kind \in Kinds32 \cup {"float"}
    <2>1. op.area = "DMWord"
      BY <1>1, <1>8 DEF WellAsked, Kinds32
    <2>2. Len(Received) >= 4
      BY <1>1, <1>2, <1>4, <1>8, <2>1
    <2>3. Len(Received) \in Nat
      BY ReceivedIs
    <2>4. QED
      BY <1>8, <2>2, <2>3, OutOfRangeIs
  <1>9. CASE op.kind \in {"bytes", "string"}
    BY <1>9, OutOfRangeIs
  <1>10. QED
    BY <1>1, <1>5, <1>6, <1>7, <1>8, <1>9 DEF Kinds

(***************************************************************************)
(* A read that asks for something, in 16 bits and for no more than one     *)
(* Read holds, is never the one that panics: whatever the simulator        *)
(* answers with normal completion has the bytes the operation indexes.     *)
(***************************************************************************)
THEOREM WellAskedReadsDoReturn == Spec => []WellAskedReadsReturn
  <1>1. Init => WellAskedReadsReturn
    BY DEF Init, NoResult, WellAskedReadsReturn
  <1>2. DataInv /\ WellAskedReadsReturn /\ [Next]_vars => WellAskedReadsReturn'
    <2> SUFFICES ASSUME DataInv, WellAskedReadsReturn, [Next]_vars,
                        result'.kind = "panic", op'.do = "read", WellAsked(op')
                 PROVE  FALSE
      BY DEF WellAskedReadsReturn, WellAsked
    <2>1. CASE \E o \in Operations : Call(o)
      BY <2>1 DEF Call, NoResult, Failed
    <2>2. CASE \E o \in {"big", "little"} : SetByteOrder(o)
      BY <2>2 DEF SetByteOrder, NoResult
    <2>3. CASE Return
      <3>1. op' = op /\ result' = Outcome
        BY <2>3, ReturnOf
      <3>2. reply.end = "normal" /\ OutOfRange(op, Received, RespCap)
        BY <2>3, <3>1, OutcomeIs
      <3>3. QED
        BY <2>3, <3>1, <3>2, WellAskedIsEnough
    <2>4. CASE UNCHANGED <<op, result>>
      BY <2>4 DEF WellAskedReadsReturn
    <2>5. QED
      BY <2>1, <2>2, <2>3, <2>4 DEF Next, Arrive, vars, clientVars
  <1>3. QED
    BY <1>1, <1>2, DataInvariant, PTL DEF Spec

-----------------------------------------------------------------------------
(* What a write puts into the memory *)

\* No write is of more items than its data have, but those that count bytes as words.
LEMMA ItemsAreData ==
  ASSUME NEW o \in Operations, o.do = "write", NEW ord \in {"big", "little"}
  PROVE  /\ Len(Encoded(o, ord)) \in Nat /\ Len(o.value) \in Nat
         /\ Items(o) \in Nat /\ Items(o) <= Len(Encoded(o, ord))
         /\ \/ 2 * Items(o) <= Len(Encoded(o, ord))
            \/ o.kind \in {"bytes", "bits"} /\ Items(o) <= Len(o.value)
  <1>1. o.kind \in Kinds \ {"clock"} /\ Len(o.value) \in Nat /\ Items(o) \in Nat
    BY OperationIs, ItemsOf
  <1>2. CASE o.kind \in Kinds16
    <2>1. Items(o) = 1 /\ Len(Encoded(o, ord)) = 2
      BY <1>2, ItemsOf, EncodedNumber, TuplesAreSequences
    <2>2. QED
      BY <1>1, <2>1
  <1>3. CASE o.kind \in Kinds32 \cup {"float"}
    <2>1. Items(o) = 2 /\ Len(Encoded(o, ord)) = 4
      BY <1>3, ItemsOf, EncodedNumber, TuplesAreSequences
    <2>2. QED
      BY <1>1, <2>1
  <1>4. CASE o.kind = "words"
    <2>1. Len(Encoded(o, ord)) = 2 * Items(o)
      BY <1>4, EncodedWords
    <2>2. QED
      BY <1>1, <2>1
  <1>5. CASE o.kind = "string"
    <2>1. PICK n \in Nat : n = Len(o.value)
      BY <1>1
    <2>2. Len(Encoded(o, ord)) = 2 * n
      BY <1>5, <2>1, EncodedString
    <2>3. (n + 1) \div 2 \in Nat /\ 2 * ((n + 1) \div 2) <= n + 1 /\ (n = 0 => (n + 1) \div 2 = 0)
      OBVIOUS
    <2>4. PICK k \in Nat : k = (n + 1) \div 2
      BY <2>3
    <2>5. Items(o) = Wrap(k)
      BY <1>5, <2>1, <2>4, ItemsOf
    <2>6. 2 * k <= n + 1 /\ (n = 0 => k = 0) /\ Items(o) <= k
      BY <2>3, <2>4, <2>5, WrapIs
    <2>7. 2 * Items(o) <= 2 * n /\ Items(o) <= 2 * n
      BY <1>1, <2>6
    <2>8. QED
      BY <1>1, <2>1, <2>2, <2>7
  <1>6. CASE o.kind = "bits"
    <2>1. Len(Encoded(o, ord)) = Items(o) /\ Items(o) <= Len(o.value)
      BY <1>6, EncodedBits, ItemsOf
    <2>2. QED
      BY <1>1, <1>6, <2>1
  <1>7. CASE o.kind = "bytes"
    <2>1. Encoded(o, ord) = o.value /\ Items(o) <= Len(o.value)
      BY <1>7, EncodedOf, ItemsOf
    <2>2. QED
      BY <1>1, <1>7, <2>1
  <1>8. QED
    BY <1>1, <1>2, <1>3, <1>4, <1>5, <1>6, <1>7 DEF Kinds

\* A copy changes nothing outside its range.
LEMMA CopiedChanges ==
  ASSUME NEW m \in Memory, NEW from \in Nat, NEW n \in Nat, NEW i \in DOMAIN m,
         Copied(m, from, from + n)[i] # m[i]
  PROVE  i - from \in 0 .. n - 1
  <1>1. i \in Nat
    BY Widths DEF Memory
  <1>2. from <= i /\ i < from + n
    BY DEF Copied
  <1>3. QED
    BY <1>1, <1>2

OwnData ==
  /\ \A i \in DOMAIN dmarea :
       dmarea'[i] # dmarea[i] =>
         \/ i - op.address \in 0 .. Len(Encoded(op, order)) - 1
         \/ op.kind \in {"bytes", "bits"} /\ i - op.address \in 0 .. 2 * Len(op.value) - 1
  /\ \A i \in DOMAIN bitdmarea :
       bitdmarea'[i] # bitdmarea[i] =>
         i - Wrap(op.address + op.bit) \in 0 .. Len(Encoded(op, order)) - 1

LEMMA HandleIsOwnData ==
  ASSUME DataInv, Handle
  PROVE  OwnData
  <1>1. CASE UNCHANGED memVars
    BY <1>1 DEF OwnData, memVars
  <1>2. CASE reply'.end = "normal" /\ req.code = "write"
    <2>1. /\ SimInv /\ at = "handle" /\ client = "waiting" /\ op \in Operations
          /\ order \in {"big", "little"} /\ req = Command(op) /\ req \in Request
          /\ dmarea \in Memory /\ bitdmarea \in Memory
      BY DEF DataInv, PhaseInv, ClientTypeOK, SimInv, SrvTypeOK, Handle
    <2>2. /\ op.do = "write" /\ req.count = Items(op) /\ req.area = op.area
          /\ req.address = op.address /\ req.bit = op.bit
      BY <1>2, <2>1, CommandIsRequest
    <2> DEFINE from == StartOf(req)
               n == BytesAsked(req)
    <2>3. /\ req.area \in {"DMWord", "DMBit"} /\ from \in Nat /\ n \in Nat
          /\ LET new == Copied(MemoryOf(req), from, from + n)
             IN  IF req.area = "DMWord" THEN dmarea' = new /\ UNCHANGED bitdmarea
                                        ELSE bitdmarea' = new /\ UNCHANGED dmarea
      BY <1>2, <2>1, HandleAnswers, ComputedIs
    <2>4. /\ Len(Encoded(op, order)) \in Nat /\ Len(op.value) \in Nat
          /\ Items(op) \in Nat /\ Items(op) <= Len(Encoded(op, order))
          /\ \/ 2 * Items(op) <= Len(Encoded(op, order))
             \/ op.kind \in {"bytes", "bits"} /\ Items(op) <= Len(op.value)
      BY <2>1, <2>2, ItemsAreData
    <2>5. /\ req.area = "DMWord" => from = op.address /\ n <= 2 * Items(op)
          /\ req.area = "DMBit" => from = Wrap(op.address + op.bit) /\ n = Items(op)
      <3>1. req.area = "DMWord" => from = op.address /\ n = Wrap(Items(op) * 2)
        BY <2>2 DEF StartOf, BytesAsked
      <3>2. req.area = "DMBit" => from = Wrap(op.address + op.bit) /\ n = Items(op)
        BY <2>2 DEF StartOf, BytesAsked
      <3>3. Wrap(Items(op) * 2) <= 2 * Items(op)
        <4>1. Items(op) * 2 \in Nat /\ Items(op) * 2 = 2 * Items(op)
          BY <2>4
        <4>2. QED
          BY <4>1, WrapIs
      <3>4. QED
        BY <3>1, <3>2, <3>3
    <2> HIDE DEF from, n
    <2>6. CASE req.area = "DMWord"
      <3>1. UNCHANGED bitdmarea /\ dmarea' = Copied(dmarea, from, from + n)
        BY <2>3, <2>6 DEF MemoryOf
      <3>2. ASSUME NEW i \in DOMAIN dmarea, dmarea'[i] # dmarea[i]
            PROVE  \/ i - op.address \in 0 .. Len(Encoded(op, order)) - 1
                   \/ /\ op.kind \in {"bytes", "bits"}
                      /\ i - op.address \in 0 .. 2 * Len(op.value) - 1
        <4>1. i - from \in 0 .. n - 1
          BY <2>1, <2>3, <3>1, <3>2, CopiedChanges
        <4>2. PICK k \in Nat : k = i - op.address /\ k < n
          BY <2>3, <2>5, <2>6, <4>1
        <4>3. k < 2 * Items(op)
          BY <2>3, <2>4, <2>5, <2>6, <4>2
        <4>4. \/ k \in 0 .. Len(Encoded(op, order)) - 1
              \/ op.kind \in {"bytes", "bits"} /\ k \in 0 .. 2 * Len(op.value) - 1
          BY <2>4, <4>3
        <4>5. QED
          BY <4>2, <4>4
      <3>3. QED
        BY <3>1, <3>2 DEF OwnData
    <2>7. CASE req.area = "DMBit"
      <3>1. UNCHANGED dmarea /\ bitdmarea' = Copied(bitdmarea, from, from + n)
        BY <2>3, <2>7 DEF MemoryOf
      <3>2. ASSUME NEW i \in DOMAIN bitdmarea, bitdmarea'[i] # bitdmarea[i]
            PROVE  i - Wrap(op.address + op.bit) \in 0 .. Len(Encoded(op, order)) - 1
        <4>1. i - from \in 0 .. n - 1
          BY <2>1, <2>3, <3>1, <3>2, CopiedChanges
        <4>2. PICK k \in Nat : k = i - Wrap(op.address + op.bit) /\ k < n
          BY <2>3, <2>5, <2>7, <4>1
        <4>3. k \in 0 .. Len(Encoded(op, order)) - 1
          BY <2>4, <2>5, <2>7, <4>2
        <4>4. QED
          BY <4>2, <4>3
      <3>3. QED
        BY <3>1, <3>2 DEF OwnData
    <2>8. QED
      BY <2>3, <2>6, <2>7
  <1>3. SimInv
    BY DEF DataInv
  <1>4. QED
    BY <1>1, <1>2, <1>3, HandleAnswers, HandleRefuses

(***************************************************************************)
(* Whatever stale bytes are in the simulator's buffer, a write changes no  *)
(* byte of the memories but those of its own data; WriteBytes and          *)
(* WriteBits, which count bytes and bits as words (client_udp.go:397,417), *)
(* change at most as many again behind them, and none in the bit area.     *)
(***************************************************************************)
THEOREM WritesTheirOwnData == Spec => OwnDataOnly
  <1>1. DataInv /\ [Next]_vars => [OwnData]_memVars
    <2> SUFFICES ASSUME DataInv, [Next]_vars, ~UNCHANGED memVars
                 PROVE  OwnData
      OBVIOUS
    <2>1. CASE Handle
      BY <2>1, HandleIsOwnData
    <2>2. CASE Return
      BY <2>2, ReturnOf
    <2>3. CASE ~Handle /\ ~Return
      BY <2>3 DEF Next, Call, SetByteOrder, Arrive, ReceiveRequest, LoopFails, SetServerClosed,
                  CloseServerSocket, vars, srvVars
    <2>4. QED
      BY <2>1, <2>2, <2>3
  <1>2. QED
    BY <1>1, DataInvariant, PTL DEF Spec, OwnDataOnly, OwnData
-----------------------------------------------------------------------------
(* What was written is read back *)

LEMMA PrefixIs ==
  ASSUME NEW s \in Seq(Int), NEW t \in Seq(Int), Len(s) <= Len(t),
         \A i \in 1 .. Len(s) : t[i] = s[i]
  PROVE  IsPrefix(s, t)
  <1>1. Len(s) \in Nat /\ \A i \in 1 .. Len(s) : s[i] \in Int /\ t[i] \in Int
    OBVIOUS
  <1>2. /\ SubSeq(s, 1, Len(s)) \in Seq(Int) /\ Len(SubSeq(s, 1, Len(s))) = Len(s)
        /\ \A i \in 1 .. Len(s) : SubSeq(s, 1, Len(s))[i] = s[i]
    BY <1>1, SubSeqProperties
  <1>3. /\ SubSeq(t, 1, Len(s)) \in Seq(Int) /\ Len(SubSeq(t, 1, Len(s))) = Len(s)
        /\ \A i \in 1 .. Len(s) : SubSeq(t, 1, Len(s))[i] = t[i]
    BY <1>1, SubSeqProperties
  <1>4. SubSeq(s, 1, Len(s)) = SubSeq(t, 1, Len(s))
    BY <1>2, <1>3, SeqEqual
  <1>5. QED
    BY <1>4 DEF IsPrefix

LEMMA ValuesAreNumbers ==
  ASSUME NEW o \in Operations, o.do = "write"
  PROVE  o.value \in Seq(Int) /\ Len(o.value) \in Nat
  <1>1. o.kind \in Kinds \ {"clock"} /\ o.value \in Seq(NumbersOf(o.kind))
    BY OperationIs
  <1>2. \A x \in 0 .. U16 - 1 : Signed(x, U16) \in Int
    BY WordWidth DEF Signed
  <1>3. \A x \in 0 .. U32 - 1 : Signed(x, U32) \in Int
    BY WordWidth DEF Signed
  <1>4. NumbersOf(o.kind) \subseteq Int
    BY <1>1, <1>2, <1>3 DEF NumbersOf, Kinds, Kinds16, Kinds32, Bytes
  <1>5. QED
    BY <1>1, <1>4, SeqMonotonic

(***************************************************************************)
(* A read of an item that is intact receives the bytes of its encoding, as *)
(* far as the count of the write, the encoding and what is received reach. *)
(***************************************************************************)
LEMMA ReceivedIsEncoded ==
  ASSUME DataInv, Return, reply.end = "normal", op.do = "read",
         NEW w \in intact, ReadsItem(op, w)
  PROVE  LET e == Encoded(w.op, w.order) IN
         /\ w.op \in Operations /\ w.op.do = "write" /\ w.order \in {"big", "little"}
         /\ w.op.kind = op.kind /\ op.kind # "clock" /\ op.area \in {"DMWord", "DMBit"}
         /\ op.kind # "bits" => op.area = "DMWord"
         /\ Items(w.op) \in Nat
         /\ op.area = "DMWord" => 2 * Items(w.op) <= RespCap
         /\ e \in Seq(Bytes)
         /\ \A i \in 1 .. Len(e) :
              /\ i <= Len(Received)
              /\ i <= Items(w.op) \/ (op.area = "DMWord" /\ i <= 2 * Items(w.op))
              => Received[i] = e[i]
  <1> DEFINE W == WriteOf(w)
             e == Encoded(w.op, w.order)
  <1>1. /\ op \in Operations /\ op.kind # "clock" /\ req = Command(op) /\ req.code = "read"
        /\ op.area \in {"DMWord", "DMBit"} /\ order \in {"big", "little"}
        /\ req.area = op.area /\ req.address = op.address /\ req.bit = op.bit
    BY ReturnOf, CommandIsRequest
  <1>2. /\ w.op \in Operations /\ w.op.do = "write" /\ w.order \in {"big", "little"}
        /\ ~Wild(W) /\ Stored(W)
    BY <1>1 DEF DataInv, IntactInv, Disturbed
  <1>3. /\ w.op.kind = op.kind /\ w.op.area = op.area /\ w.op.address = op.address
        /\ w.op.bit = op.bit /\ (op.kind # "bits" => op.area = "DMWord")
    BY <1>1 DEF ReadsItem
  <1>4. W \in Request /\ e \in Seq(Bytes) /\ Len(e) \in Nat /\ Items(w.op) \in Nat
    <2>1. W \in Request
      BY <1>2, WriteOfIs
    <2>2. e \in Seq(Bytes)
      BY <1>2, EncodedIsData
    <2>3. Items(w.op) \in Nat
      BY <1>2, ItemsOf
    <2> HIDE DEF e
    <2>4. QED
      BY <2>1, <2>2, <2>3
  <1>5. /\ W.area = op.area /\ W.address = op.address /\ W.bit = op.bit
        /\ W.count = Items(w.op) /\ W.data = e
    BY <1>3 DEF WriteOf
  <1>6. /\ StartOf(req) = StartOf(W) /\ MemoryOf(req) = MemoryOf(W)
        /\ StartOf(W) = FirstByte(W)
    <2>1. StartOf(W) = FirstByte(W)
      BY <1>1, <1>2, <1>4, <1>5, ComputedIs
    <2>2. StartOf(req) = StartOf(W) /\ MemoryOf(req) = MemoryOf(W)
      BY <1>1, <1>5 DEF StartOf, MemoryOf
    <2>3. QED
      BY <2>1, <2>2
  <1>7. NeedsBytes(W) = IF op.area = "DMWord" THEN 2 * Items(w.op) ELSE Items(w.op)
    BY <1>5 DEF NeedsBytes
  <1>8. /\ NeedsBytes(W) <= BufLen /\ NeedsBytes(W) \in Nat /\ FirstByte(W) \in Nat
        /\ \A i \in 1 .. NeedsBytes(W) :
             i <= Len(e) => MemoryOf(W)[FirstByte(W) + i - 1] = e[i]
    BY <1>2, <1>4, <1>5, FieldsOf DEF Stored
  <1> HIDE DEF W, e
  <1>9. ASSUME NEW i \in 1 .. Len(e), i <= Len(Received),
               i <= Items(w.op) \/ (op.area = "DMWord" /\ i <= 2 * Items(w.op))
        PROVE  Received[i] = e[i]
    <2>1. i \in 1 .. NeedsBytes(W) /\ i \in 1 .. Len(Received)
      BY <1>4, <1>7, <1>9, ReceivedIs
    <2>2. Received[i] = MemoryOf(req)[StartOf(req) + i - 1]
      BY <2>1, ReceivedIs
    <2>3. MemoryOf(W)[FirstByte(W) + i - 1] = e[i]
      BY <1>8, <2>1
    <2>4. QED
      BY <1>6, <2>2, <2>3
  <1>10. op.area = "DMWord" => 2 * Items(w.op) <= RespCap
    BY <1>4, <1>7, <1>8
  <1>11. QED
    BY <1>1, <1>2, <1>3, <1>4, <1>9, <1>10 DEF e

LEMMA SameWayIs ==
  ASSUME NEW w, NEW r, ReadsItem(r, w)
  PROVE  /\ r.kind = "int16" => r.bs
         /\ r.kind = "uint16" => r.bs = w.op.bs
         /\ r.kind \in Kinds32 => r.bs = w.op.bs /\ r.ws = w.op.ws
         /\ r.kind = "words" => order = w.order /\ r.count = Len(w.op.value)
         /\ r.kind = "bits" => r.count = Len(w.op.value)
         /\ r.kind = "bytes" => Wrap(2 * r.count) >= Len(w.op.value)
         /\ r.kind = "string" =>
              r.count = (Len(w.op.value) + 1) \div 2 /\ \A i \in DOMAIN w.op.value : w.op.value[i] # 0
  BY DEF ReadsItem, SameWay, Kinds32

\* A number of two bytes
LEMMA Number16ReadsBack ==
  ASSUME DataInv, Return, reply.end = "normal", op.do = "read",
         NEW w \in intact, ReadsItem(op, w), op.kind \in Kinds16,
         ~OutOfRange(op, Received, RespCap)
  PROVE  Decoded(op, Received, order) = <<w.op.value[1]>>
  <1> DEFINE e == Encoded(w.op, w.order)
  <1>1. /\ w.op \in Operations /\ w.op.do = "write" /\ w.order \in {"big", "little"}
        /\ w.op.kind = op.kind /\ op.area = "DMWord" /\ Items(w.op) \in Nat
        /\ \A i \in 1 .. Len(e) :
             i <= Len(Received) /\ i <= 2 * Items(w.op) => Received[i] = e[i]
    BY ReceivedIsEncoded DEF Kinds16
  <1>2. /\ Items(w.op) = 1 /\ e \in Bytes \X Bytes /\ Len(e) = 2
        /\ Len(Received) >= 2 /\ Len(Received) \in Nat
    BY <1>1, ItemsOf, EncodedNumber, EnoughReceived, ReceivedIs, TuplesAreSequences
  <1> HIDE DEF e
  <1>3. FirstTwo(Received) = e
    <2>1. Received[1] = e[1] /\ Received[2] = e[2]
      BY <1>1, <1>2
    <2>2. FirstTwo(Received) = <<Received[1], Received[2]>>
      BY <1>2 DEF FirstTwo, ByteAt
    <2>3. QED
      BY <1>2, <2>1, <2>2
  <1>4. CASE op.kind = "uint16"
    <2>1. op.bs = w.op.bs /\ w.op.bs \in BOOLEAN /\ w.op.value[1] \in 0 .. U16 - 1
      <3>1. w.op \in Operations /\ w.op.do = "write" /\ w.op.kind = "uint16"
        BY <1>1, <1>4
      <3>2. w.op.bs \in BOOLEAN
        BY <3>1, OperationIs
      <3>3. w.op.value[1] \in 0 .. U16 - 1
        BY <3>1, UnsignedValue
      <3>4. op.bs = w.op.bs
        BY <1>4, SameWayIs
      <3>5. QED
        BY <3>2, <3>3, <3>4
    <2>2. e = IF w.op.bs THEN LE16(w.op.value[1]) ELSE BE16(w.op.value[1])
      <3>1. w.op.kind = "uint16"
        BY <1>1, <1>4
      <3>2. QED
        BY <3>1, EncodedOf DEF e
    <2>3. Swap16(e, w.op.bs) = BE16(w.op.value[1])
      BY <2>1, <2>2 DEF Swap16, LE16, BE16
    <2>4. OfBE16(Swap16(e, w.op.bs)) = w.op.value[1]
      BY <2>1, <2>3, Bytes16
    <2>5. QED
      BY <1>3, <1>4, <2>1, <2>4, DecodedOf
  <1>5. CASE op.kind = "int16"
    <2> DEFINE u == Unsigned(w.op.value[1], U16)
    <2>1. op.bs /\ u \in 0 .. U16 - 1 /\ Signed(u, U16) = w.op.value[1]
      <3>1. w.op \in Operations /\ w.op.do = "write" /\ w.op.kind = "int16"
        BY <1>1, <1>5
      <3>2. u \in 0 .. U16 - 1 /\ Signed(u, U16) = w.op.value[1]
        BY <3>1, UnsignedValue DEF u
      <3>3. op.bs
        BY <1>5, SameWayIs
      <3>4. QED
        BY <3>2, <3>3
    <2>2. e = LE16(u)
      <3>1. w.op.kind = "int16"
        BY <1>1, <1>5
      <3>2. QED
        BY <3>1, EncodedOf DEF e
    <2> HIDE DEF u
    <2>3. Swap16(e, op.bs) = BE16(u)
      BY <2>1, <2>2 DEF Swap16, LE16, BE16
    <2>4. OfBE16(Swap16(e, op.bs)) = u
      BY <2>1, <2>3, Bytes16
    <2>5. OfBE16(Swap16(FirstTwo(Received), op.bs)) = u
      BY <1>3, <2>4
    <2>6. Decoded(op, Received, order) = <<Signed(OfBE16(Swap16(FirstTwo(Received), op.bs)), U16)>>
      BY <1>5, DecodedOf
    <2>7. QED
      BY <2>1, <2>5, <2>6
  <1>6. QED
    BY <1>4, <1>5 DEF Kinds16

\* A number of four bytes
LEMMA Number32ReadsBack ==
  ASSUME DataInv, Return, reply.end = "normal", op.do = "read",
         NEW w \in intact, ReadsItem(op, w), op.kind \in Kinds32 \cup {"float"},
         ~OutOfRange(op, Received, RespCap)
  PROVE  Decoded(op, Received, order) = <<w.op.value[1]>>
  <1> DEFINE e == Encoded(w.op, w.order)
             u == Unsigned(w.op.value[1], U32)
  <1>1. /\ w.op \in Operations /\ w.op.do = "write" /\ w.order \in {"big", "little"}
        /\ w.op.kind = op.kind /\ op.area = "DMWord" /\ Items(w.op) \in Nat
        /\ \A i \in 1 .. Len(e) :
             i <= Len(Received) /\ i <= 2 * Items(w.op) => Received[i] = e[i]
    BY ReceivedIsEncoded DEF Kinds32
  <1>2. /\ Items(w.op) = 2 /\ e \in Bytes \X Bytes \X Bytes \X Bytes /\ Len(e) = 4
        /\ Len(Received) >= 4 /\ Len(Received) \in Nat
    BY <1>1, ItemsOf, EncodedNumber, EnoughReceived, ReceivedIs, TuplesAreSequences
  <1>3. /\ op.kind # "float" => e = Swap32(BE32(u), w.op.bs, w.op.ws)
        /\ op.kind = "float" => e = BE32(w.op.value[1])
    <2>1. op.kind # "float" => w.op.kind \in Kinds32
      BY <1>1
    <2>2. w.op.kind \in Kinds32 => e = Swap32(BE32(u), w.op.bs, w.op.ws)
      BY EncodedOf
    <2>3. w.op.kind = "float" => e = BE32(w.op.value[1])
      BY EncodedOf
    <2>4. QED
      BY <1>1, <2>1, <2>2, <2>3
  <1>4. /\ u \in 0 .. U32 - 1
        /\ op.kind \in {"uint32", "float"} => u = w.op.value[1]
        /\ op.kind = "int32" => Signed(u, U32) = w.op.value[1]
    BY <1>1, UnsignedValue DEF Kinds32
  <1> HIDE DEF e, u
  <1>5. FirstFour(Received) = e
    <2>1. \A i \in 1 .. 4 : i <= Len(Received) /\ i <= 2 * Items(w.op) /\ i \in 1 .. Len(e)
      BY <1>2
    <2>2. \A i \in 1 .. 4 : Received[i] = e[i]
      BY <1>1, <2>1
    <2>3. FirstFour(Received) = <<Received[1], Received[2], Received[3], Received[4]>>
      BY <1>2 DEF FirstFour, ByteAt
    <2>4. QED
      BY <1>2, <2>2, <2>3
  <1>6. BE32(u) \in Bytes \X Bytes \X Bytes \X Bytes /\ OfBE32(BE32(u)) = u
    BY <1>4, Bytes32
  <1>7. CASE op.kind \in Kinds32
    <2>1. op.bs = w.op.bs /\ op.ws = w.op.ws /\ w.op.bs \in BOOLEAN /\ w.op.ws \in BOOLEAN
      BY <1>1, <1>7, OperationIs, SameWayIs
    <2>2. op.kind # "float"
      BY <1>7 DEF Kinds32
    <2>3. Swap32(e, op.bs, op.ws) = BE32(u)
      BY <1>3, <1>6, <2>1, <2>2, SwapsUndo
    <2>4. OfBE32(Swap32(FirstFour(Received), op.bs, op.ws)) = u
      BY <1>5, <1>6, <2>3
    <2>5. QED
      BY <1>4, <1>7, <2>4, DecodedOf DEF Kinds32
  <1>8. CASE op.kind = "float"
    BY <1>3, <1>4, <1>5, <1>6, <1>8, DecodedOf
  <1>9. QED
    BY <1>7, <1>8
LEMMA WordsReadBack ==
  ASSUME DataInv, Return, reply.end = "normal", op.do = "read",
         NEW w \in intact, ReadsItem(op, w), op.kind = "words",
         ~OutOfRange(op, Received, RespCap)
  PROVE  Decoded(op, Received, order) = [i \in 1 .. Len(w.op.value) |-> w.op.value[i]]
  <1> DEFINE e == Encoded(w.op, w.order)
             n == Len(w.op.value)
  <1>1. /\ w.op \in Operations /\ w.op.do = "write" /\ w.order \in {"big", "little"}
        /\ w.op.kind = "words" /\ op.area = "DMWord"
        /\ \A i \in 1 .. Len(e) :
             i <= Len(Received) /\ i <= 2 * Items(w.op) => Received[i] = e[i]
    BY ReceivedIsEncoded
  <1>2. order = w.order /\ op.count = n
    BY SameWayIs
  <1>3. n \in Nat /\ w.op.value \in Seq(0 .. U16 - 1)
    <2>1. NumbersOf("words") = 0 .. U16 - 1
      BY DEF NumbersOf
    <2>2. QED
      BY <1>1, <2>1, OperationIs
  <1>4. Items(w.op) = n /\ Len(Received) = 2 * n
    <2>1. op \in Operations
      BY ReturnOf
    <2>2. n < U16
      BY <1>2, <2>1, OperationIs, Widths
    <2>3. Items(w.op) = Wrap(n)
      BY <1>1, ItemsOf
    <2>4. QED
      BY <1>2, <1>3, <2>2, <2>3, EnoughReceived, WrapIs
  <1>5. /\ Len(e) = 2 * n
        /\ \A i \in 1 .. n : <<e[2 * i - 1], e[2 * i]>> = Put16(w.order, w.op.value[i])
    BY <1>1, <1>4, EncodedWords
  <1> HIDE DEF e, n
  <1>6. ASSUME NEW i \in 1 .. n
        PROVE  Get16(order, <<ByteAt(Received, 2 * i - 1), ByteAt(Received, 2 * i)>>)
                 = w.op.value[i]
    <2>1. 2 * i - 1 \in 1 .. 2 * n /\ 2 * i \in 1 .. 2 * n
      BY <1>3
    <2>2. Received[2 * i - 1] = e[2 * i - 1] /\ Received[2 * i] = e[2 * i]
      <3>1. 2 * i - 1 <= 2 * n /\ 2 * i <= 2 * n
        BY <2>1
      <3>2. QED
        BY <1>1, <1>4, <1>5, <2>1, <3>1
    <2>3. ByteAt(Received, 2 * i - 1) = e[2 * i - 1] /\ ByteAt(Received, 2 * i) = e[2 * i]
      BY <1>4, <2>1, <2>2 DEF ByteAt
    <2>4. w.op.value[i] \in 0 .. U16 - 1
      BY <1>3, ElementOfSeq DEF n
    <2>5. Get16(w.order, Put16(w.order, w.op.value[i])) = w.op.value[i]
      BY <2>4, Bytes16 DEF Get16, Put16
    <2>6. QED
      BY <1>2, <1>5, <2>3, <2>5
  <1>7. Decoded(op, Received, order) =
          [i \in 1 .. n |-> Get16(order, <<ByteAt(Received, 2 * i - 1), ByteAt(Received, 2 * i)>>)]
    <2>1. Decoded(op, Received, order) =
            [i \in 1 .. op.count |->
               Get16(order, <<ByteAt(Received, 2 * i - 1), ByteAt(Received, 2 * i)>>)]
      BY DecodedOf
    <2>2. QED
      BY <1>2, <2>1
  <1>8. QED
    BY <1>6, <1>7 DEF n

LEMMA BitsReadBack ==
  ASSUME DataInv, Return, reply.end = "normal", op.do = "read",
         NEW w \in intact, ReadsItem(op, w), op.kind = "bits",
         ~OutOfRange(op, Received, RespCap)
  PROVE  Decoded(op, Received, order) = [i \in 1 .. Len(w.op.value) |-> w.op.value[i]]
  <1> DEFINE e == Encoded(w.op, w.order)
             n == Len(w.op.value)
  <1>1. /\ w.op \in Operations /\ w.op.do = "write" /\ w.order \in {"big", "little"}
        /\ w.op.kind = "bits"
        /\ \A i \in 1 .. Len(e) :
             i <= Len(Received) /\ i <= Items(w.op) => Received[i] = e[i]
    BY ReceivedIsEncoded
  <1>2. op.count = n /\ n \in Nat
    BY <1>1, OperationIs, SameWayIs
  <1>3. Items(w.op) = n /\ Len(Received) >= n /\ Len(Received) \in Nat
    <2>1. op \in Operations
      BY ReturnOf
    <2>2. n < U16
      BY <1>2, <2>1, OperationIs, Widths
    <2>3. Items(w.op) = Wrap(n)
      BY <1>1, ItemsOf
    <2>4. QED
      BY <1>2, <2>2, <2>3, EnoughReceived, ReceivedIs, WrapIs
  <1>4. /\ Len(e) = n
        /\ \A i \in 1 .. n : e[i] = w.op.value[i] /\ w.op.value[i] \in {0, 1}
    BY <1>1, <1>3, EncodedBits
  <1> HIDE DEF e, n
  <1>5. ASSUME NEW i \in 1 .. n
        PROVE  Received[i] % 2 = w.op.value[i]
    <2>1. Received[i] = e[i]
      BY <1>1, <1>2, <1>3, <1>4
    <2>2. 0 % 2 = 0 /\ 1 % 2 = 1
      OBVIOUS
    <2>3. QED
      BY <1>4, <2>1, <2>2
  <1>6. Decoded(op, Received, order) = [i \in 1 .. n |-> Received[i] % 2]
    BY <1>2, DecodedOf
  <1>7. QED
    BY <1>5, <1>6 DEF n

\* The bytes of a write of bytes or of a string are all there, where the read asks for
\* them.
LEMMA BytesReadBack ==
  ASSUME DataInv, Return, reply.end = "normal", op.do = "read",
         NEW w \in intact, ReadsItem(op, w), op.kind \in {"bytes", "string"}
  PROVE  /\ w.op.value \in Seq(Bytes) /\ Len(w.op.value) <= Len(Received)
         /\ \A i \in 1 .. Len(w.op.value) : Received[i] = w.op.value[i]
  <1> DEFINE e == Encoded(w.op, w.order)
  <1>1. /\ w.op \in Operations /\ w.op.do = "write" /\ w.order \in {"big", "little"}
        /\ w.op.kind = op.kind /\ op.area = "DMWord" /\ Items(w.op) \in Nat
        /\ 2 * Items(w.op) <= RespCap
        /\ \A i \in 1 .. Len(e) :
             i <= Len(Received) /\ i <= 2 * Items(w.op) => Received[i] = e[i]
    BY ReceivedIsEncoded
  <1>2. PICK n \in Nat : n = Len(w.op.value)
    BY <1>1, OperationIs
  <1>3. w.op.value \in Seq(Bytes)
    <2>1. NumbersOf(w.op.kind) = Bytes
      BY <1>1 DEF NumbersOf
    <2>2. QED
      BY <1>1, <2>1, OperationIs
  <1>4. /\ op \in Operations /\ op.count \in Nat /\ op.count < U16
    BY ReturnOf, OperationIs, Widths
  <1>5. BytesAsked(req) = Wrap(2 * op.count)
    <2>1. WordsPer(op.kind) = 1
      BY DEF WordsPer, Kinds32
    <2>2. WordsPer(op.kind) * op.count = op.count
      BY <1>4, <2>1
    <2>3. AskedFor(op) = Wrap(op.count)
      BY <1>4, <2>2, AskedForIs
    <2>4. AskedFor(op) = op.count
      BY <1>4, <2>3, WrapIs
    <2>5. QED
      BY <1>1, <2>4, ReceivedIs
  <1>6. Len(Received) = (IF Wrap(2 * op.count) < RespCap THEN Wrap(2 * op.count) ELSE RespCap)
    BY <1>5, ReceivedIs
  <1> HIDE DEF e
  <1>7. CASE op.kind = "bytes"
    <2>1. Wrap(2 * op.count) >= n /\ Wrap(2 * op.count) \in Nat /\ Wrap(2 * op.count) < U16
      <3>1. 2 * op.count \in Nat
        BY <1>4
      <3>2. QED
        BY <1>2, <1>7, <3>1, SameWayIs, WrapIs
    <2>2. n < U16
      BY <1>2, <2>1, Widths
    <2>3. Items(w.op) = Wrap(n)
      BY <1>1, <1>2, <1>7, ItemsOf
    <2>4. Items(w.op) = n
      BY <1>2, <2>2, <2>3, WrapIs
    <2>5. n <= RespCap
      BY <1>1, <1>2, <2>4
    <2>6. n <= Len(Received) /\ n <= 2 * Items(w.op)
      BY <1>2, <1>6, <2>1, <2>4, <2>5
    <2>7. e = w.op.value
      <3>1. w.op.kind = "bytes"
        BY <1>1, <1>7
      <3>2. QED
        BY <3>1, EncodedOf DEF e
    <2>8. \A i \in 1 .. n : i <= Len(Received) /\ i <= 2 * Items(w.op) /\ i \in 1 .. Len(e)
      <3>1. Len(Received) \in Nat
        BY ReceivedIs
      <3>2. QED
        BY <1>1, <1>2, <2>6, <2>7, <3>1
    <2>9. QED
      BY <1>1, <1>2, <1>3, <2>6, <2>7, <2>8
  <1>8. CASE op.kind = "string"
    <2>1. PICK k \in Nat : k = (n + 1) \div 2 /\ n <= 2 * k
      <3>1. (n + 1) \div 2 \in Nat /\ n <= 2 * ((n + 1) \div 2)
        OBVIOUS
      <3>2. QED
        BY <3>1
    <2>2. op.count = k
      BY <1>2, <1>8, <2>1, SameWayIs
    <2>3. Items(w.op) = Wrap(k)
      BY <1>1, <1>2, <1>8, <2>1, ItemsOf
    <2>4. Items(w.op) = k
      BY <1>4, <2>2, <2>3, WrapIs
    <2>5. 2 * k <= RespCap /\ 2 * k \in Nat /\ 2 * k < U16
      BY <1>1, <2>4, Widths
    <2>6. Len(Received) = 2 * k
      BY <1>6, <2>2, <2>5, WrapIs
    <2>7. Len(e) = 2 * n /\ \A i \in 1 .. n : e[i] = w.op.value[i]
      <3>1. w.op.kind = "string"
        BY <1>1, <1>8
      <3>2. QED
        BY <1>1, <1>2, <3>1, EncodedString DEF e
    <2>8. \A i \in 1 .. n : i <= 2 * k /\ i \in 1 .. 2 * n
      <3>1. n <= 2 * k
        BY <2>1
      <3>2. QED
        BY <3>1
    <2>9. \A i \in 1 .. n : Received[i] = e[i]
      BY <1>1, <2>4, <2>6, <2>7, <2>8
    <2>10. QED
      BY <1>2, <1>3, <2>1, <2>6, <2>7, <2>9
  <1>9. QED
    BY <1>7, <1>8

\* A terminator after them does not cut them off.
LEMMA StringReadsBack ==
  ASSUME NEW v \in Seq(Bytes), NEW data \in Seq(Bytes), Len(v) <= Len(data),
         \A i \in 1 .. Len(v) : data[i] = v[i] /\ v[i] # 0
  PROVE  LET s == IF ToTerminator(data) = 0 THEN data ELSE SubSeq(data, 1, ToTerminator(data) - 1)
         IN  Len(v) <= Len(s) /\ \A i \in 1 .. Len(v) : s[i] = v[i]
  <1>1. Len(v) \in Nat /\ Len(data) \in Nat
    OBVIOUS
  <1>2. CASE ToTerminator(data) = 0
    BY <1>2
  <1>3. CASE ToTerminator(data) # 0
    <2>1. PICK t \in 1 .. Len(data) : t = ToTerminator(data) /\ data[t] = 0
      BY <1>3, TerminatorIs
    <2>2. Len(v) <= t - 1
      BY <1>1, <2>1
    <2>3. t - 1 \in Nat /\ \A i \in 1 .. t - 1 : data[i] \in Bytes
      BY <1>1
    <2>4. /\ Len(SubSeq(data, 1, t - 1)) = t - 1
          /\ \A i \in 1 .. t - 1 : SubSeq(data, 1, t - 1)[i] = data[i]
      BY <2>3, SubSeqProperties
    <2>5. QED
      BY <1>1, <1>3, <2>1, <2>2, <2>3, <2>4
  <1>4. QED
    BY <1>2, <1>3

LEMMA ReturnReadsBack ==
  ASSUME DataInv, Return
  PROVE  ReadsBack'
  <1> SUFFICES ASSUME result'.kind = "ok", NEW w \in intact', ReadsItem(op, w)'
               PROVE  IsPrefix(w.op.value, result'.value)
    BY DEF ReadsBack
  <1>1. /\ op' = op /\ order' = order /\ op.do = "read" /\ reply.end = "normal"
        /\ ReadsItem(op, w) /\ Received \in Seq(Bytes)
        /\ result'.value = Decoded(op, Received, order) /\ result'.value \in Seq(Int)
        /\ ~OutOfRange(op, Received, RespCap)
    <2>1. op' = op /\ order' = order /\ result' = Outcome /\ Received \in Seq(Bytes)
      BY ReturnOf
    <2>2. op.do = "read" /\ ReadsItem(op, w)
      BY <2>1 DEF ReadsItem, SameWay
    <2>3. QED
      BY <2>1, <2>2, OutcomeIs
  <1>2. w \in intact
    BY <1>1, ReturnOf
  <1>3. /\ w.op \in Operations /\ w.op.do = "write" /\ w.op.kind = op.kind
        /\ op.kind \in Kinds \ {"clock"}
    BY <1>1, <1>2, ReceivedIsEncoded, OperationIs
  <1>4. w.op.value \in Seq(Int) /\ Len(w.op.value) \in Nat
    BY <1>3, ValuesAreNumbers
  <1>5. CASE op.kind \in Kinds16 \cup Kinds32 \cup {"float"}
    <2>1. Len(w.op.value) = 1
      BY <1>3, <1>5, OperationIs
    <2>2. result'.value = <<w.op.value[1]>>
      BY <1>1, <1>2, <1>5, Number16ReadsBack, Number32ReadsBack
    <2>3. /\ Len(w.op.value) <= Len(result'.value)
          /\ \A i \in 1 .. Len(w.op.value) : result'.value[i] = w.op.value[i]
      BY <2>1, <2>2
    <2>4. QED
      BY <1>1, <1>4, <2>3, PrefixIs
  <1>6. CASE op.kind \in {"words", "bits"}
    <2>1. result'.value = [i \in 1 .. Len(w.op.value) |-> w.op.value[i]]
      BY <1>1, <1>2, <1>6, WordsReadBack, BitsReadBack
    <2>2. Len(result'.value) = Len(w.op.value)
      BY <1>1, <1>4, <2>1, LenProperties
    <2>3. /\ Len(w.op.value) <= Len(result'.value)
          /\ \A i \in 1 .. Len(w.op.value) : result'.value[i] = w.op.value[i]
      BY <1>4, <2>1, <2>2
    <2>4. QED
      BY <1>1, <1>4, <2>3, PrefixIs
  <1>7. CASE op.kind = "bytes"
    <2>1. result'.value = Received
      BY <1>1, <1>7, DecodedOf
    <2>2. /\ Len(w.op.value) <= Len(Received)
          /\ \A i \in 1 .. Len(w.op.value) : Received[i] = w.op.value[i]
      BY <1>1, <1>2, <1>7, BytesReadBack
    <2>3. QED
      BY <1>1, <1>4, <2>1, <2>2, PrefixIs
  <1>8. CASE op.kind = "string"
    <2>1. result'.value = IF ToTerminator(Received) = 0 THEN Received
                          ELSE SubSeq(Received, 1, ToTerminator(Received) - 1)
      BY <1>1, <1>8, DecodedOf
    <2>2. /\ w.op.value \in Seq(Bytes) /\ Len(w.op.value) <= Len(Received)
          /\ \A i \in 1 .. Len(w.op.value) : Received[i] = w.op.value[i]
      BY <1>1, <1>2, <1>8, BytesReadBack
    <2>3. \A i \in 1 .. Len(w.op.value) : w.op.value[i] # 0
      <3>1. \A i \in DOMAIN w.op.value : w.op.value[i] # 0
        BY <1>1, <1>8, SameWayIs
      <3>2. QED
        BY <1>4, <3>1
    <2>4. /\ Len(w.op.value) <= Len(result'.value)
          /\ \A i \in 1 .. Len(w.op.value) : result'.value[i] = w.op.value[i]
      <3>1. Received \in Seq(Bytes)
        BY <1>1
      <3>2. LET s == IF ToTerminator(Received) = 0 THEN Received
                     ELSE SubSeq(Received, 1, ToTerminator(Received) - 1)
            IN  /\ Len(w.op.value) <= Len(s)
                /\ \A i \in 1 .. Len(w.op.value) : s[i] = w.op.value[i]
        BY <2>2, <2>3, <3>1, StringReadsBack
      <3>3. QED
        BY <2>1, <3>2
    <2>5. QED
      BY <1>1, <1>4, <2>4, PrefixIs
  <1>9. QED
    BY <1>3, <1>5, <1>6, <1>7, <1>8 DEF Kinds

(***************************************************************************)
(* ReadX returns what WriteX wrote, whatever has happened in between, as   *)
(* long as no later write has touched it: for every value of every kind,   *)
(* both byte orders, all combinations of the swaps, and all addresses      *)
(* (client_udp.go:84-530 with Utils.go and udp_server.go:65-126).          *)
(***************************************************************************)
THEOREM WhatIsWrittenIsRead == Spec => []ReadsBack
  <1>1. Init => ReadsBack
    BY DEF Init, NoResult, ReadsBack
  <1>2. DataInv /\ ReadsBack /\ [Next]_vars => ReadsBack'
    <2> SUFFICES ASSUME DataInv, ReadsBack, [Next]_vars
                 PROVE  ReadsBack'
      OBVIOUS
    <2>1. CASE ~(client' = "idle" /\ result'.kind = "ok")
      BY <2>1 DEF ReadsBack
    <2>2. CASE Return
      BY <2>2, ReturnReadsBack
    <2>3. CASE client = "idle" /\ UNCHANGED <<memVars, order, op, result, intact>>
      BY <2>3 DEF ReadsBack, ReadsItem, SameWay
    <2>4. QED
      BY <2>1, <2>2, <2>3, IdleStays
  <1>3. QED
    BY <1>1, <1>2, DataInvariant, PTL DEF Spec
=============================================================================
