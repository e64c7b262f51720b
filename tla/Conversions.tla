----------------------------- MODULE Conversions -----------------------------
(***************************************************************************)
(* How the operations of client_udp.go (and, line for line, client_tcp.go) *)
(* turn values into the bytes of a request and the bytes of a response     *)
(* into values, with the swaps of Utils.go.                                *)
(*                                                                         *)
(* A value is the sequence of the numbers an operation is given or         *)
(* returns: one for the 16- and 32-bit kinds, else one per word,           *)
(* character, byte or bit.  A float is the number of its bit pattern.      *)
(***************************************************************************)
EXTENDS Numbers, SequencesExt

\* Slip: ReadWords always uses the default order.
SlipGet16(order, b) == OfBE16(b)

\* c.byteOrder.PutUint16 and c.byteOrder.Uint16
Put16(order, v) == IF order = "big" THEN BE16(v) ELSE LE16(v)
Get16(order, b) == IF order = "big" THEN OfBE16(b) ELSE OfLE16(b)

-----------------------------------------------------------------------------
(* Utils.go.  A swap returns the swapped bytes; of the bytes it was given  *)
(* it leaves SwappedInPlace.                                               *)

Swap16(b, bs) == IF bs THEN <<b[2], b[1]>> ELSE b

ByteSwapped(b) == <<b[2], b[1], b[4], b[3]>>
WordSwapped(b) == <<b[3], b[4], b[1], b[2]>>

SwappedInPlace(b, bs) == IF bs THEN ByteSwapped(b) ELSE b

Swap32(b, bs, ws) ==
  IF ws THEN WordSwapped(SwappedInPlace(b, bs)) ELSE SwappedInPlace(b, bs)

-----------------------------------------------------------------------------
(* Operations.  o is [do, kind, area, address, bit, count, value, bs, ws]; *)
(* a read uses count, a write value, and which flags matter is its kind's. *)

Kinds16 == {"uint16", "int16"}
Kinds32 == {"uint32", "int32"}
Kinds == Kinds16 \cup Kinds32 \cup {"float", "words", "string", "bytes", "bits", "clock"}

\* The numbers a value of a kind is made of, as its Go type has them.
NumbersOf(kind) ==
  CASE kind \in {"uint16", "words"} -> 0 .. U16 - 1
    [] kind = "int16" -> {Signed(x, U16) : x \in 0 .. U16 - 1}
    [] kind \in {"uint32", "float"} -> 0 .. U32 - 1
    [] kind = "int32" -> {Signed(x, U32) : x \in 0 .. U32 - 1}
    [] kind \in {"bytes", "string"} -> Bytes
    [] kind = "bits" -> {0, 1}
    [] kind = "clock" -> {}

\* What the types of its parameters say of an operation, its area aside.
WellTyped(o) ==
  /\ o.do \in {"read", "write"} /\ o.kind \in Kinds
  /\ o.address \in 0 .. U16 - 1 /\ o.bit \in Bytes /\ o.count \in 0 .. U16 - 1
  /\ o.bs \in BOOLEAN /\ o.ws \in BOOLEAN
  /\ o.do = "write" => o.kind # "clock" /\ o.value \in Seq(NumbersOf(o.kind))
  /\ o.do = "write" /\ o.kind \in Kinds16 \cup Kinds32 \cup {"float"} => Len(o.value) = 1

\* Slip: a number's bytes are counted, not its words.
SlipItems(o) ==
  CASE o.kind \in Kinds16 -> 2
    [] o.kind \in Kinds32 \cup {"float"} -> 4
    [] o.kind = "string" -> Wrap((Len(o.value) + 1) \div 2)
    [] o.kind \in {"words", "bytes", "bits"} -> Wrap(Len(o.value))

\* The item count of a write, of 16 bits.
Items(o) ==
  CASE o.kind \in Kinds16 -> 1
    [] o.kind \in Kinds32 \cup {"float"} -> 2
    [] o.kind = "string" -> Wrap((Len(o.value) + 1) \div 2)
    [] o.kind \in {"words", "bytes", "bits"} -> Wrap(Len(o.value))

\* Slip: readCount is taken for a number of words by every read.
SlipAskedFor(o) == IF o.kind = "clock" THEN 0 ELSE o.count

\* Words asked for per value to be read; the typed reads use the first value alone.
WordsPer(kind) == CASE kind \in Kinds32 -> 2 [] kind = "float" -> 4 [] OTHER -> 1

\* The item count of a read: readCount * 2 and readCount * 4 wrap.
AskedFor(o) == IF o.kind = "clock" THEN 0 ELSE Wrap(WordsPer(o.kind) * o.count)

\* make([]byte, 2*l) of WriteWords wraps, and bts[i*2:i*2+2] is then out of range.
WriteOutOfRange(o) == o.kind = "words" /\ 2 * Items(o) >= U16

\* The bytes after the item count of a write.  WriteWords and WriteBits encode as many
\* items as the count says, the others all there are.
Encoded(o, order) ==
  CASE o.kind = "uint16" -> IF o.bs THEN LE16(o.value[1]) ELSE BE16(o.value[1])
    [] o.kind = "int16" -> LE16(Unsigned(o.value[1], U16))
    [] o.kind \in Kinds32 -> Swap32(BE32(Unsigned(o.value[1], U32)), o.bs, o.ws)
    [] o.kind = "float" -> BE32(o.value[1])
    [] o.kind = "words" ->
         [j \in 1 .. 2 * Items(o) |-> Put16(order, o.value[(j + 1) \div 2])[2 - (j % 2)]]
    [] o.kind = "string" -> o.value \o [i \in DOMAIN o.value |-> 0]
    [] o.kind = "bits" -> SubSeq(o.value, 1, Items(o))
    [] o.kind = "bytes" -> o.value

\* Does the read index the response's data out of range?  (The slices r.data[i*2:i*2+2]
\* of ReadWords and r.data[5:6] of ReadClock reach as far as the buffer of the Read: room
\* bytes.)
OutOfRange(o, data, room) ==
  CASE o.kind \in Kinds16 -> Len(data) < 2
    [] o.kind \in Kinds32 \cup {"float"} -> Len(data) < 4
    [] o.kind = "words" -> 2 * o.count > room
    [] o.kind = "bits" -> Len(data) < o.count
    [] o.kind = "clock" -> 6 > room
    [] o.kind \in {"bytes", "string"} -> FALSE

ToTerminator(s) == SelectInSeq(s, LAMBDA b : b = 0)

\* What a read makes of the response's data; the buffer is zero after them.  (What
\* ReadClock does is in Bcd; the simulator does not answer it.)
Decoded(o, data, order) ==
  LET At(i) == IF i <= Len(data) THEN data[i] ELSE 0
      two == <<At(1), At(2)>>
      four == <<At(1), At(2), At(3), At(4)>>
  IN  CASE o.kind = "uint16" -> <<OfBE16(Swap16(two, o.bs))>>
        [] o.kind = "int16" -> <<Signed(OfBE16(Swap16(two, o.bs)), U16)>>
        [] o.kind = "uint32" -> <<OfBE32(Swap32(four, o.bs, o.ws))>>
        [] o.kind = "int32" -> <<Signed(OfBE32(Swap32(four, o.bs, o.ws)), U32)>>
        [] o.kind = "float" -> <<OfBE32(four)>>
        [] o.kind = "words" ->
             [i \in 1 .. o.count |-> Get16(order, <<At(2 * i - 1), At(2 * i)>>)]
        [] o.kind = "bits" -> [i \in 1 .. o.count |-> data[i] % 2]
        [] o.kind = "bytes" -> data
        [] o.kind = "string" ->
             IF ToTerminator(data) = 0 THEN data ELSE SubSeq(data, 1, ToTerminator(data) - 1)

\* Slip: the raw bytes of a 32-bit value are copied after the swap.
SlipRaw(o, data) ==
  CASE o.kind \in Kinds16 -> SubSeq(data, 1, 2)
    [] o.kind \in Kinds32 -> SwappedInPlace(SubSeq(data, 1, 4), o.bs)
    [] o.kind = "float" -> SubSeq(data, 1, 4)
    [] OTHER -> <<>>

\* The raw bytes a typed read returns beside the value; ReadUint32 copies them
\* after the swap, the others before.
Raw(o, data) ==
  CASE o.kind \in Kinds16 -> SubSeq(data, 1, 2)
    [] o.kind = "uint32" -> SwappedInPlace(SubSeq(data, 1, 4), o.bs)
    [] o.kind \in {"int32", "float"} -> SubSeq(data, 1, 4)
    [] OTHER -> <<>>
=============================================================================
