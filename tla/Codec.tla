------------------------------- MODULE Codec -------------------------------
(***************************************************************************)
(* The pure functions of Frames, Bcd and ByteHelpers against what they are *)
(* for: each behaviour takes one item of one kind, and the properties say  *)
(* what the functions must make of it.                                     *)
(***************************************************************************)
EXTENDS Frames, Bcd, ByteHelpers

CONSTANTS
  Headers,   \* headers, of any message type
  Requests,  \* what a client asks for, and the data and end code of the answer
  ToEncode,  \* numbers to encode in BCD
  Digits,    \* sequences of BCD bytes, digits or not
  Dates,     \* [year, month, day, hour, minute, second] as a sequence
  ToWrite,   \* [width, value]: see NumberAsked
  Bools,     \* sequences of 0 and 1
  TcpFrames  \* what the frames of a TCP client ask for, or "handshake"

Codes == {"read", "write", "clock"}
RequestAsked ==
  [src : Address, dst : Address, sid : Bytes, code : Codes, memory : MemoryAddress,
   count : 0 .. U16 - 1, data : Seq(Bytes), end : 0 .. U16 - 1]
FrameAsked ==
  [header : Header, code : Codes \cup {"handshake"}, memory : MemoryAddress,
   count : 0 .. U16 - 1, data : Seq(Bytes)]
BcdByte == (0 .. 15) \X (0 .. 15)
Date ==
  {t \in [1 .. 6 -> Nat] : t[1] \in 1950 .. 2049 /\ \A i \in 2 .. 6 : t[i] <= 99}

NumberAsked ==  \* that fits in the bytes there are for it
  {n \in [width : Nat, value : Nat] : Shifted(Byte, n.value, n.width) = 0}

ASSUME CodecAssumption ==
  /\ Wide >= 100
  /\ Byte > 7  \* as the code of ReadClock's command needs
  /\ \A h \in Headers : h \in Header
  /\ \A r \in Requests : r \in RequestAsked
  /\ \A x \in ToEncode : x \in 0 .. Wide - 1
  /\ \A d \in Digits : d \in Seq(BcdByte)
  /\ \A t \in Dates : t \in Date
  /\ \A n \in ToWrite : n \in NumberAsked
  /\ \A b \in Bools : b \in Seq({0, 1})
  /\ \A f \in TcpFrames : f \in FrameAsked

VARIABLE item

Init ==
  \/ \E h \in Headers : item = [kind |-> "header", of |-> h]
  \/ \E r \in Requests : item = [kind |-> "request", of |-> r]
  \/ \E x \in ToEncode : item = [kind |-> "bcd", of |-> x]
  \/ \E d \in Digits : item = [kind |-> "digits", of |-> d]
  \/ \E t \in Dates : item = [kind |-> "date", of |-> t]
  \/ \E n \in ToWrite : item = [kind |-> "number", of |-> n]
  \/ \E b \in Bools : item = [kind |-> "bools", of |-> b]
  \/ \E f \in TcpFrames : item = [kind |-> "frame", of |-> f]

Next == UNCHANGED item

Spec == Init /\ [][Next]_item

Is(kind) == item.kind = kind

-----------------------------------------------------------------------------
(* Frames *)

(***************************************************************************)
(* A header survives the wire but for its message type: the decoder tests  *)
(* the bit of responseRequired for both, so the type arrives only with the *)
(* pairs this code sends, commands that require a response and responses   *)
(* that require none.                                                      *)
(***************************************************************************)
HeaderArrives ==
  Is("header") =>
    decodeHeader(encodeHeader(item.of)) =
      [item.of EXCEPT !.messageType =
         IF item.of.responseRequired THEN "command" ELSE "response"]

CommandOf(r) ==
  CASE r.code = "read" -> readCommand(r.memory, r.count)
    [] r.code = "write" -> writeCommand(r.memory, r.count, r.data)
    [] r.code = "clock" -> clockReadCommand

\* The bytes of a request, as sendCommand puts them together.
RequestBytes(r) ==
  encodeHeader(defaultCommandHeader(r.src, r.dst, r.sid)) \o CommandOf(r)

(***************************************************************************)
(* The server finds in the bytes of a request what the client put there:   *)
(* the addresses, the service id, the command, the memory address with its *)
(* bit offset, the item count and the data.                                *)
(***************************************************************************)
RequestArrives ==
  Is("request") =>
    LET r == item.of
        q == decodeRequest(RequestBytes(r))
    IN  /\ q.header = defaultCommandHeader(r.src, r.dst, r.sid)
        /\ r.code # "clock" =>
             /\ decodeMemoryAddress(SubSeq(q.data, 1, 4)) = r.memory
             /\ OfBE16(SubSeq(q.data, 5, 6)) = r.count
             /\ From(q.data, 7) = (IF r.code = "write" THEN r.data ELSE <<>>)
        /\ q.commandCode = CASE r.code = "read" -> CommandCodeMemoryAreaRead
                             [] r.code = "write" -> CommandCodeMemoryAreaWrite
                             [] r.code = "clock" -> CommandCodeClockRead

(***************************************************************************)
(* The response to a request is addressed back to the client that sent it, *)
(* with the request's service id, and the client decodes of it the command *)
(* code of its request, and whatever end code and data the server sent.    *)
(***************************************************************************)
AnswerReturns ==
  Is("request") =>
    LET r == item.of
        q == decodeRequest(RequestBytes(r))
        a == [header |-> defaultResponseHeader(q.header), commandCode |-> q.commandCode,
              endCode |-> r.end, data |-> r.data]
        got == decodeResponse(encodeResponse(a))
    IN  /\ got = a
        /\ got.header.dst = r.src /\ got.header.src = r.dst
        /\ got.header.serviceID = r.sid

\* The frame a TCP client writes.
FrameWritten(f) ==
  IF f.code = "handshake" THEN handShakeFrame
  ELSE FrameOf(f.header, CommandOf(f), f.code # "write")

(***************************************************************************)
(* The listener's own length test refuses of the frames the client writes  *)
(* the writes and no others: their length field lacks the 8 bytes of       *)
(* command and error code.  Those of the handshake and of memory reads say *)
(* what follows the field exactly, and that of ReadClock, which is 26 like *)
(* a memory read's, 6 bytes more.                                          *)
(***************************************************************************)
LengthTestRefusesWrites ==
  Is("frame") =>
    LET f == FrameWritten(item.of)
    IN  /\ LengthError(f) <=> item.of.code = "write"
        /\ item.of.code \in {"handshake", "read"} => f.length + 8 = Total(f)
        /\ item.of.code = "clock" => f.length + 8 = Total(f) + 6

-----------------------------------------------------------------------------
(* BCD *)

\* decodeBCD gives back every number encodeBCD encodes.
DecodeInvertsEncode == Is("bcd") => decodeBCD(encodeBCD(item.of)) = item.of

\* The nibbles, without the filler, and the number they say, in any width.
Nibbles(bcd) ==
  LET all == [j \in 1 .. 2 * Len(bcd) |-> bcd[(j + 1) \div 2][2 - (j % 2)]]
  IN  IF bcd # <<>> /\ bcd[Len(bcd)][2] = Filler THEN Front(all) ELSE all
Meant(d) == OfDigits(10, d)

(***************************************************************************)
(* Whatever bytes come in, decodeBCD refuses them or returns what they     *)
(* say, it refuses them if one of them is not a digit, and does not if     *)
(* they say a number that fits: as long as they say less than twice what   *)
(* 64 bits hold.  Beyond that the overflow test lets wrapped products      *)
(* through.                                                                *)
(***************************************************************************)
DecodedOrRefused ==
  Is("digits") =>
    LET d == Nibbles(item.of)
        x == decodeBCD(item.of)
    IN  /\ (\E j \in DOMAIN d : d[j] > 9) => x = Refused
        /\ (\A j \in DOMAIN d : d[j] <= 9) /\ Meant(d) < 2 * Wide
             => x = IF Meant(d) < Wide THEN Meant(d) ELSE Refused

TwoDigits(n) == <<n \div 10, n % 10>>

(***************************************************************************)
(* ReadClock shows the PLC's date and time, from 1950 to 2049.  A byte of  *)
(* the answer that is no number becomes a 0 and leaves the other fields    *)
(* as they are, since ReadClock ignores the errors.                        *)
(***************************************************************************)
ClockIsRead ==
  Is("date") =>
    LET sent == [i \in 1 .. 6 |-> TwoDigits(item.of[i] % 100)]
    IN  /\ ReadClock(sent) = item.of
        /\ \A i \in 2 .. 6 :
             ReadClock([sent EXCEPT ![i] = <<10, 0>>]) = [item.of EXCEPT ![i] = 0]

-----------------------------------------------------------------------------
(* bytes.go *)

(***************************************************************************)
(* Parsing gives back the number that was written, in either order, and    *)
(* the little-endian bytes are the big-endian ones from the other end.     *)
(***************************************************************************)
ParseInvertsWrite ==
  Is("number") =>
    LET n == item.of.width
        v == item.of.value
    IN  /\ ParseUint(UintToBytes(n, v)) = v
        /\ ParseUintLittleEndian(UintToBytesLittleEndian(n, v)) = v
        /\ UintToBytesLittleEndian(n, v) = Reverse(UintToBytes(n, v))

(***************************************************************************)
(* ShrinkBool keeps every bit: the i-th is bit i%8 of byte i/8.            *)
(* ExpandBool of that, with the number of bits there were, gives back the  *)
(* first ones, as many as there are bytes; it is never out of range and    *)
(* never sets a bit that was not set, but leaves all others 0.             *)
(***************************************************************************)
BoolsShrinkAndExpand ==
  Is("bools") =>
    LET b == item.of
        s == ShrinkBool(b)
        e == ExpandBool(s, Len(b))
    IN  /\ \A i \in DOMAIN b : Bit(s[1 + (i - 1) \div PerByte], (i - 1) % PerByte) = b[i]
        /\ ~ExpandOutOfRange(s, Len(b))
        /\ e = [i \in DOMAIN b |-> IF i <= Len(s) THEN b[i] ELSE 0]
        /\ AsciiToBool(BoolToAscii(b)) = b
=============================================================================
