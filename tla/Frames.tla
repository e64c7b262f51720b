------------------------------- MODULE Frames -------------------------------
(***************************************************************************)
(* The bytes of FINS requests and responses (driver.go, header.go) and the *)
(* frames client_tcp.go puts around requests.  A frame is a sequence of    *)
(* bytes, of which the first, the ICF, is the set of its bits that are 1.  *)
(***************************************************************************)
EXTENDS Numbers

-----------------------------------------------------------------------------
(* Headers; an address is <<network, node, unit>> *)

Address == Bytes \X Bytes \X Bytes

Header ==
  [messageType : {"command", "response"}, responseRequired : BOOLEAN,
   gatewayCount : Bytes, src : Address, dst : Address, serviceID : Bytes]

icfBridgesBit == 7
icfMessageTypeBit == 6
icfResponseRequiredBit == 0

defaultHeader(type, required, src, dst, sid) ==
  [messageType |-> type, responseRequired |-> required, gatewayCount |-> 2,
   src |-> src, dst |-> dst, serviceID |-> sid]

defaultCommandHeader(src, dst, sid) == defaultHeader("command", TRUE, src, dst, sid)

defaultResponseHeader(h) == defaultHeader("response", FALSE, h.dst, h.src, h.serviceID)

encodeHeader(h) ==
  LET icf == {icfBridgesBit}
               \cup (IF h.responseRequired THEN {} ELSE {icfResponseRequiredBit})
               \cup (IF h.messageType = "response" THEN {icfMessageTypeBit} ELSE {})
  IN  <<icf, 0, h.gatewayCount>> \o h.dst \o h.src \o <<h.serviceID>>

\* Slip: the two bits are tested for each other's field.
SlipDecodeHeader(b) ==
  [responseRequired |-> icfMessageTypeBit \notin b[1],
   messageType |-> IF icfMessageTypeBit \notin b[1] THEN "command" ELSE "response",
   gatewayCount |-> b[3],
   dst |-> SubSeq(b, 4, 6), src |-> SubSeq(b, 7, 9), serviceID |-> b[10]]

\* icf&1<<n is (icf&1)<<n in Go: both tests are of bit 0.
decodeHeader(b) ==
  [responseRequired |-> icfResponseRequiredBit \notin b[1],
   messageType |-> IF icfResponseRequiredBit \notin b[1] THEN "command" ELSE "response",
   gatewayCount |-> b[3],
   dst |-> SubSeq(b, 4, 6), src |-> SubSeq(b, 7, 9), serviceID |-> b[10]]

-----------------------------------------------------------------------------
(* Requests and responses *)

CommandCodeMemoryAreaRead == 1 * Byte + 1
CommandCodeMemoryAreaWrite == 1 * Byte + 2
CommandCodeClockRead == 7 * Byte + 1

MemoryAddress == [memoryArea : Bytes, address : 0 .. U16 - 1, bitOffset : Bytes]

encodeMemoryAddress(m) == <<m.memoryArea>> \o BE16(m.address) \o <<m.bitOffset>>

\* Slip: the address is read in the other byte order.
SlipDecodeMemoryAddress(b) ==
  [memoryArea |-> b[1], address |-> OfLE16(SubSeq(b, 2, 3)), bitOffset |-> b[4]]

decodeMemoryAddress(b) ==
  [memoryArea |-> b[1], address |-> OfBE16(SubSeq(b, 2, 3)), bitOffset |-> b[4]]

readCommand(m, count) ==
  BE16(CommandCodeMemoryAreaRead) \o encodeMemoryAddress(m) \o BE16(count)
writeCommand(m, count, data) ==
  BE16(CommandCodeMemoryAreaWrite) \o encodeMemoryAddress(m) \o BE16(count) \o data
clockReadCommand == BE16(CommandCodeClockRead)

From(b, i) == SubSeq(b, i, Len(b))

decodeRequest(b) ==
  [header |-> decodeHeader(SubSeq(b, 1, 10)), commandCode |-> OfBE16(SubSeq(b, 11, 12)),
   data |-> From(b, 13)]

encodeResponse(r) ==
  encodeHeader(r.header) \o BE16(r.commandCode) \o BE16(r.endCode) \o r.data

\* Slip: the end code is read in the other byte order.
SlipDecodeResponse(b) ==
  [header |-> decodeHeader(SubSeq(b, 1, 10)), commandCode |-> OfBE16(SubSeq(b, 11, 12)),
   endCode |-> OfLE16(SubSeq(b, 13, 14)), data |-> From(b, 15)]

decodeResponse(b) ==
  [header |-> decodeHeader(SubSeq(b, 1, 10)), commandCode |-> OfBE16(SubSeq(b, 11, 12)),
   endCode |-> OfBE16(SubSeq(b, 13, 14)), data |-> From(b, 15)]

-----------------------------------------------------------------------------
(* FINS/TCP: "FINS", length, command, error code, payload *)

TcpFrame(length, cmd, payload) == [length |-> length, command |-> cmd, payload |-> payload]
Total(f) == 16 + Len(f.payload)

handShakeFrame == TcpFrame(12, 0, <<0, 0, 0, 1>>)

\* Slip: the length counts the whole frame.
SlipTcpWriteCommand(cmd, payload) == TcpFrame(16 + Len(payload), cmd, payload)

packTcpWriteCommand(cmd, payload) == TcpFrame(Len(payload), cmd, payload)
packTcpReadCommand(cmd, payload) == TcpFrame(26, cmd, payload)

\* The frame sendCommand writes.
FrameOf(header, command, isRead) ==
  LET payload == encodeHeader(header) \o command
  IN  IF isRead THEN packTcpReadCommand(2, payload) ELSE packTcpWriteCommand(2, payload)

\* int(length)+8 < n of listenLoop, of a frame that is read alone
LengthError(f) == f.length + 8 < Total(f)
=============================================================================
