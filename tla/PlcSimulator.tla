---------------------------- MODULE PlcSimulator ----------------------------
(***************************************************************************)
(* The PLC simulator of udp_server.go: a loop that reads a datagram into   *)
(* one buffer, handles the request in it and sends the response.           *)
(*                                                                         *)
(* Numbers are as wide as in the code: a byte has Byte values, a uint16    *)
(* has Byte * Byte and wraps, and the memories are half as large as a      *)
(* uint16 can address.  (Byte is 256, and smaller for model checking.)     *)
(***************************************************************************)
EXTENDS Numbers

CONSTANT
  BufLen  \* room for a write's data in the 1024-byte buffer: 1006 in the code

ASSUME SimulatorAssumption == BufLen \in Nat

DM_AREA_SIZE == U16 \div 2

Areas == {"DMWord", "DMBit", "otherWord", "other"}  \* AR, HR and WR words; CIO, timers, ...
Request ==
  [code : {"read", "write", "other"}, area : Areas, address : 0 .. U16 - 1, bit : Bytes,
   count : 0 .. U16 - 1, data : Seq(Bytes)]

NoRequest == [code |-> "other", area |-> "other", address |-> 0, bit |-> 0, count |-> 0,
              data |-> <<>>]
NoAnswer == [end |-> "none", data |-> <<>>]

VARIABLES
  dmarea, bitdmarea,
  buf,         \* the receive buffer from the data of a write on
  req,         \* the request decoded from it
  reply,       \* the response to it
  at,          \* the server loop: read, handle or send; stopped, fatal (log.Fatal), panicked
               \* (in the handler) or garbled (in decodeRequest)
  srvClosed,   \* s.closed
  srvOpen      \* s.conn has not been closed

memVars == <<dmarea, bitdmarea>>
loopVars == <<buf, req, reply, at>>
srvVars == <<memVars, loopVars, srvClosed, srvOpen>>

Memory == [0 .. DM_AREA_SIZE - 1 -> Bytes]

SrvTypeOK ==
  /\ dmarea \in Memory
  /\ bitdmarea \in Memory
  /\ buf \in [1 .. BufLen -> Bytes]
  /\ req \in Request
  /\ reply.end \in {"none", "normal", "range", "unsupported"} /\ reply.data \in Seq(Bytes)
  /\ at \in {"read", "handle", "send", "stopped", "fatal", "panicked", "garbled"}
  /\ srvClosed \in BOOLEAN
  /\ srvOpen \in BOOLEAN

SrvInit ==
  /\ dmarea = [i \in 0 .. DM_AREA_SIZE - 1 |-> 0]
  /\ bitdmarea = [i \in 0 .. DM_AREA_SIZE - 1 |-> 0]
  /\ buf = [i \in 1 .. BufLen |-> 0]
  /\ req = NoRequest
  /\ reply = NoAnswer
  /\ at = "read"
  /\ srvClosed = FALSE
  /\ srvOpen = TRUE

-----------------------------------------------------------------------------
(* The handler *)

\* A slice m[from:to] of one of the memories; Go panics unless Sliceable.
Sliceable(from, to) == from <= to /\ to <= DM_AREA_SIZE
Slice(m, from, to) == [i \in 1 .. to - from |-> m[from + i - 1]]

\* The data a write takes: what follows the item count in the buffer, whoever sent it.
\* r.data[6:6+n] is in range as long as it is in the buffer.
SlipCopied(m, from, to) ==  \* Slip: one byte too many is copied.
  [i \in DOMAIN m |-> IF from <= i /\ i <= to /\ i - from < BufLen THEN buf[i - from + 1] ELSE m[i]]

Copied(m, from, to) ==
  [i \in DOMAIN m |-> IF from <= i /\ i < to THEN buf[i - from + 1] ELSE m[i]]

\* Slip: the boundary is checked of the address alone.
SlipBeyond(n) == req.address > DM_AREA_SIZE

\* "Check address boundary", in 16 bits; n is the number of bytes.
Beyond(n) == Wrap(req.address + n) > DM_AREA_SIZE

Respond(end, data) ==
  /\ at' = "send"
  /\ reply' = [end |-> end, data |-> data]

Panic ==
  /\ at' = "panicked"
  /\ UNCHANGED <<reply, memVars>>

\* Reading or writing n bytes of a memory m from the byte "from" on.
Access(m, n, from) ==
  LET to == Wrap(from + n)
      possible == Sliceable(from, to) /\ (req.code = "write" => n <= BufLen)
  IN  /\ ~Beyond(n)
      /\ \/ ~possible /\ Panic
         \/ possible /\ req.code = "read" /\ Respond("normal", Slice(m, from, to))
            /\ UNCHANGED memVars
         \/ possible /\ req.code = "write" /\ Respond("normal", <<>>)
            /\ IF req.area = "DMWord"
                 THEN dmarea' = Copied(m, from, to) /\ UNCHANGED bitdmarea
                 ELSE bitdmarea' = Copied(m, from, to) /\ UNCHANGED dmarea

HandleWords ==
  /\ req.code # "other" /\ req.area = "DMWord"
  /\ Access(dmarea, Wrap(req.count * 2), req.address)

HandleBits ==
  /\ req.code # "other" /\ req.area = "DMBit"
  /\ Access(bitdmarea, req.count, Wrap(req.address + req.bit))

HandleBeyond ==
  /\ req.code # "other"
  /\ \/ req.area = "DMWord" /\ Beyond(Wrap(req.count * 2))
     \/ req.area = "DMBit" /\ Beyond(req.count)
  /\ Respond("range", <<>>)
  /\ UNCHANGED memVars

HandleUnsupported ==
  /\ req.code = "other" \/ req.area \notin {"DMWord", "DMBit"}
  /\ Respond("unsupported", <<>>)
  /\ UNCHANGED memVars

Handle ==
  /\ at = "handle"
  /\ HandleWords \/ HandleBits \/ HandleBeyond \/ HandleUnsupported
  /\ UNCHANGED <<buf, req, srvClosed, srvOpen>>

-----------------------------------------------------------------------------
(* The server loop *)

\* ReadFromUDP yields r: its bytes overwrite the beginning of the buffer.  Of a datagram
\* of 12 to 17 bytes r has the fields that earlier ones left in the buffer; an empty one
\* changes nothing.
ReceiveRequest(r) ==
  /\ at = "read"
  /\ srvOpen
  /\ buf' = [i \in 1 .. BufLen |-> IF i <= Len(r.data) THEN r.data[i] ELSE buf[i]]
  /\ req' = r
  /\ reply' = NoAnswer
  /\ at' = "handle"
  /\ UNCHANGED <<memVars, srvClosed, srvOpen>>

\* A datagram of 1 to 11 bytes: bytes[12:] of decodeRequest panics.
ReceiveShort ==
  /\ at = "read"
  /\ srvOpen
  /\ at' = "garbled"
  /\ UNCHANGED <<memVars, buf, req, reply, srvClosed, srvOpen>>

SendReply ==
  /\ at = "send"
  /\ srvOpen
  /\ at' = "read"
  /\ UNCHANGED <<memVars, buf, req, reply, srvClosed, srvOpen>>

\* An error of ReadFromUDP or of WriteToUDP ends the loop, and the program unless
\* the user closed the server.  The latter may fail although the socket is open.
LoopFails ==
  /\ at = "send" \/ (at = "read" /\ ~srvOpen)
  /\ at' = IF srvClosed THEN "stopped" ELSE "fatal"
  /\ UNCHANGED <<memVars, buf, req, reply, srvClosed, srvOpen>>

Dead == at \in {"fatal", "panicked", "garbled"}  \* the program has ended

\* Slip: the socket is closed before s.closed is set.
SlipCloseServerSocket ==
  /\ ~Dead
  /\ srvOpen
  /\ srvOpen' = FALSE
  /\ UNCHANGED <<memVars, loopVars, srvClosed>>

SetServerClosed ==
  /\ ~Dead
  /\ ~srvClosed
  /\ srvClosed' = TRUE
  /\ UNCHANGED <<memVars, loopVars, srvOpen>>

CloseServerSocket ==
  /\ ~Dead
  /\ srvClosed
  /\ srvOpen
  /\ srvOpen' = FALSE
  /\ UNCHANGED <<memVars, loopVars, srvClosed>>

ServerStep ==
  Handle \/ SendReply \/ LoopFails \/ SetServerClosed \/ CloseServerSocket

SimNext == ServerStep \/ ReceiveShort \/ \E r \in Request : ReceiveRequest(r)

\* The simulator, whoever sends to it.
SimSpec == SrvInit /\ [][SimNext]_srvVars

-----------------------------------------------------------------------------
(* Properties *)

\* What a request is about, without the wrapping of 16 bits.
FirstByte(r) == IF r.area = "DMWord" THEN r.address ELSE r.address + r.bit
NeedsBytes(r) == IF r.area = "DMWord" THEN 2 * r.count ELSE r.count
Wild(r) == FirstByte(r) + NeedsBytes(r) >= U16

(***************************************************************************)
(* A request makes the handler panic only if the numbers in it leave the   *)
(* 16 bits or the buffer: its range reaches past what a uint16 can say, or *)
(* past the bit area by its bit offset, or it is a write of more data than *)
(* the buffer holds.  All other requests get a response, whatever their    *)
(* addresses and counts.                                                   *)
(***************************************************************************)
PanicsOnlyWild ==
  at = "panicked" =>
    \/ Wild(req)
    \/ req.area = "DMBit" /\ FirstByte(req) + req.count > DM_AREA_SIZE
    \/ req.code = "write" /\ NeedsBytes(req) > BufLen

(***************************************************************************)
(* "Check address boundary": a request for items beyond the memory is      *)
(* answered with EndCodeAddressRangeExceeded, it does not end the program. *)
(***************************************************************************)
BoundaryIsChecked == at # "panicked"

(***************************************************************************)
(* "Do not complain when connection is closed by user": wherever the loop  *)
(* is when the socket is closed, it ends without log.Fatal, since Close    *)
(* sets s.closed first.  Only an error on the open socket is fatal.        *)
(***************************************************************************)
NoFatalOnUserClose == at = "fatal" => srvOpen

Memories == INSTANCE ByteMemory WITH
  Size <- DM_AREA_SIZE, words <- dmarea, bits <- bitdmarea, asked <- req, answer <- reply

(***************************************************************************)
(* The two memories are memories: a request that is answered with normal   *)
(* completion has read or written the bytes it names, all of them and no   *)
(* others; one that is refused has changed nothing and did name a byte     *)
(* that is not there.  Wrapped numbers and the stale bytes a short write   *)
(* leaves behind are the exceptions ByteMemory states.                     *)
(***************************************************************************)
KeepsMemory == Memories!Spec
=============================================================================
