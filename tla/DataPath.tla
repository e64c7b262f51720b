------------------------------ MODULE DataPath ------------------------------
(***************************************************************************)
(* The operations of one UdpClient end to end: what they put into requests *)
(* and make of responses (Conversions) and what the PLC simulator's memory *)
(* does in between (PlcSimulator).  One goroutine calls them one after the *)
(* other and nothing is lost: how calls and datagrams interleave is the    *)
(* subject of UdpClient, and the values in them are the subject here.      *)
(***************************************************************************)
EXTENDS PlcSimulator, Conversions

CONSTANTS
  Operations,  \* the calls the application makes, see Conversions
  RespCap,     \* data bytes of the longest response Read returns: 2034 in the code
  MaxCalls     \* bound on the number of calls, for model checking

ASSUME DataPathAssumption ==
  /\ RespCap \in Nat /\ BufLen <= RespCap /\ 4 <= RespCap /\ RespCap < U16
  /\ MaxCalls \in Nat

ASSUME OperationsAssumption == \A o \in Operations : WellTyped(o) /\ o.area \in Areas

VARIABLES
  order,    \* c.byteOrder
  client,   \* idle, called, waiting, or panicked
  op,       \* the operation it is in, or was last
  result,   \* what the operation returned: [kind, value, raw]
  intact,   \* ghost: the successful writes no later one has touched
  calls     \* number of calls so far

clientVars == <<order, client, op, result, intact, calls>>
vars == <<srvVars, clientVars>>

NoResult == [kind |-> "none", value |-> <<>>, raw |-> <<>>]
NoOp == [do |-> "none"]

TypeOK ==
  /\ SrvTypeOK
  /\ order \in {"big", "little"}
  /\ client \in {"idle", "called", "waiting", "panicked"}
  /\ op \in Operations \cup {NoOp}
  /\ result.kind \in {"none", "ok", "endcode", "badarea", "panic"}
  /\ result.value \in Seq(Int) /\ result.raw \in Seq(Bytes)
  /\ calls \in 0 .. MaxCalls

Init ==
  /\ SrvInit
  /\ order = "big"
  /\ client = "idle"
  /\ op = NoOp
  /\ result = NoResult
  /\ intact = {}
  /\ calls = 0

-----------------------------------------------------------------------------
(* The client *)

\* checkIsWordMemoryArea, in the operations that call it
RefusesArea(o) ==
  /\ o.area \in {"DMBit", "other"}
  /\ o.kind = "words" \/ (o.do = "read" /\ o.kind \in {"bytes", "string"})

\* readCommand, writeCommand, clockReadCommand
Command(o) ==
  [code |-> IF o.kind = "clock" THEN "other" ELSE o.do,
   area |-> o.area, address |-> o.address, bit |-> o.bit,
   count |-> IF o.do = "read" THEN AskedFor(o) ELSE Items(o),
   data |-> IF o.do = "read" THEN <<>> ELSE Encoded(o, order)]

Failed(kind) == [kind |-> kind, value |-> <<>>, raw |-> <<>>]

\* The operation up to sendCommand.
Call(o) ==
  /\ client = "idle"
  /\ calls < MaxCalls
  /\ calls' = calls + 1
  /\ op' = o
  /\ \/ RefusesArea(o) /\ client' = "idle" /\ result' = Failed("badarea")
     \/ /\ ~RefusesArea(o) /\ o.do = "write" /\ WriteOutOfRange(o)
        /\ client' = "panicked" /\ result' = Failed("panic")
     \/ /\ ~RefusesArea(o) /\ ~(o.do = "write" /\ WriteOutOfRange(o))
        /\ client' = "called" /\ result' = NoResult
  /\ UNCHANGED <<srvVars, order, intact>>

Arrive ==
  /\ client = "called"
  /\ ReceiveRequest(Command(op))
  /\ client' = "waiting"
  /\ UNCHANGED <<order, op, result, intact, calls>>

\* The bytes a request names, without the wrapping of 16 bits.
Touched(r) == {r.area} \X (FirstByte(r) .. FirstByte(r) + NeedsBytes(r) - 1)

\* What Read leaves of the response's data
Received ==
  SubSeq(reply.data, 1, IF Len(reply.data) < RespCap THEN Len(reply.data) ELSE RespCap)

\* checkResponse and the rest of the operation
Outcome ==
  IF reply.end # "normal" THEN Failed("endcode")
  ELSE IF op.do = "write" THEN [kind |-> "ok", value |-> <<>>, raw |-> <<>>]
  ELSE IF OutOfRange(op, Received, RespCap) THEN Failed("panic")
  ELSE [kind |-> "ok", value |-> Decoded(op, Received, order), raw |-> Raw(op, Received)]

Written ==
  IF Wild(req) THEN {}
  ELSE {w \in intact : w.bytes \cap Touched(req) = {}}
         \cup {[op |-> op, order |-> order, bytes |-> Touched(req)]}

Return ==
  /\ client = "waiting"
  /\ SendReply
  /\ result' = Outcome
  /\ client' = IF result'.kind = "panic" THEN "panicked" ELSE "idle"
  /\ intact' = IF op.do = "write" /\ reply.end = "normal" THEN Written ELSE intact
  /\ UNCHANGED <<order, op, calls>>

SetByteOrder(o) ==
  /\ client = "idle"
  /\ order # o
  /\ order' = o
  /\ result' = NoResult
  /\ UNCHANGED <<srvVars, client, op, intact, calls>>

Next ==
  \/ \E o \in Operations : Call(o)
  \/ \E o \in {"big", "little"} : SetByteOrder(o)
  \/ Arrive
  \/ Return
  \/ (Handle \/ LoopFails \/ SetServerClosed \/ CloseServerSocket) /\ UNCHANGED clientVars

Spec == Init /\ [][Next]_vars

-----------------------------------------------------------------------------
(* Properties; those of PlcSimulator are checked here too *)

\* r reads what w wrote, in the way w wrote it.  WriteInt16 writes the low byte first
\* whatever it is told, so that only a ReadInt16 with a byte swap reads it back.
SameWay(w, r) ==
  CASE r.kind = "int16" -> r.bs
    [] r.kind = "uint16" -> r.bs = w.op.bs
    [] r.kind \in Kinds32 -> r.bs = w.op.bs /\ r.ws = w.op.ws
    [] r.kind = "float" -> TRUE
    [] r.kind = "words" -> order = w.order /\ r.count = Len(w.op.value)
    [] r.kind = "bits" -> r.count = Len(w.op.value)
    [] r.kind = "bytes" -> Wrap(2 * r.count) >= Len(w.op.value)
    [] r.kind = "string" ->
         r.count = (Len(w.op.value) + 1) \div 2 /\ \A i \in DOMAIN w.op.value : w.op.value[i] # 0

\* (An item of the bit area is one byte, and holds half of a word.)
ReadsItem(r, w) ==
  /\ r.do = "read" /\ r.kind = w.op.kind
  /\ r.area = "DMBit" => r.kind = "bits"
  /\ r.area = w.op.area /\ r.address = w.op.address /\ r.bit = w.op.bit
  /\ SameWay(w, r)

(***************************************************************************)
(* A value that was written, and that no later write has touched, is read  *)
(* back by the read of the same kind, flags and byte order: WriteX and     *)
(* ReadX agree on bytes, words and their order, and the memory keeps them. *)
(* (A string must be read with the number of words it was written with,    *)
(* since one of even length has no terminator, and must not contain the    *)
(* terminator; bytes, with a count whose double has 16 bits.)              *)
(***************************************************************************)
ReadsBack ==
  client = "idle" /\ result.kind = "ok" =>
    \A w \in intact :
      ReadsItem(op, w) => IsPrefix(w.op.value, result.value)

\* The memory as it is, from the operation's address on.
InMemory(n) ==
  [i \in 1 .. n |-> IF op.area = "DMBit" THEN bitdmarea[Wrap(op.address + op.bit) + i - 1]
                                        ELSE dmarea[op.address + i - 1]]

(***************************************************************************)
(* A read returns what is in the memory: the words of ReadWords are those  *)
(* from the address on, in the byte order set, none of them made up where  *)
(* an answer is short; ReadBytes returns a prefix of what was asked for,   *)
(* ReadBits the lowest bit of each byte, be it of the bit area or not; and *)
(* the raw bytes of a typed read are the memory's, in their order there.   *)
(* Swapping does not show in those, but for ReadUint32, which copies them  *)
(* after it has swapped them in place.                                     *)
(***************************************************************************)
AnswersAreMemory ==
  client = "idle" /\ result.kind = "ok" /\ op.do = "read" =>
    /\ op.kind = "words" =>
         \A i \in 1 .. op.count :
           LET m == InMemory(2 * op.count) IN
             result.value[i] = Get16(order, <<m[2 * i - 1], m[2 * i]>>)
    /\ op.kind = "bytes" => result.value = InMemory(Len(result.value))
    /\ op.kind = "bits" =>
         result.value = [i \in 1 .. op.count |-> InMemory(op.count)[i] % 2]
    /\ result.raw # <<>> =>
         result.raw = IF op.kind = "uint32" /\ op.bs
                        THEN ByteSwapped(InMemory(4)) ELSE InMemory(Len(result.raw))

\* A read of something, not more than a response holds and 16 bits can number, of an
\* area that has what is read.
WellAsked(o) ==
  /\ o.count > 0
  /\ 2 * WordsPer(o.kind) * o.count < U16
  /\ o.area = "DMBit" => o.kind = "bits"
  /\ o.kind = "words" => 2 * o.count <= RespCap
  /\ o.kind = "bits" => o.count <= RespCap

(***************************************************************************)
(* A read that asks for something returns: the response of a PLC that      *)
(* reports normal completion always has the bytes that are then indexed.   *)
(* Only a count of zero or one that wraps, a word read of the bit area, or *)
(* more data than one Read returns make it panic.                          *)
(***************************************************************************)
WellAskedReadsReturn ==
  result.kind = "panic" /\ op.do = "read" => ~WellAsked(op)

(***************************************************************************)
(* What a write puts into the memory is its own data: only WriteBytes,     *)
(* which counts its bytes as words, and WriteBits to a word area also put  *)
(* bytes of earlier requests there, behind their data and not further than *)
(* twice its length.  In the bit area no write does.                       *)
(***************************************************************************)
OwnDataOnly ==
  [][/\ \A i \in DOMAIN dmarea :
          dmarea'[i] # dmarea[i] =>
            \/ i - op.address \in 0 .. Len(Encoded(op, order)) - 1
            \/ op.kind \in {"bytes", "bits"} /\ i - op.address \in 0 .. 2 * Len(op.value) - 1
     /\ \A i \in DOMAIN bitdmarea :
          bitdmarea'[i] # bitdmarea[i] =>
            i - Wrap(op.address + op.bit) \in 0 .. Len(Encoded(op, order)) - 1]_memVars
=============================================================================
