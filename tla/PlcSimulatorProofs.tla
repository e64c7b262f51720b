------------------------- MODULE PlcSimulatorProofs -------------------------
(***************************************************************************)
(* The PLC simulator for every width of its numbers and every buffer: its  *)
(* invariants, and that it implements ByteMemory.  Handle is the only step *)
(* that takes an argument: it needs that the numbers of a request that is  *)
(* not Wild are those the handler computes with.                           *)
(***************************************************************************)
EXTENDS PlcSimulator, SequenceTheorems, TLAPS

USE ByteAssumption, SimulatorAssumption

\* While a request waits to be handled it has no answer and its data are in the buffer.
PendingInv ==
  at = "handle" =>
    /\ reply = NoAnswer
    /\ \A i \in 1 .. BufLen : i <= Len(req.data) => buf[i] = req.data[i]

\* s.closed is set before the socket is closed, and log.Fatal came on an open one.
CloseInv == (~srvOpen => srvClosed) /\ NoFatalOnUserClose

SimInv == SrvTypeOK /\ PendingInv /\ CloseInv /\ PanicsOnlyWild

-----------------------------------------------------------------------------
(* Numbers *)

LEMMA Widths ==
  /\ U16 \in Nat /\ U16 >= 4
  /\ DM_AREA_SIZE \in Nat /\ 2 * DM_AREA_SIZE <= U16 /\ U16 <= 2 * DM_AREA_SIZE + 1
  <1>1. PICK b \in Nat : b = Byte /\ b >= 2
    BY DEF ByteAssumption
  <1>2. b * b \in Nat /\ b * b >= 2 * b
    BY <1>1, SMT
  <1>3. U16 \in Nat /\ U16 >= 4
    BY <1>1, <1>2 DEF U16
  <1>4. QED
    BY <1>3 DEF DM_AREA_SIZE

\* A wrapped number is one of 16 bits, never more than the number, and the number
\* itself if that has 16 bits.
LEMMA WrapIs ==
  ASSUME NEW n \in Nat
  PROVE  Wrap(n) \in Nat /\ Wrap(n) < U16 /\ Wrap(n) <= n /\ (n < U16 => Wrap(n) = n)
  BY Widths DEF Wrap

LEMMA FieldsOf ==
  ASSUME NEW r \in Request
  PROVE  /\ r.address \in Nat /\ r.bit \in Nat /\ r.count \in Nat
         /\ r.address < U16 /\ r.count < U16
         /\ r.code \in {"read", "write", "other"} /\ r.area \in Areas
         /\ r.data \in Seq(Bytes)
         /\ FirstByte(r) \in Nat /\ NeedsBytes(r) \in Nat
  BY Widths DEF Request, Bytes, FirstByte, NeedsBytes, ByteAssumption

LEMMA FunctionsAreSequences ==
  ASSUME NEW S, NEW n \in Nat, NEW f \in [1 .. n -> S]
  PROVE  f \in Seq(S)
  BY SeqDef

\* What Access slices, for either memory: n bytes from "from" on.
LEMMA SliceIsSequence ==
  ASSUME NEW m \in Memory, NEW from \in Nat, NEW to \in Nat, Sliceable(from, to)
  PROVE  Slice(m, from, to) \in Seq(Bytes)
  <1>1. Slice(m, from, to) \in [1 .. to - from -> Bytes]
    BY Widths DEF Slice, Sliceable, Memory
  <1>2. QED
    BY <1>1, FunctionsAreSequences DEF Sliceable

LEMMA CopiedIsMemory ==
  ASSUME NEW m \in Memory, NEW from \in Nat, NEW to \in Nat, buf \in [1 .. BufLen -> Bytes],
         to - from <= BufLen
  PROVE  Copied(m, from, to) \in Memory
  <1>1. ASSUME NEW i \in 0 .. DM_AREA_SIZE - 1, from <= i, i < to
        PROVE  buf[i - from + 1] \in Bytes
    BY <1>1, Widths DEF SimulatorAssumption
  <1>2. QED
    BY <1>1 DEF Copied, Memory

\* The first byte and the bytes needed as the handler computes them, before and after
\* they are added: the numbers meant, if the request is not Wild.
LEMMA TameWords ==
  ASSUME NEW r \in Request, r.area = "DMWord", ~Wild(r)
  PROVE  /\ Wrap(r.count * 2) = NeedsBytes(r)
         /\ Wrap(r.address + Wrap(r.count * 2)) = FirstByte(r) + NeedsBytes(r)
  <1>1. r.address \in Nat /\ r.count \in Nat /\ r.address + 2 * r.count < U16
    BY FieldsOf, Widths DEF Wild, FirstByte, NeedsBytes
  <1>2. r.count * 2 = 2 * r.count /\ 2 * r.count \in Nat /\ 2 * r.count < U16
    BY <1>1, Widths
  <1>3. Wrap(r.count * 2) = 2 * r.count
    BY <1>2, WrapIs
  <1>4. Wrap(r.address + 2 * r.count) = r.address + 2 * r.count
    BY <1>1, <1>2, WrapIs
  <1>5. QED
    BY <1>3, <1>4 DEF FirstByte, NeedsBytes

LEMMA TameBits ==
  ASSUME NEW r \in Request, r.area = "DMBit", ~Wild(r)
  PROVE  /\ Wrap(r.address + r.bit) = FirstByte(r)
         /\ Wrap(Wrap(r.address + r.bit) + r.count) = FirstByte(r) + NeedsBytes(r)
         /\ Wrap(r.address + r.count) = r.address + r.count
  <1>1. /\ r.address \in Nat /\ r.bit \in Nat /\ r.count \in Nat
        /\ r.address + r.bit + r.count < U16
    BY FieldsOf, Widths DEF Wild, FirstByte, NeedsBytes
  <1>2. Wrap(r.address + r.bit) = r.address + r.bit
    BY <1>1, Widths, WrapIs
  <1>3. Wrap(r.address + r.bit + r.count) = r.address + r.bit + r.count
    BY <1>1, Widths, WrapIs
  <1>4. Wrap(r.address + r.count) = r.address + r.count
    BY <1>1, Widths, WrapIs
  <1>5. QED
    BY <1>2, <1>3, <1>4 DEF FirstByte, NeedsBytes

-----------------------------------------------------------------------------
(* The invariants *)

LEMMA RespondType ==
  ASSUME NEW end \in {"normal", "range", "unsupported"}, NEW data \in Seq(Bytes),
         Respond(end, data)
  PROVE  reply'.end = end /\ reply'.data \in Seq(Bytes) /\ at' = "send"
  BY DEF Respond

\* Access, wherever it starts, leaves memories and a response.
LEMMA AccessType ==
  ASSUME SrvTypeOK, NEW m \in Memory, NEW n \in Nat, NEW from \in Nat,
         Access(m, n, from)
  PROVE  /\ dmarea' \in Memory /\ bitdmarea' \in Memory
         /\ reply'.end \in {"none", "normal", "range", "unsupported"}
         /\ reply'.data \in Seq(Bytes)
         /\ at' \in {"send", "panicked"}
  <1> DEFINE to == Wrap(from + n)
  <1>1. to \in Nat /\ to <= from + n
    BY WrapIs
  <1> HIDE DEF to
  <1>2. CASE Panic
    BY <1>2 DEF Panic, memVars, SrvTypeOK
  <1>3. CASE Sliceable(from, to) /\ Respond("normal", Slice(m, from, to)) /\ UNCHANGED memVars
    BY <1>1, <1>3, SliceIsSequence DEF Respond, memVars, SrvTypeOK
  <1>4. CASE /\ Sliceable(from, to) /\ n <= BufLen /\ Respond("normal", <<>>)
             /\ IF req.area = "DMWord"
                  THEN dmarea' = Copied(m, from, to) /\ UNCHANGED bitdmarea
                  ELSE bitdmarea' = Copied(m, from, to) /\ UNCHANGED dmarea
    <2>1. Copied(m, from, to) \in Memory
      BY <1>1, <1>4, CopiedIsMemory DEF SrvTypeOK, Sliceable, SimulatorAssumption
    <2>2. <<>> \in Seq(Bytes)
      OBVIOUS
    <2>3. QED
      BY <1>4, <2>1, <2>2 DEF Respond, SrvTypeOK
  <1>5. QED
    BY <1>2, <1>3, <1>4 DEF Access, to

LEMMA HandleType ==
  ASSUME SrvTypeOK, Handle
  PROVE  SrvTypeOK' /\ at' \in {"send", "panicked"}
  <1>1. req.address \in Nat /\ req.bit \in Nat /\ req.count \in Nat
    BY FieldsOf DEF SrvTypeOK
  <1>2. req.count * 2 \in Nat /\ req.address + req.bit \in Nat
    BY <1>1
  <1>3. Wrap(req.count * 2) \in Nat /\ Wrap(req.address + req.bit) \in Nat
    BY <1>2, WrapIs
  <1>4. UNCHANGED <<buf, req, srvClosed, srvOpen>>
    BY DEF Handle
  <1>5. /\ dmarea' \in Memory /\ bitdmarea' \in Memory
        /\ reply'.end \in {"none", "normal", "range", "unsupported"}
        /\ reply'.data \in Seq(Bytes)
        /\ at' \in {"send", "panicked"}
    <2>1. CASE HandleWords
      BY <1>1, <1>3, <2>1, AccessType DEF HandleWords, SrvTypeOK
    <2>2. CASE HandleBits
      BY <1>1, <1>3, <2>2, AccessType DEF HandleBits, SrvTypeOK
    <2>3. CASE HandleBeyond \/ HandleUnsupported
      <3>1. (Respond("range", <<>>) \/ Respond("unsupported", <<>>)) /\ UNCHANGED memVars
        BY <2>3 DEF HandleBeyond, HandleUnsupported
      <3>2. <<>> \in Seq(Bytes)
        OBVIOUS
      <3>3. QED
        BY <3>1, <3>2, RespondType DEF memVars, SrvTypeOK
    <2>4. QED
      BY <2>1, <2>2, <2>3 DEF Handle
  <1>6. QED
    BY <1>4, <1>5 DEF SrvTypeOK

LEMMA InitInv == SrvInit => SimInv
  <1>1. 0 \in Bytes /\ 0 \in 0 .. U16 - 1 /\ <<>> \in Seq(Bytes)
    BY Widths DEF Bytes, ByteAssumption
  <1>2. NoRequest \in Request
    BY <1>1 DEF NoRequest, Request, Areas
  <1>3. NoAnswer.end = "none" /\ NoAnswer.data \in Seq(Bytes)
    BY DEF NoAnswer
  <1>4. QED
    BY <1>1, <1>2, <1>3
    DEF SrvInit, SimInv, SrvTypeOK, Memory, PendingInv, CloseInv,
        NoFatalOnUserClose, PanicsOnlyWild

LEMMA ReceiveKeepsInv ==
  ASSUME SimInv, NEW r \in Request, ReceiveRequest(r)
  PROVE  SimInv'
  <1>1. r.data \in Seq(Bytes)
    BY FieldsOf
  <1>2. \A i \in 1 .. BufLen : i <= Len(r.data) => r.data[i] \in Bytes
    BY <1>1 DEF SimulatorAssumption
  <1>3. buf' \in [1 .. BufLen -> Bytes]
    BY <1>2 DEF ReceiveRequest, SimInv, SrvTypeOK
  <1>4. NoAnswer.end = "none" /\ NoAnswer.data \in Seq(Bytes)
    BY DEF NoAnswer
  <1>5. SrvTypeOK'
    BY <1>3, <1>4 DEF ReceiveRequest, SimInv, SrvTypeOK, memVars
  <1>6. PendingInv'
    BY DEF ReceiveRequest, PendingInv
  <1>7. QED
    BY <1>5, <1>6 DEF ReceiveRequest, SimInv, CloseInv, NoFatalOnUserClose, PanicsOnlyWild

\* A request that is not among the exceptions is not out of range of anything.
LEMMA HandlePanics ==
  ASSUME SrvTypeOK, Handle
  PROVE  PanicsOnlyWild'
  <1> SUFFICES ASSUME at' = "panicked", ~Wild(req),
                      ~(req.area = "DMBit" /\ FirstByte(req) + req.count > DM_AREA_SIZE)
               PROVE  req.code = "write" /\ NeedsBytes(req) > BufLen
    BY DEF Handle, PanicsOnlyWild, Wild, FirstByte, NeedsBytes
  <1>1. req \in Request /\ FirstByte(req) \in Nat /\ NeedsBytes(req) \in Nat
    BY FieldsOf DEF SrvTypeOK
  <1>2. CASE HandleWords
    <2>1. req.area = "DMWord" /\ Access(dmarea, Wrap(req.count * 2), req.address)
      BY <1>2 DEF HandleWords
    <2>2. /\ ~(FirstByte(req) + NeedsBytes(req) > DM_AREA_SIZE)
          /\ ~(/\ Sliceable(FirstByte(req), FirstByte(req) + NeedsBytes(req))
               /\ (req.code = "write" => NeedsBytes(req) <= BufLen))
      BY <1>1, <2>1, TameWords DEF Access, Beyond, Respond, FirstByte
    <2>3. Sliceable(FirstByte(req), FirstByte(req) + NeedsBytes(req))
      BY <1>1, <2>2, Widths DEF Sliceable
    <2>4. QED
      BY <1>1, <2>2, <2>3 DEF SimulatorAssumption
  <1>3. CASE HandleBits
    <2>1. req.area = "DMBit" /\ Access(bitdmarea, req.count, Wrap(req.address + req.bit))
      BY <1>3 DEF HandleBits
    <2>2. ~(/\ Sliceable(FirstByte(req), FirstByte(req) + NeedsBytes(req))
            /\ (req.code = "write" => NeedsBytes(req) <= BufLen))
      BY <1>1, <2>1, TameBits DEF Access, Respond, NeedsBytes
    <2>3. Sliceable(FirstByte(req), FirstByte(req) + NeedsBytes(req))
      BY <1>1, <2>1, Widths DEF Sliceable, NeedsBytes
    <2>4. QED
      BY <1>1, <2>2, <2>3 DEF SimulatorAssumption
  <1>4. CASE HandleBeyond \/ HandleUnsupported
    BY <1>4 DEF HandleBeyond, HandleUnsupported, Respond
  <1>5. QED
    BY <1>2, <1>3, <1>4 DEF Handle

LEMMA StepKeepsInv == SimInv /\ [SimNext]_srvVars => SimInv'
  <1> SUFFICES ASSUME SimInv, [SimNext]_srvVars PROVE SimInv'
    OBVIOUS
  <1>1. CASE Handle
    <2>1. UNCHANGED <<srvClosed, srvOpen>> /\ SrvTypeOK
      BY <1>1 DEF Handle, SimInv
    <2>2. SrvTypeOK' /\ at' \in {"send", "panicked"}
      BY <1>1, <2>1, HandleType
    <2>3. PanicsOnlyWild'
      BY <1>1, <2>1, HandlePanics
    <2>4. QED
      BY <2>1, <2>2, <2>3 DEF SimInv, PendingInv, CloseInv, NoFatalOnUserClose
  <1>2. CASE \E r \in Request : ReceiveRequest(r)
    BY <1>2, ReceiveKeepsInv
  <1>3. CASE SendReply
    BY <1>3 DEF SendReply, SimInv, SrvTypeOK, memVars, PendingInv, CloseInv,
                NoFatalOnUserClose, PanicsOnlyWild
  <1>4. CASE LoopFails
    BY <1>4 DEF LoopFails, SimInv, SrvTypeOK, memVars, PendingInv, CloseInv,
                NoFatalOnUserClose, PanicsOnlyWild
  <1>5. CASE SetServerClosed \/ CloseServerSocket
    BY <1>5 DEF SetServerClosed, CloseServerSocket, Dead, SimInv, SrvTypeOK, memVars, loopVars,
                PendingInv, CloseInv, NoFatalOnUserClose, PanicsOnlyWild, Wild, FirstByte,
                NeedsBytes
  <1>6. CASE UNCHANGED srvVars
    BY <1>6 DEF srvVars, memVars, loopVars, SimInv, SrvTypeOK, PendingInv, CloseInv,
                NoFatalOnUserClose, PanicsOnlyWild, Wild, FirstByte, NeedsBytes
  <1>7. CASE ReceiveShort
    BY <1>7 DEF ReceiveShort, SimInv, SrvTypeOK, memVars, PendingInv, CloseInv,
                NoFatalOnUserClose, PanicsOnlyWild
  <1>8. QED
    BY <1>1, <1>2, <1>3, <1>4, <1>5, <1>6, <1>7 DEF SimNext, ServerStep

LEMMA SimInvariant == SimSpec => []SimInv
  BY InitInv, StepKeepsInv, PTL DEF SimSpec

(***************************************************************************)
(* No request makes the handler index out of range but those whose numbers *)
(* leave the 16 bits, the bit area (by the bit offset) or the buffer       *)
(* (udp_server.go:65-100), whatever has been received before.              *)
(***************************************************************************)
THEOREM OnlyWildRequestsPanic == SimSpec => []PanicsOnlyWild
  BY SimInvariant, PTL DEF SimInv

(***************************************************************************)
(* Close never makes the loop take the closed socket for a fatal error:    *)
(* s.closed is set before the socket is closed (udp_server.go:33-50).      *)
(***************************************************************************)
THEOREM UserCloseIsNotFatal == SimSpec => []NoFatalOnUserClose
  BY SimInvariant, PTL DEF SimInv, CloseInv

-----------------------------------------------------------------------------
(* The simulator implements ByteMemory *)

\* For ByteMemory's operators, which say the same in its own words
LEMMA SameTerms ==
  ASSUME NEW r \in Request
  PROVE  /\ Memories!First(r) = FirstByte(r) /\ Memories!Extent(r) = NeedsBytes(r)
         /\ Wild(r) => Memories!Overflows(r)
         /\ Memories!Exists(r) <=> /\ r.area \in {"DMWord", "DMBit"}
                                  /\ FirstByte(r) + NeedsBytes(r) <= DM_AREA_SIZE
  <1>1. Memories!First(r) = FirstByte(r) /\ Memories!Extent(r) = NeedsBytes(r)
    BY DEF Memories!First, Memories!Extent, FirstByte, NeedsBytes
  <1>2. Wild(r) => Memories!Overflows(r)
    BY <1>1, FieldsOf, Widths DEF Wild, Memories!Overflows
  <1>3. QED
    BY <1>1, <1>2 DEF Memories!Exists

\* n bytes of m at "from" overwritten by a request with data.
LEMMA CopiedIsStored ==
  ASSUME SrvTypeOK, PendingInv, at = "handle", NEW m \in Memory,
         NEW first \in Nat, NEW n \in Nat, first + n <= DM_AREA_SIZE, n <= BufLen
  PROVE  LET new == Copied(m, first, first + n)
             sent == IF Len(req.data) < n THEN Len(req.data) ELSE n
         IN  /\ new \in Memory
             /\ Memories!Contents(new, first, sent) = Memories!Contents(req.data, 1, sent)
             /\ Memories!Unchanged(m, new, first, n)
  <1> DEFINE new == Copied(m, first, first + n)
             sent == IF Len(req.data) < n THEN Len(req.data) ELSE n
  <1>1. new \in Memory
    BY CopiedIsMemory DEF SrvTypeOK, SimulatorAssumption
  <1>2. Len(req.data) \in Nat
    BY FieldsOf DEF SrvTypeOK
  <1>3. sent \in Nat /\ sent <= n /\ sent <= Len(req.data)
    BY <1>2
  <1>4. ASSUME NEW i \in 1 .. sent
        PROVE  new[first + i - 1] = req.data[i]
    <2>1. first + i - 1 \in 0 .. DM_AREA_SIZE - 1 /\ i \in 1 .. BufLen /\ i <= Len(req.data)
      BY <1>3, Widths DEF SimulatorAssumption
    <2>2. new[first + i - 1] = buf[(first + i - 1) - first + 1]
      BY <1>3, <2>1, Widths DEF Copied, Memory
    <2>3. (first + i - 1) - first + 1 = i
      BY <1>3
    <2>4. QED
      BY <2>1, <2>2, <2>3 DEF PendingInv
  <1>5. Memories!Contents(new, first, sent) = Memories!Contents(req.data, 1, sent)
    <2>1. \A i \in 1 .. sent : 1 + i - 1 = i
      BY <1>3
    <2>2. QED
      BY <1>4, <2>1 DEF Memories!Contents
  <1>6. Memories!Unchanged(m, new, first, n)
    BY Widths DEF Memories!Unchanged, Copied, Memory
  <1>7. QED
    BY <1>1, <1>5, <1>6

\* Access to the memory m that the request is about, in a request that is not Wild.
LEMMA TameAccess ==
  ASSUME SrvTypeOK, PendingInv, at = "handle", ~Wild(req), req.code # "other",
         NEW m \in Memory, NEW n, NEW from,
         n = NeedsBytes(req), from = FirstByte(req),
         Wrap(from + n) = FirstByte(req) + NeedsBytes(req),
         \/ req.area = "DMWord" /\ m = dmarea
         \/ req.area = "DMBit" /\ m = bitdmarea,
         Access(m, n, from), UNCHANGED req
  PROVE  Memories!Fetch \/ Memories!Store \/ UNCHANGED Memories!vars
  <1>1. /\ req \in Request /\ from \in Nat /\ n \in Nat
        /\ req.code \in {"read", "write", "other"}
    BY FieldsOf DEF SrvTypeOK
  <1>2. CASE Panic
    BY <1>2 DEF Panic, memVars, Memories!vars
  <1>3. CASE ~Panic
    <2>1. Sliceable(from, from + n) /\ (req.code = "write" => n <= BufLen)
      BY <1>3 DEF Access
    <2>2. from + n <= DM_AREA_SIZE
      BY <2>1 DEF Sliceable
    <2>3. Memories!Exists(req) /\ Memories!First(req) = from /\ Memories!Extent(req) = n
      BY <1>1, <2>2, SameTerms
    <2>4. CASE req.code = "read"
      <3>1. Respond("normal", Slice(m, from, from + n)) /\ UNCHANGED memVars
        BY <1>3, <2>4 DEF Access
      <3>2. Slice(m, from, from + n) = Memories!Contents(m, from, n)
        BY <1>1 DEF Slice, Memories!Contents
      <3>3. m = IF req.area = "DMWord" THEN dmarea ELSE bitdmarea
        OBVIOUS
      <3>4. Memories!Fetch
        BY <2>3, <2>4, <3>1, <3>2, <3>3 DEF Memories!Fetch, Respond, memVars
      <3>5. QED
        BY <3>4
    <2>5. CASE req.code = "write"
      <3>1. /\ Respond("normal", <<>>)
            /\ \/ req.area = "DMWord" /\ dmarea' = Copied(m, from, from + n) /\ UNCHANGED bitdmarea
               \/ req.area = "DMBit" /\ bitdmarea' = Copied(m, from, from + n) /\ UNCHANGED dmarea
        BY <1>3, <2>5 DEF Access
      <3>2. LET new == Copied(m, from, from + n)
                sent == IF Len(req.data) < n THEN Len(req.data) ELSE n
            IN  /\ new \in Memory
                /\ Memories!Contents(new, from, sent) = Memories!Contents(req.data, 1, sent)
                /\ Memories!Unchanged(m, new, from, n)
        BY <1>1, <2>1, <2>2, <2>5, CopiedIsStored
      <3>3. Memories!Store
        BY <2>3, <2>5, <3>1, <3>2 DEF Memories!Store, Respond, Memory
      <3>4. QED
        BY <3>3
    <2>6. QED
      BY <1>1, <2>4, <2>5
  <1>4. QED
    BY <1>2, <1>3

\* Of a Wild request nothing is promised but that a read changes no memory.
LEMMA WildAccess ==
  ASSUME SrvTypeOK, Wild(req), req.code # "other",
         NEW m \in Memory, NEW n \in Nat, NEW from \in Nat,
         Access(m, n, from), UNCHANGED req
  PROVE  Memories!Muddle \/ UNCHANGED Memories!vars
  <1>1. CASE Panic
    BY <1>1 DEF Panic, memVars, Memories!vars
  <1>2. CASE ~Panic
    <2>1. /\ reply'.end = "normal"
          /\ req.code = "read" => UNCHANGED memVars
      BY <1>2 DEF Access, Respond
    <2>2. dmarea' \in Memory /\ bitdmarea' \in Memory
      BY AccessType
    <2>3. Memories!Overflows(req)
      BY SameTerms DEF SrvTypeOK
    <2>4. QED
      BY <2>1, <2>2, <2>3 DEF Memories!Muddle, Memory, memVars
  <1>3. QED
    BY <1>1, <1>2

LEMMA RefusedIsRefused ==
  ASSUME SrvTypeOK, HandleBeyond \/ HandleUnsupported, UNCHANGED req
  PROVE  Memories!Refuse \/ Memories!Muddle
  <1>1. req \in Request /\ dmarea \in Memory /\ bitdmarea \in Memory
    BY DEF SrvTypeOK
  <1>2. \E end \in {"range", "unsupported"} :
          reply' = [end |-> end, data |-> <<>>] /\ UNCHANGED memVars
    BY DEF HandleBeyond, HandleUnsupported, Respond
  <1>3. ASSUME req.code = "other" \/ ~Memories!Exists(req)
        PROVE  Memories!Refuse
    BY <1>2, <1>3 DEF Memories!Refuse, memVars
  <1>4. CASE HandleUnsupported
    <2>1. req.code = "other" \/ ~Memories!Exists(req)
      BY <1>4 DEF HandleUnsupported, Memories!Exists
    <2>2. QED
      BY <1>3, <2>1
  <1>5. CASE HandleBeyond /\ ~Wild(req)
    <2>1. /\ FirstByte(req) \in Nat /\ NeedsBytes(req) \in Nat /\ req.address \in Nat
          /\ req.bit \in Nat /\ req.count \in Nat
      BY <1>1, FieldsOf
    <2>2. FirstByte(req) + NeedsBytes(req) > DM_AREA_SIZE
      <3>1. CASE req.area = "DMWord" /\ Beyond(Wrap(req.count * 2))
        BY <1>1, <1>5, <3>1, TameWords DEF Beyond
      <3>2. CASE req.area = "DMBit" /\ Beyond(req.count)
        <4>1. req.address + req.count > DM_AREA_SIZE
          BY <1>1, <1>5, <3>2, TameBits DEF Beyond
        <4>2. QED
          BY <2>1, <3>2, <4>1, Widths DEF FirstByte, NeedsBytes
      <3>3. QED
        BY <1>5, <3>1, <3>2 DEF HandleBeyond
    <2>3. ~Memories!Exists(req)
      BY <1>1, <2>1, <2>2, SameTerms, Widths
    <2>4. QED
      BY <1>3, <2>3
  <1>6. CASE HandleBeyond /\ Wild(req)
    <2>1. req.code # "other" /\ reply'.end = "range" /\ UNCHANGED memVars
      BY <1>6 DEF HandleBeyond, Respond
    <2>2. Memories!Muddle
      BY <1>1, <1>6, <2>1, SameTerms DEF Memories!Muddle, memVars, Memory
    <2>3. QED
      BY <2>2
  <1>7. QED
    BY <1>4, <1>5, <1>6

LEMMA HandleIsAllowed ==
  ASSUME SimInv, Handle
  PROVE  [Memories!Next]_(Memories!vars)
  <1>1. /\ req \in Request /\ dmarea \in Memory /\ bitdmarea \in Memory
        /\ at = "handle" /\ SrvTypeOK /\ PendingInv /\ UNCHANGED req
    BY DEF SimInv, SrvTypeOK, Handle
  <1>2. req.address \in Nat /\ req.bit \in Nat /\ req.count \in Nat
    BY <1>1, FieldsOf
  <1>3. Wrap(req.count * 2) \in Nat /\ Wrap(req.address + req.bit) \in Nat
    <2>1. req.count * 2 \in Nat /\ req.address + req.bit \in Nat
      BY <1>2
    <2>2. QED
      BY <2>1, WrapIs
  <1>4. reply = Memories!NoAnswer
    BY <1>1 DEF PendingInv, NoAnswer, Memories!NoAnswer
  <1>5. CASE HandleWords
    <2>1. /\ req.code # "other" /\ req.area = "DMWord"
          /\ Access(dmarea, Wrap(req.count * 2), req.address)
      BY <1>5 DEF HandleWords
    <2>2. CASE Wild(req)
      BY <1>1, <1>2, <1>3, <1>4, <2>1, <2>2, WildAccess DEF Memories!Next
    <2>3. CASE ~Wild(req)
      <3>1. /\ Wrap(req.count * 2) = NeedsBytes(req) /\ req.address = FirstByte(req)
            /\ Wrap(req.address + Wrap(req.count * 2)) = FirstByte(req) + NeedsBytes(req)
        BY <1>1, <2>1, <2>3, TameWords DEF FirstByte
      <3>2. Memories!Fetch \/ Memories!Store \/ UNCHANGED Memories!vars
        BY <1>1, <2>1, <2>3, <3>1, TameAccess
      <3>3. QED
        BY <1>4, <3>2 DEF Memories!Next
    <2>4. QED
      BY <2>2, <2>3
  <1>6. CASE HandleBits
    <2>1. /\ req.code # "other" /\ req.area = "DMBit"
          /\ Access(bitdmarea, req.count, Wrap(req.address + req.bit))
      BY <1>6 DEF HandleBits
    <2>2. CASE Wild(req)
      BY <1>1, <1>2, <1>3, <1>4, <2>1, <2>2, WildAccess DEF Memories!Next
    <2>3. CASE ~Wild(req)
      <3>1. /\ req.count = NeedsBytes(req) /\ Wrap(req.address + req.bit) = FirstByte(req)
            /\ Wrap(Wrap(req.address + req.bit) + req.count) = FirstByte(req) + NeedsBytes(req)
        BY <1>1, <2>1, <2>3, TameBits DEF NeedsBytes
      <3>2. Memories!Fetch \/ Memories!Store \/ UNCHANGED Memories!vars
        BY <1>1, <2>1, <2>3, <3>1, TameAccess
      <3>3. QED
        BY <1>4, <3>2 DEF Memories!Next
    <2>4. QED
      BY <2>2, <2>3
  <1>7. CASE HandleBeyond \/ HandleUnsupported
    BY <1>1, <1>4, <1>7, RefusedIsRefused DEF Memories!Next
  <1>8. QED
    BY <1>5, <1>6, <1>7 DEF Handle

(***************************************************************************)
(* The simulator implements ByteMemory: whatever is sent to it and in      *)
(* whatever order, a request it answers with normal completion has read or *)
(* written the bytes it names and no others, one it refuses has changed    *)
(* nothing and named a byte that is not there (udp_server.go:56-104), but  *)
(* for the requests whose numbers overflow.                                *)
(***************************************************************************)
THEOREM SimulatorKeepsMemory == SimSpec => KeepsMemory
  <1>1. SrvInit => Memories!Init
    BY InitInv DEF SrvInit, SimInv, SrvTypeOK, Memories!Init, NoAnswer, Memories!NoAnswer
  <1>2. SimInv /\ [SimNext]_srvVars => [Memories!Next]_(Memories!vars)
    <2> SUFFICES ASSUME SimInv, [SimNext]_srvVars
                 PROVE  [Memories!Next]_(Memories!vars)
      OBVIOUS
    <2>1. CASE Handle
      BY <2>1, HandleIsAllowed
    <2>2. ASSUME NEW r \in Request, ReceiveRequest(r)
          PROVE  [Memories!Next]_(Memories!vars)
      BY <2>2 DEF ReceiveRequest, Memories!Next, Memories!Arrive, NoAnswer, Memories!NoAnswer,
                  memVars
    <2>3. CASE SendReply \/ LoopFails \/ SetServerClosed \/ CloseServerSocket \/ ReceiveShort
      BY <2>3 DEF SendReply, LoopFails, SetServerClosed, CloseServerSocket, ReceiveShort,
                  memVars, loopVars, Memories!vars
    <2>4. CASE UNCHANGED srvVars
      BY <2>4 DEF srvVars, memVars, loopVars, Memories!vars
    <2>5. QED
      BY <2>1, <2>2, <2>3, <2>4 DEF SimNext, ServerStep
  <1>3. QED
    BY <1>1, <1>2, SimInvariant, PTL DEF SimSpec, KeepsMemory, Memories!Spec
=============================================================================
