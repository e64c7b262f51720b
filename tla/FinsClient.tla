---------------------------- MODULE FinsClient ----------------------------
(***************************************************************************)
(* What the clients of client_udp.go and client_tcp.go have in common: the *)
(* application goroutines inside an operation (Callers) and the part of    *)
(* the listenLoop goroutine that hands responses to them.  The modules     *)
(* UdpClient and TcpClient add the transport and the PLC.  (The two files  *)
(* repeat this code line for line; "map" gives the lines of one of them.)  *)
(*                                                                         *)
(* Every operation is the same sequence of steps: take c.mu (two of them   *)
(* do not), perhaps refuse the memory area, then sendCommand: take the     *)
(* next service id, make a fresh channel in that id's cell of c.resp,      *)
(* write the request, look the cell up again and wait on the channel found *)
(* there, with or without a timeout.  The goroutines interleave between    *)
(* any two of these steps.  The listener looks up the cell of the service  *)
(* id a response carries and blocks until that channel is read.            *)
(*                                                                         *)
(* Operators named Slip... are not part of the specification: each is what *)
(* the definition after it would be with one plausible mistake, to see     *)
(* that a property notices.                                                *)
(***************************************************************************)
EXTENDS Naturals, FiniteSets

CONSTANTS
  Callers,    \* application goroutines sharing one client
  NSid,       \* number of service ids; 256 in the code, where a sid is a byte
  Ops,        \* the operations the application uses, a subset of OpKinds
  Timeouts,   \* is responseTimeoutMs positive? the values SetTimeoutMs leaves
  EndCodes,   \* the end codes of the PLC's answers, a subset of EndCodeKinds
  Faults,     \* what transport, PLC and application may do, a subset of FaultKinds
  MaxReq,     \* bound on the requests one client issues, for model checking
  NoCaller    \* the owner of a free c.mu

(***************************************************************************)
(* The operations that differ in how they get to sendCommand:              *)
(*   typed   ReadInt16 ... ReadFloat32, ReadBits, ReadClock, the Writes    *)
(*   words   ReadWords and WriteWords, which refuse some memory areas      *)
(*   string  ReadString, which holds c.mu and calls ReadBytes              *)
(*   bytes   ReadBytes on its own, which takes no lock                     *)
(*   float   WriteFloat32, which takes no lock and refuses nothing         *)
(***************************************************************************)
OpKinds == {"typed", "words", "string", "bytes", "float"}
EndCodeKinds == {"normal", "error"}
FaultKinds ==
  {"close",                                       \* the application closes the client
   "loss", "duplicate", "refuse", "leftover",     \* UDP, see UdpClient
   "silent", "decline", "stall", "hangup",        \* TCP, see TcpClient
   "coalesce", "split"}

ASSUME ConstantsAssumption ==
  /\ NSid \in Nat \ {0}
  /\ Ops \subseteq OpKinds
  /\ Timeouts \subseteq BOOLEAN
  /\ "normal" \in EndCodes /\ EndCodes \subseteq EndCodeKinds
  /\ Faults \subseteq FaultKinds
  /\ MaxReq \in Nat
  /\ NoCaller \notin Callers

TakesLock(k) == k \notin {"bytes", "float"}
ChecksArea(k) == k \in {"words", "string", "bytes"}

VARIABLES
  mu,         \* owner of c.mu
  sid,        \* c.sid
  resp,       \* c.resp: the channel in each cell, NilChan before the first make
  timed,      \* c.responseTimeoutMs > 0
  closed,     \* c.closed
  connOpen,   \* c.conn has not been closed
  pc,         \* where each caller is
  op,         \* the operation it is in
  header,     \* its request header: the service id, and which request it is
  chan,       \* the channel its select or receive reads
  result,     \* what its last operation returned
  listener,   \* listenLoop: reading, holding or sending a response, or gone
  complained, \* listenLoop has logged that the connection is closed
  issued,     \* ghost: number of requests that took a service id
  reused      \* ghost: a request took the service id of a call still in progress

clientVars == <<mu, sid, resp, timed, closed, connOpen, issued, reused>>
callVars == <<pc, op, header, chan, result>>
listenVars == <<listener, complained>>
coreVars == <<clientVars, callVars, listenVars>>

(***************************************************************************)
(* Requests are numbered 1, 2, ... in the order they take a service id.    *)
(* A channel has the number of the request it was made for; no request has *)
(* number 0, the number of the nil channel and of a response to a former   *)
(* client on the same port.                                                *)
(***************************************************************************)
Sids == 0 .. NSid - 1
NilChan == 0
Foreign == 0

Header == [sid : Sids, req : Nat]
Response == [sid : Sids, req : Nat, end : EndCodes]

Reading == [at |-> "read"]
Stopped == [at |-> "stopped"]
Decoded(m) == [at |-> "lookup", msg |-> m, chan |-> NilChan]
Sending(m, ch) == [at |-> "send", msg |-> m, chan |-> ch]

Pcs == {"idle", "lock", "enter", "cell", "write", "select", "wait", "block"}
InProgress == {"cell", "write", "select", "wait", "block"}
Outcomes == {"none", "ok", "endcode", "timeout", "neterror", "badarea"}
NoResult == [kind |-> "none", got |-> Foreign]

CoreTypeOK ==
  /\ mu \in Callers \cup {NoCaller}
  /\ sid \in Sids
  /\ resp \in [Sids -> Nat]
  /\ timed \in BOOLEAN
  /\ closed \in BOOLEAN
  /\ connOpen \in BOOLEAN
  /\ pc \in [Callers -> Pcs]
  /\ op \in [Callers -> OpKinds \cup {"none"}]
  /\ header \in [Callers -> Header]
  /\ chan \in [Callers -> Nat]
  /\ result \in [Callers -> [kind : Outcomes, got : Nat]]
  /\ \/ listener \in {Reading, Stopped}
     \/ listener \in [at : {"lookup", "send"}, msg : Response, chan : Nat]
  /\ complained \in BOOLEAN
  /\ issued \in Nat
  /\ reused \in BOOLEAN

(***************************************************************************)
(* NewUdpClient or NewTcpClient, then the application's SetTimeoutMs if it *)
(* calls it before its first operation.                                    *)
(***************************************************************************)
CoreInit ==
  /\ mu = NoCaller
  /\ sid = 0
  /\ resp = [s \in Sids |-> NilChan]
  /\ timed \in Timeouts
  /\ closed = FALSE
  /\ connOpen = TRUE
  /\ pc = [c \in Callers |-> "idle"]
  /\ op = [c \in Callers |-> "none"]
  /\ header = [c \in Callers |-> [sid |-> 0, req |-> 0]]
  /\ chan = [c \in Callers |-> NilChan]
  /\ result = [c \in Callers |-> NoResult]
  /\ listener = Reading
  /\ complained = FALSE
  /\ issued = 0
  /\ reused = FALSE

-----------------------------------------------------------------------------
(* Operations *)

Goto(c, l) == pc' = [pc EXCEPT ![c] = l]

\* Returning runs the deferred c.mu.Unlock() of the operations that locked it.
Unlocked(c) == IF mu = c THEN NoCaller ELSE mu

Return(c, kind, got) ==
  /\ Goto(c, "idle")
  /\ result' = [result EXCEPT ![c] = [kind |-> kind, got |-> got]]
  /\ mu' = Unlocked(c)
  /\ op' = [op EXCEPT ![c] = "none"]
  /\ chan' = [chan EXCEPT ![c] = NilChan]
  /\ UNCHANGED <<header, sid, resp, timed, closed, connOpen, issued, reused>>

\* Bound: the calls that may still take a service id are at most MaxReq.
BelowMaxReq ==
  issued + Cardinality({c \in Callers : pc[c] \in {"lock", "enter"}}) < MaxReq

Call(c, k) ==
  /\ pc[c] = "idle"
  /\ BelowMaxReq
  /\ op' = [op EXCEPT ![c] = k]
  /\ result' = [result EXCEPT ![c] = NoResult]
  /\ Goto(c, IF TakesLock(k) THEN "lock" ELSE "enter")
  /\ UNCHANGED <<header, chan, clientVars, listenVars>>

\* Slip: the lock does not exclude.
SlipLockTaken(c) ==
  /\ pc[c] = "lock"
  /\ mu' = c
  /\ Goto(c, "enter")
  /\ UNCHANGED <<op, header, chan, result, sid, resp, timed, closed, connOpen>>
  /\ UNCHANGED <<issued, reused, listenVars>>

Lock(c) ==
  /\ pc[c] = "lock"
  /\ mu = NoCaller
  /\ mu' = c
  /\ Goto(c, "enter")
  /\ UNCHANGED <<op, header, chan, result, sid, resp, timed, closed, connOpen>>
  /\ UNCHANGED <<issued, reused, listenVars>>

\* Slip: the early return forgets the lock.
SlipRejectAreaKeepsLock(c) ==
  /\ pc[c] = "enter"
  /\ ChecksArea(op[c])
  /\ Goto(c, "idle")
  /\ result' = [result EXCEPT ![c] = [kind |-> "badarea", got |-> Foreign]]
  /\ op' = [op EXCEPT ![c] = "none"]
  /\ UNCHANGED <<header, chan, clientVars, listenVars>>

\* checkIsWordMemoryArea failed: IncompatibleMemoryAreaError, nothing is sent.
RejectArea(c) ==
  /\ pc[c] = "enter"
  /\ ChecksArea(op[c])
  /\ Return(c, "badarea", Foreign)
  /\ UNCHANGED listenVars

\* Slips: the id wraps one too early, or is not a byte.
SlipEarlyWrap(s) == (s + 1) % (NSid - 1)
SlipNoWrap(s) == s + 1

\* c.sid++ on a byte.
NextSid(s) == IF s = NSid - 1 THEN 0 ELSE s + 1

SidInUse(s) == \E c \in Callers : pc[c] \in InProgress /\ header[c].sid = s

\* Slip: the cell is not given a new channel.
SlipTakeSidKeepsCell(c) ==
  /\ pc[c] = "enter"
  /\ sid' = NextSid(sid)
  /\ issued' = issued + 1
  /\ header' = [header EXCEPT ![c] = [sid |-> sid', req |-> issued']]
  /\ reused' = (reused \/ SidInUse(sid'))
  /\ Goto(c, "write")
  /\ UNCHANGED <<op, chan, result, mu, resp, timed, closed, connOpen, listenVars>>

\* incrementSid up to c.Unlock(): the embedded mutex makes this one step.
TakeSid(c) ==
  /\ pc[c] = "enter"
  /\ sid' = NextSid(sid)
  /\ issued' = issued + 1
  /\ header' = [header EXCEPT ![c] = [sid |-> sid', req |-> issued']]
  /\ reused' = (reused \/ SidInUse(sid'))
  /\ Goto(c, "cell")
  /\ UNCHANGED <<op, chan, result, mu, resp, timed, closed, connOpen, listenVars>>

\* "clearing cell of storage for new response", after c.Unlock().
MakeCell(c) ==
  /\ pc[c] = "cell"
  /\ resp' = [resp EXCEPT ![header[c].sid] = header[c].req]
  /\ Goto(c, "write")
  /\ UNCHANGED <<op, header, chan, result, mu, sid, timed, closed, connOpen>>
  /\ UNCHANGED <<issued, reused, listenVars>>

\* c.conn.Write accepts the request; the transport's module says what becomes of it.
WriteReturns(c) ==
  /\ pc[c] = "write"
  /\ connOpen
  /\ Goto(c, "select")
  /\ UNCHANGED <<op, header, chan, result, clientVars, listenVars>>

\* c.conn.Write returns an error.
WriteError(c) ==
  /\ pc[c] = "write"
  /\ Return(c, "neterror", Foreign)
  /\ UNCHANGED listenVars

\* Slip: the cell of the client's latest service id, not of the request's.
SlipEnterSelect(c) ==
  /\ pc[c] = "select"
  /\ chan' = [chan EXCEPT ![c] = resp[sid]]
  /\ Goto(c, IF timed THEN "wait" ELSE "block")
  /\ UNCHANGED <<op, header, result, clientVars, listenVars>>

\* responseTimeoutMs and c.resp[sid] are read again, without a lock.
EnterSelect(c) ==
  /\ pc[c] = "select"
  /\ chan' = [chan EXCEPT ![c] = resp[header[c].sid]]
  /\ Goto(c, IF timed THEN "wait" ELSE "block")
  /\ UNCHANGED <<op, header, result, clientVars, listenVars>>

\* The unbuffered channel hands the response over: the listener and the caller
\* step together, the listener goes back to Read and checkResponse decides.
Receive(c) ==
  /\ pc[c] \in {"wait", "block"}
  /\ listener.at = "send"
  /\ listener.chan = chan[c]
  /\ chan[c] # NilChan
  /\ Return(c, IF listener.msg.end = "normal" THEN "ok" ELSE "endcode",
            listener.msg.req)
  /\ listener' = Reading
  /\ UNCHANGED complained

\* time.After fires; the select may take it even if a sender is waiting too.
Timeout(c) ==
  /\ pc[c] = "wait"
  /\ Return(c, "timeout", Foreign)
  /\ UNCHANGED listenVars

SetTimeoutMs(b) ==
  /\ timed # b
  /\ timed' = b
  /\ UNCHANGED <<mu, sid, resp, closed, connOpen, issued, reused, callVars, listenVars>>

-----------------------------------------------------------------------------
(* Close *)

\* Slip: the socket is closed before c.closed is set.
SlipCloseSocketFirst ==
  /\ "close" \in Faults
  /\ connOpen
  /\ connOpen' = FALSE
  /\ UNCHANGED <<mu, sid, resp, timed, closed, issued, reused, callVars, listenVars>>

SetClosed ==
  /\ "close" \in Faults
  /\ ~closed
  /\ closed' = TRUE
  /\ UNCHANGED <<mu, sid, resp, timed, connOpen, issued, reused, callVars, listenVars>>

CloseSocket ==
  /\ closed
  /\ connOpen
  /\ connOpen' = FALSE
  /\ UNCHANGED <<mu, sid, resp, timed, closed, issued, reused, callVars, listenVars>>

-----------------------------------------------------------------------------
(* listenLoop *)

\* Slip: off by one.
SlipCellFor(s) == NextSid(s)

\* The cell of c.resp the listener sends a response to.
CellFor(s) == s

\* A Read that yields the response m, decoded.
Decode(m) ==
  /\ listener = Reading
  /\ connOpen
  /\ listener' = Decoded(m)
  /\ UNCHANGED <<clientVars, callVars, complained>>

\* c.resp[ans.header.serviceID] is read without a lock; the send then blocks.
ListenLookup ==
  /\ listener.at = "lookup"
  /\ listener' = Sending(listener.msg, resp[CellFor(listener.msg.sid)])
  /\ UNCHANGED <<clientVars, callVars, complained>>

\* Any error of Read ends the loop; it is logged unless the user closed the client.
GiveUp ==
  /\ listener = Reading
  /\ listener' = Stopped
  /\ complained' = (complained \/ ~closed)
  /\ UNCHANGED <<clientVars, callVars>>

-----------------------------------------------------------------------------
\* The steps of a caller but for its Write, which is the transport's.
CallerStep(c) ==
  \/ TakeSid(c) \/ MakeCell(c) \/ EnterSelect(c) \/ Receive(c) \/ Timeout(c)
  \/ RejectArea(c)

Close == SetClosed \/ CloseSocket
Quiet == \A c \in Callers : pc[c] = "idle"

\* Steps that neither the transport nor the PLC takes part in.
CoreStep ==
  \/ \E c \in Callers : (\E k \in Ops : Call(c, k)) \/ Lock(c) \/ CallerStep(c)
  \/ \E b \in Timeouts : SetTimeoutMs(b)
  \/ ListenLookup
  \/ Close

-----------------------------------------------------------------------------
(* Properties *)

\* The channel a caller in progress reads, or would read if it went on now.
ChannelOf(c) == IF pc[c] = "select" THEN resp[header[c].sid] ELSE chan[c]

CanTake(c) ==
  /\ pc[c] \in {"select", "wait", "block"}
  /\ header[c].req = listener.msg.req
  /\ ChannelOf(c) = listener.chan
  /\ listener.chan # NilChan

(***************************************************************************)
(* What sendCommand returns is the answer to the very request it sent,     *)
(* unless the service ids went all the way round between the two requests  *)
(* or the answer is to nobody's request (one meant for a former client, or *)
(* the middle of a TCP frame taken for one): whatever is lost, late,       *)
(* duplicated or reordered, a sid is as good as a request number within    *)
(* 256 requests.                                                           *)
(***************************************************************************)
AnswerBelongsToCall ==
  \A c \in Callers :
    result[c].kind \in {"ok", "endcode"} =>
      LET asked == header[c].req
          got   == result[c].got
      IN  \/ got = asked
          \/ asked + NSid <= got \/ got + NSid <= asked
          \/ got = Foreign /\ Faults \cap {"leftover", "split"} # {}

(***************************************************************************)
(* sendCommand looks its channel up again when it comes to wait.  What it  *)
(* finds is the channel incrementSid made for this very request, or one    *)
(* that another call, whose id is the same because the ids went all the    *)
(* way round between the two, has put into the cell meanwhile; never the   *)
(* channel of another recent request, and never none.                      *)
(***************************************************************************)
WaitsOnOwnChannel ==
  \A c \in Callers :
    pc[c] \in {"wait", "block"} =>
      LET own == header[c].req
      IN  /\ chan[c] # NilChan
          /\ chan[c] = own \/ own + NSid <= chan[c] \/ chan[c] + NSid <= own

(***************************************************************************)
(* When the listener blocks on the answer to a call still in progress, it  *)
(* blocks on the channel that call reads: the cell was made before the     *)
(* request was written and is still the same.   So long as no service id   *)
(* is taken by two calls at once, listenLoop can only get stuck on an      *)
(* answer nobody wants any more.                                           *)
(***************************************************************************)
HeldAnswerCanBeTaken ==
  ~reused /\ listener.at = "send" =>
    \A c \in Callers :
      pc[c] \in InProgress /\ header[c].req = listener.msg.req => CanTake(c)

(***************************************************************************)
(* With responseTimeoutMs = 0 and a transport that duplicates nothing,     *)
(* every response the listener holds has a caller that takes it:           *)
(* listenLoop is never stuck.  (With a timeout it can be: see              *)
(* ClearedCellFreesListener of UdpClient.)                                 *)
(***************************************************************************)
ListenerNeverStuck ==
  /\ Timeouts = {FALSE}
  /\ Faults \cap {"duplicate", "leftover", "split"} = {}
  /\ ~reused
  /\ listener.at = "send"
  => \E c \in Callers : CanTake(c)

(***************************************************************************)
(* An application that keeps to the operations that hold c.mu never has    *)
(* two calls share a cell of c.resp, however often the sids wrap: at most  *)
(* one of them is past incrementSid, timeouts and errors included.         *)
(***************************************************************************)
LockedCallsShareNoCell ==
  (\A k \in Ops : TakesLock(k)) => ~reused

(***************************************************************************)
(* Every operation returns.  With a positive timeout this holds whatever   *)
(* the network does, also when listenLoop is stuck or gone and when the    *)
(* service ids run out; with timeout 0 it needs a network and a PLC that   *)
(* lose and refuse nothing, and ids that no two calls hold at once.        *)
(***************************************************************************)
EveryCallReturns ==
  \A c \in Callers : pc[c] # "idle" ~> (pc[c] = "idle" \/ (reused /\ ~timed))
=============================================================================
