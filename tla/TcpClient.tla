----------------------------- MODULE TcpClient -----------------------------
(***************************************************************************)
(* The client of client_tcp.go: FinsClient over a byte stream of FINS/TCP  *)
(* frames.  NewTcpClient sends a handshake frame, whose reply tells the    *)
(* PLC's node address, and does not wait for the reply; requests carry the *)
(* node address the client has when it makes their header.                 *)
(*                                                                         *)
(* listenLoop takes what one Read returns for one frame.  TCP promises no  *)
(* such thing: a Read may return several frames together ("coalesce") or a *)
(* piece of one ("split"), and a new bufio.Reader each time round keeps    *)
(* nothing back.  What each case does is what the parsing of the 2048-byte *)
(* buffer, zero after the bytes read, comes to: see ReadSeveral, ReadPiece *)
(* and ReadRest.  No frame of the PLC is larger than this buffer.          *)
(*                                                                         *)
(* Either direction of the connection holds a Window of frames; whoever    *)
(* writes more blocks until the other side reads, and a client's Write has *)
(* no deadline.                                                            *)
(***************************************************************************)
EXTENDS FinsClient, Sequences

CONSTANT Window

ASSUME TcpAssumption ==
  /\ Faults \subseteq {"close", "silent", "decline", "stall", "hangup", "coalesce", "split"}
  /\ Window \in Nat \ {0}

VARIABLES
  node,         \* c.dst.node, of which it matters only where it came from
  dest,         \* the node in each caller's request header, "none" until it is made
  toPlc,        \* frames on the way to the PLC
  fromPlc,      \* frames, and what is left of one, on the way to the client
  peerOpen,     \* the PLC has not closed the connection
  stalled,      \* the PLC has stopped reading
  panicked,     \* an index out of range in listenLoop has ended the program
  lengthBlamed, \* "TCP长度错误" was logged of a frame whose length is right
  declined,     \* ghost: the PLC did not answer the handshake with its node
  heard         \* ghost: listenLoop has decoded a response

streamVars == <<node, dest, toPlc, fromPlc, peerOpen, stalled, panicked, lengthBlamed,
                declined, heard>>
vars == <<coreVars, streamVars>>

Nodes == {"configured", "assigned", "zero", "garbage"}

Handshake == [kind |-> "handshake"]
NodeReply == [kind |-> "node"]
Request(h, n) == [kind |-> "request", header |-> h, node |-> n]
Answer(m) == [kind |-> "answer", msg |-> m]
Void == [kind |-> "void"]       \* its error code is not 0, or its command neither 0 nor 2
Remainder == [kind |-> "rest"]  \* the stream goes on in the middle of a frame

IsOutgoing(f) ==
  f = Handshake \/ (f.kind = "request" /\ f.header \in Header /\ f.node \in Nodes)
IsIncoming(f) ==
  \/ f \in {NodeReply, Void}
  \/ f.kind = "answer" /\ f.msg \in Response
  \/ f = Remainder /\ "split" \in Faults

TypeOK ==
  /\ CoreTypeOK
  /\ node \in Nodes
  /\ dest \in [Callers -> Nodes \cup {"none"}]
  /\ \A i \in DOMAIN toPlc : IsOutgoing(toPlc[i])
  /\ \A i \in DOMAIN fromPlc : IsIncoming(fromPlc[i])
  /\ {peerOpen, stalled, panicked, lengthBlamed, declined, heard} \subseteq BOOLEAN

\* NewTcpClient ignores the error of the handshake's Write: the PLC may be gone.
Init ==
  /\ CoreInit
  /\ node = "configured"
  /\ dest = [c \in Callers |-> "none"]
  /\ \/ toPlc = <<Handshake>> /\ peerOpen = TRUE
     \/ "hangup" \in Faults /\ toPlc = <<>> /\ peerOpen = FALSE
  /\ fromPlc = <<>>
  /\ stalled = FALSE
  /\ panicked = FALSE
  /\ lengthBlamed = FALSE
  /\ declined = FALSE
  /\ heard = FALSE

-----------------------------------------------------------------------------
(* Sending a request *)

\* nextHeader copies c.dst once incrementSid has returned, without a lock.
Address(c) ==
  /\ pc[c] = "write"
  /\ dest[c] = "none"
  /\ dest' = [dest EXCEPT ![c] = node]
  /\ UNCHANGED <<node, toPlc, fromPlc, peerOpen, stalled, panicked, lengthBlamed>>
  /\ UNCHANGED <<declined, heard, coreVars>>

Sent(c) ==
  /\ dest[c] # "none"
  /\ dest' = [dest EXCEPT ![c] = "none"]
  /\ UNCHANGED <<node, fromPlc, peerOpen, stalled, panicked, lengthBlamed, declined, heard>>

\* While the PLC holds the connection and its window is full, Write does not return.
Write(c) ==
  /\ Sent(c)
  /\ WriteReturns(c)
  /\ peerOpen => Len(toPlc) < Window
  /\ toPlc' = IF peerOpen THEN Append(toPlc, Request(header[c], dest[c])) ELSE toPlc

\* After the PLC hung up a Write may still be accepted, or not.
WriteFails(c) ==
  /\ Sent(c)
  /\ ~connOpen \/ ~peerOpen
  /\ WriteError(c)
  /\ UNCHANGED toPlc

-----------------------------------------------------------------------------
(* listenLoop: one Read and what is made of it *)

\* The stream after its first n pieces, and, if the last of them was cut, its rest.
After(n) ==
  LET left == SubSeq(fromPlc, n + 1, Len(fromPlc))
  IN  {left} \cup (IF "split" \in Faults THEN {<<Remainder>> \o left} ELSE {})

\* The first piece alone, or several.
Reach == 1 .. (IF "coalesce" \in Faults THEN Len(fromPlc) ELSE 1)

Reads ==
  /\ listener = Reading
  /\ connOpen
  /\ fromPlc # <<>>

SendingUnchanged == UNCHANGED <<dest, toPlc, peerOpen, stalled, declined>>

NothingDecoded == SendingUnchanged /\ UNCHANGED <<coreVars, heard>>

DecodeAnswer(m) == SendingUnchanged /\ Decode(m) /\ heard' = TRUE

\* Slip: the reply to the handshake is read, its node address is not kept.
SlipReadNode ==
  /\ Reads
  /\ Head(fromPlc) = NodeReply
  /\ fromPlc' = Tail(fromPlc)
  /\ NothingDecoded
  /\ UNCHANGED <<node, panicked, lengthBlamed>>

\* Exactly one frame, the handshake's reply (command 0).
ReadNode ==
  /\ Reads
  /\ Head(fromPlc) = NodeReply
  /\ node' = "assigned"
  /\ fromPlc' = Tail(fromPlc)
  /\ NothingDecoded
  /\ UNCHANGED <<panicked, lengthBlamed>>

\* Exactly one frame, a response (command 2).
ReadAnswer ==
  /\ Reads
  /\ Head(fromPlc).kind = "answer"
  /\ DecodeAnswer(Head(fromPlc).msg)
  /\ fromPlc' = Tail(fromPlc)
  /\ UNCHANGED <<node, panicked, lengthBlamed>>

\* Exactly one frame with an error code, which is logged, or with another command.
ReadVoid ==
  /\ Reads
  /\ Head(fromPlc) = Void
  /\ fromPlc' = Tail(fromPlc)
  /\ NothingDecoded
  /\ UNCHANGED <<node, panicked, lengthBlamed>>

\* A frame and more: length + 8 < n, so all that was read is thrown away (an
\* error code of the first frame is noticed before).
ReadSeveral ==
  /\ Reads
  /\ Head(fromPlc) # Remainder
  /\ \E n \in Reach \ {1} : fromPlc' \in After(n)
  /\ lengthBlamed' = TRUE \/ (Head(fromPlc) = Void /\ UNCHANGED lengthBlamed)
  /\ NothingDecoded
  /\ UNCHANGED <<node, panicked>>

\* The beginning of a frame.  Under 12 bytes of it the command reads as 0 and the
\* node, at byte 23, as 0, and so for any piece of the handshake's reply.  Of a
\* response under 30 bytes, or under 16 of one with an error code, slicing and
\* decodeResponse are out of range; from there on a response is taken without
\* the end of its data, and an error code or another command is noticed.
ReadPiece ==
  /\ "split" \in Faults
  /\ Reads
  /\ Head(fromPlc) # Remainder
  /\ fromPlc' = <<Remainder>> \o Tail(fromPlc)
  /\ \/ node' = "zero" /\ NothingDecoded /\ UNCHANGED panicked
     \/ /\ Head(fromPlc) # NodeReply
        /\ panicked' = TRUE /\ NothingDecoded /\ UNCHANGED node
     \/ /\ Head(fromPlc).kind = "answer"
        /\ DecodeAnswer(Head(fromPlc).msg)
        /\ UNCHANGED <<node, panicked>>
     \/ Head(fromPlc) = Void /\ NothingDecoded /\ UNCHANGED <<node, panicked>>
  /\ UNCHANGED lengthBlamed

\* The middle of a frame is read as the beginning of one: anything may come of it.
ReadRest ==
  /\ Reads
  /\ Head(fromPlc) = Remainder
  /\ \E n \in Reach : fromPlc' \in After(n)
  /\ \/ node' \in {node, "garbage"} /\ NothingDecoded /\ UNCHANGED panicked
     \/ panicked' = TRUE /\ NothingDecoded /\ UNCHANGED node
     \/ /\ \E s \in Sids, e \in EndCodes :
             DecodeAnswer([sid |-> s, req |-> Foreign, end |-> e])
        /\ UNCHANGED <<node, panicked>>
  /\ UNCHANGED lengthBlamed

\* The client is closed, or Read returns what the PLC's hanging up makes of it.
ListenFails ==
  /\ ~connOpen \/ ~peerOpen
  /\ GiveUp
  /\ UNCHANGED streamVars

-----------------------------------------------------------------------------
(* The PLC *)

\* What it may answer a frame with: its node or a response, or else ("decline")
\* a frame with an error code or with a command listenLoop does not know.
Replies(f) ==
  (IF f = Handshake THEN {NodeReply}
   ELSE {Answer([sid |-> f.header.sid, req |-> f.header.req, end |-> e]) : e \in EndCodes})
  \cup (IF "decline" \in Faults THEN {Void} ELSE {})

\* It handles the stream in order, a frame at a time when there is room to answer it.
Serve ==
  /\ peerOpen
  /\ ~stalled
  /\ toPlc # <<>>
  /\ Len(fromPlc) < Window
  /\ toPlc' = Tail(toPlc)
  /\ \/ \E f \in Replies(Head(toPlc)) : fromPlc' = Append(fromPlc, f)
     \/ "silent" \in Faults /\ UNCHANGED fromPlc
  /\ declined' = (declined \/ (Head(toPlc) = Handshake /\ fromPlc' # Append(fromPlc, NodeReply)))
  /\ UNCHANGED <<node, dest, peerOpen, stalled, panicked, lengthBlamed, heard, coreVars>>

Stall ==
  /\ "stall" \in Faults
  /\ ~stalled
  /\ stalled' = TRUE
  /\ UNCHANGED <<node, dest, toPlc, fromPlc, peerOpen, panicked, lengthBlamed, declined, heard>>
  /\ UNCHANGED coreVars

HangUp ==
  /\ "hangup" \in Faults
  /\ peerOpen
  /\ peerOpen' = FALSE
  /\ toPlc' = <<>>
  /\ UNCHANGED <<node, dest, fromPlc, stalled, panicked, lengthBlamed, declined, heard, coreVars>>

\* A Write that can only wait.
WriteBlocks(c) ==
  pc[c] = "write" /\ dest[c] # "none" /\ connOpen /\ peerOpen /\ Len(toPlc) >= Window

\* The application stops calling, the program has ended, or a call waits for ever.
Rest ==
  /\ Quiet \/ panicked \/ \E c \in Callers : WriteBlocks(c)
  /\ UNCHANGED vars

-----------------------------------------------------------------------------
ListenSocket ==
  ReadNode \/ ReadAnswer \/ ReadVoid \/ ReadSeveral \/ ReadPiece \/ ReadRest \/ ListenFails

CallerNext(c) ==
  (CallerStep(c) /\ UNCHANGED streamVars) \/ Address(c) \/ Write(c) \/ WriteFails(c)

Running ==
  /\ ~panicked
  /\ \/ CoreStep /\ UNCHANGED streamVars
     \/ \E c \in Callers : Address(c) \/ Write(c) \/ WriteFails(c)
     \/ ListenSocket \/ Serve \/ Stall \/ HangUp

Next == Running \/ Rest

\* Goroutines that can run do run, as in UdpClient, and the PLC serves until it
\* stalls.  A Write that blocks cannot run.
Fairness ==
  /\ \A c \in Callers :
       /\ WF_vars(~panicked /\ CallerNext(c))
       /\ SF_vars(~panicked /\ Lock(c) /\ UNCHANGED streamVars)
  /\ WF_vars(~panicked /\ ((ListenLookup /\ UNCHANGED streamVars) \/ ListenSocket))
  /\ WF_vars(~panicked /\ Serve)

Spec == Init /\ [][Next]_vars /\ Fairness

-----------------------------------------------------------------------------
(* Properties of the transport; those of FinsClient are checked here too *)

(***************************************************************************)
(* NewTcpClient does not wait for the handshake's reply, so the first      *)
(* requests may bear the configured node.  But the reply comes first in    *)
(* the stream: where each Read returns one frame and the PLC does tell its *)
(* node, no request is addressed otherwise than to it once listenLoop has  *)
(* seen any response.  (A reply that is missing, has an error code or      *)
(* another command leaves the client on the configured node for good.)     *)
(***************************************************************************)
Framed == Faults \cap {"coalesce", "split"} = {}

RequestsKnowNode ==
  [][Framed /\ heard /\ ~declined =>
       \A c \in Callers : dest'[c] \in {dest[c], "none", "assigned"}]_dest

(***************************************************************************)
(* With a positive timeout every operation returns although the PLC falls  *)
(* silent or hangs up, or the client is closed, but for one thing: a Write *)
(* has no deadline.  It blocks, holding c.mu perhaps, when the PLC stops   *)
(* reading, or when listenLoop is stuck on an answer nobody wants, so that *)
(* the PLC's answers fill the connection and then the requests do.  Close  *)
(* frees even these calls.                                                 *)
(***************************************************************************)
ListenerStuck == listener.at = "send" /\ \A c \in Callers : ~CanTake(c)

EveryCallReturnsOrBlocks ==
  \A c \in Callers :
    pc[c] # "idle" ~> \/ pc[c] = "idle"
                      \/ (stalled \/ ListenerStuck) /\ \E d \in Callers : WriteBlocks(d)

(***************************************************************************)
(* "TCP length error" is logged of frames whose length is wrong.  Every    *)
(* frame of this PLC has the right length.                                 *)
(***************************************************************************)
LengthErrorIsTrue == ~lengthBlamed

(***************************************************************************)
(* "Handshake": of the frames with command 0 alone the node is taken, and  *)
(* so never of a response to a read or write, whose command is 2.          *)
(***************************************************************************)
NodeComesFromHandshake == [][Reads => Head(fromPlc).kind # "answer"]_node
=============================================================================
