-------------------------- MODULE TcpClientProofs --------------------------
(***************************************************************************)
(* Theorems about TcpClient.  Its steps are FinsClientProofs' core steps;  *)
(* what is special is that the responses come out of a stream, of which a  *)
(* Read may take more or less than one frame.                              *)
(***************************************************************************)
EXTENDS TcpClient, FinsClientProofs, SequenceTheorems

USE DEF vars, streamVars, coreVars, clientVars, callVars, listenVars, Goto, Return

-----------------------------------------------------------------------------
(* Streams as sets of their pieces *)

Pieces(s) == {s[i] : i \in 1 .. Len(s)}

Outgoing == {Handshake} \cup {Request(h, n) : h \in Header, n \in Nodes}
Incoming == {NodeReply, Void, Remainder} \cup {Answer(m) : m \in Response}

LEMMA PiecesOfAppend ==
  ASSUME NEW S, NEW s \in Seq(S), NEW f \in S
  PROVE  /\ Append(s, f) \in Seq(S)
         /\ Pieces(Append(s, f)) \subseteq Pieces(s) \cup {f}
  <1>1. Append(s, f) \in Seq(S) /\ Len(Append(s, f)) = Len(s) + 1 /\ Len(s) \in Nat
    OBVIOUS
  <1>2. \A i \in 1 .. Len(s) + 1 : Append(s, f)[i] = IF i <= Len(s) THEN s[i] ELSE f
    BY <1>1
  <1>3. QED
    BY <1>1, <1>2 DEF Pieces

LEMMA PiecesOfTail ==
  ASSUME NEW S, NEW s \in Seq(S), s # <<>>
  PROVE  Tail(s) \in Seq(S) /\ Pieces(Tail(s)) \subseteq Pieces(s) /\ Head(s) \in Pieces(s)
  <1>1. /\ Tail(s) \in Seq(S) /\ Len(Tail(s)) = Len(s) - 1
        /\ \A i \in 1 .. Len(Tail(s)) : Tail(s)[i] = s[i + 1]
    BY HeadTailProperties
  <1>2. Len(s) \in Nat /\ Len(s) # 0
    BY EmptySeq
  <1>3. Head(s) = s[1]
    OBVIOUS
  <1>4. QED
    BY <1>1, <1>2, <1>3 DEF Pieces

LEMMA PiecesOfRest ==
  ASSUME NEW S, NEW s \in Seq(S), NEW n \in 1 .. Len(s)
  PROVE  LET left == SubSeq(s, n + 1, Len(s))
         IN  left \in Seq(S) /\ Pieces(left) \subseteq Pieces(s)
  <1> DEFINE first == n + 1
             last == Len(s)
             left == SubSeq(s, first, last)
  <1>1. /\ last \in Nat /\ first \in Nat /\ first >= 1
        /\ \A i \in first .. last : s[i] \in S
    BY ElementOfSeq
  <1> HIDE DEF first, last
  <1>2. /\ left \in Seq(S)
        /\ Len(left) = IF first <= last THEN last - first + 1 ELSE 0
        /\ \A i \in 1 .. last - first + 1 : left[i] = s[first + i - 1]
    <2>1. first \in Int /\ last \in Int
      BY <1>1
    <2>2. QED
      BY <1>1, <2>1, SubSeqProperties
  <1> HIDE DEF left
  <1>3. \A i \in 1 .. Len(left) : left[i] \in Pieces(s)
    BY <1>1, <1>2 DEF Pieces, last
  <1>4. QED
    BY <1>2, <1>3 DEF Pieces, left, first, last

LEMMA PiecesOfCut ==
  ASSUME NEW S, NEW s \in Seq(S), NEW f \in S
  PROVE  <<f>> \o s \in Seq(S) /\ Pieces(<<f>> \o s) \subseteq Pieces(s) \cup {f}
  <1>1. <<f>> \in Seq(S) /\ Len(<<f>>) = 1 /\ <<f>>[1] = f /\ Len(s) \in Nat
    OBVIOUS
  <1>2. /\ <<f>> \o s \in Seq(S)
        /\ Len(<<f>> \o s) = 1 + Len(s)
        /\ \A i \in 1 .. 1 + Len(s) : (<<f>> \o s)[i] = IF i <= 1 THEN <<f>>[i] ELSE s[i - 1]
    BY <1>1, ConcatProperties
  <1>3. \A i \in 1 .. 1 + Len(s) : (<<f>> \o s)[i] \in Pieces(s) \cup {f}
    BY <1>1, <1>2 DEF Pieces
  <1>4. QED
    BY <1>2, <1>3 DEF Pieces

-----------------------------------------------------------------------------
(* Type correctness *)

\* Only a split leaves the stream in the middle of a frame.
StreamType ==
  /\ node \in Nodes
  /\ dest \in [Callers -> Nodes \cup {"none"}]
  /\ toPlc \in Seq(Outgoing)
  /\ fromPlc \in Seq(Incoming)
  /\ Remainder \in Pieces(fromPlc) => "split" \in Faults
  /\ peerOpen \in BOOLEAN /\ stalled \in BOOLEAN /\ panicked \in BOOLEAN
  /\ lengthBlamed \in BOOLEAN /\ declined \in BOOLEAN /\ heard \in BOOLEAN

StrongType == CoreTypeOK /\ StreamType

\* The requests and responses in the streams, and what a Read may decode.
Asked == {h \in Header : \E n \in Nodes : Request(h, n) \in Pieces(toPlc)}
Answered == {m \in Response : Answer(m) \in Pieces(fromPlc)}
Arrivals ==
  Answered \cup {m \in Response : m.req = Foreign /\ "split" \in Faults}

LEMMA KindOfPiece ==
  /\ \A f \in Incoming : f.kind = "answer" => f.msg \in Response /\ f = Answer(f.msg)
  /\ \A f \in Outgoing : f.kind = "request" => 
       f.header \in Header /\ f.node \in Nodes /\ f = Request(f.header, f.node)
  BY DEF Incoming, Outgoing, NodeReply, Void, Remainder, Answer, Handshake, Request

LEMMA HeadOfAnswers ==
  ASSUME StreamType, fromPlc # <<>>, Head(fromPlc).kind = "answer"
  PROVE  Head(fromPlc).msg \in Answered
  <1>1. Head(fromPlc) \in Pieces(fromPlc) /\ Head(fromPlc) \in Incoming
    BY PiecesOfTail, HeadTailProperties DEF StreamType
  <1>2. QED
    BY <1>1, KindOfPiece DEF Answered

\* Every step of TcpClient is a core step over the responses in the stream, or none.
LEMMA StepIsCore ==
  ASSUME StreamType, [Next]_vars
  PROVE  CoreNext(Arrivals) \/ UNCHANGED coreVars
  <1>1. CASE ReadAnswer
    <2>1. Decode(Head(fromPlc).msg) /\ Head(fromPlc).msg \in Arrivals
      BY <1>1, HeadOfAnswers DEF ReadAnswer, DecodeAnswer, Reads, Arrivals
    <2>2. QED
      BY <2>1 DEF CoreNext
  <1>2. CASE ReadPiece
    <2>1. CASE NothingDecoded
      BY <2>1 DEF NothingDecoded
    <2>2. CASE Head(fromPlc).kind = "answer" /\ DecodeAnswer(Head(fromPlc).msg)
      <3>1. Head(fromPlc).msg \in Arrivals
        BY <1>2, <2>2, HeadOfAnswers DEF ReadPiece, Reads, Arrivals
      <3>2. QED
        BY <2>2, <3>1 DEF CoreNext, DecodeAnswer
    <2>3. QED
      BY <1>2, <2>1, <2>2 DEF ReadPiece
  <1>3. CASE ReadRest
    <2>1. CASE NothingDecoded
      BY <2>1 DEF NothingDecoded
    <2>2. ASSUME NEW s \in Sids, NEW e \in EndCodes,
                 DecodeAnswer([sid |-> s, req |-> Foreign, end |-> e])
          PROVE  CoreNext(Arrivals)
      <3>1. "split" \in Faults
        BY <1>3, PiecesOfTail DEF ReadRest, Reads, StreamType
      <3>2. [sid |-> s, req |-> Foreign, end |-> e] \in Arrivals
        BY <3>1 DEF Arrivals, Response, Foreign
      <3>3. QED
        BY <2>2, <3>2 DEF CoreNext, DecodeAnswer
    <2>3. QED
      BY <1>3, <2>1, <2>2 DEF ReadRest
  <1>4. CASE ReadNode \/ ReadVoid \/ ReadSeveral
    BY <1>4 DEF ReadNode, ReadVoid, ReadSeveral, NothingDecoded
  <1>5. CASE ListenFails
    BY <1>5 DEF ListenFails, CoreNext
  <1>6. ASSUME NEW c \in Callers, Write(c) \/ WriteFails(c) PROVE CoreNext(Arrivals)
    BY <1>6 DEF Write, WriteFails, CoreNext
  <1>7. CASE Serve \/ Stall \/ HangUp \/ Rest \/ UNCHANGED vars
    BY <1>7 DEF Serve, Stall, HangUp, Rest
  <1>8. CASE \E c \in Callers : Address(c)
    BY <1>8 DEF Address
  <1>9. QED
    BY <1>1, <1>2, <1>3, <1>4, <1>5, <1>6, <1>7, <1>8
    DEF Next, Running, ListenSocket, CoreNext

\* What a step may do to the streams.
Written == {header[c] : c \in {d \in Callers : WriteReturns(d)}}
Answers == {[sid |-> q.sid, req |-> q.req, end |-> e] : q \in Asked, e \in EndCodes}
Cuts == IF "split" \in Faults THEN {Remainder} ELSE {}

StreamMoves ==
  /\ node' \in Nodes
  /\ dest' \in [Callers -> Nodes \cup {"none"}]
  /\ toPlc' \in Seq(Outgoing)
  /\ Pieces(toPlc') \subseteq Pieces(toPlc) \cup {Request(h, n) : h \in Written, n \in Nodes}
  /\ fromPlc' \in Seq(Incoming)
  /\ Pieces(fromPlc') \subseteq
       Pieces(fromPlc) \cup {NodeReply, Void} \cup Cuts \cup {Answer(m) : m \in Answers}
  /\ peerOpen' \in BOOLEAN /\ stalled' \in BOOLEAN /\ panicked' \in BOOLEAN
  /\ lengthBlamed' \in BOOLEAN /\ declined' \in BOOLEAN /\ heard' \in BOOLEAN

\* What the PLC replies to a frame is its node, nothing of use, or answers a request.
LEMMA RepliesAnswer ==
  ASSUME NEW f \in Outgoing, f \in Pieces(toPlc), NEW g \in Replies(f)
  PROVE  g \in {NodeReply, Void} \cup {Answer(m) : m \in Answers \cap Response}
  <1>1. CASE f = Handshake
    BY <1>1 DEF Replies
  <1>2. CASE f # Handshake
    <2>1. f.kind = "request"
      BY <1>2 DEF Outgoing, Request
    <2>2. f.header \in Asked
      BY <2>1, KindOfPiece DEF Asked
    <2>3. ASSUME NEW e \in EndCodes
          PROVE  [sid |-> f.header.sid, req |-> f.header.req, end |-> e] \in Answers \cap Response
      BY <2>2 DEF Answers, Asked, Header, Response
    <2>4. QED
      BY <1>2, <2>3 DEF Replies
  <1>3. QED
    BY <1>1, <1>2

\* A Read leaves the rest of the stream, perhaps cut.
LEMMA AfterIsRest ==
  ASSUME StreamType, NEW n \in 1 .. Len(fromPlc), NEW left \in After(n)
  PROVE  left \in Seq(Incoming) /\ Pieces(left) \subseteq Pieces(fromPlc) \cup Cuts
  <1> DEFINE rest == SubSeq(fromPlc, n + 1, Len(fromPlc))
  <1>1. rest \in Seq(Incoming) /\ Pieces(rest) \subseteq Pieces(fromPlc)
    BY PiecesOfRest DEF StreamType
  <1>2. left = rest \/ ("split" \in Faults /\ left = <<Remainder>> \o rest)
    BY DEF After
  <1> HIDE DEF rest
  <1>3. CASE left = rest
    BY <1>1, <1>3
  <1>4. CASE "split" \in Faults /\ left = <<Remainder>> \o rest
    <2>1. Remainder \in Incoming /\ Remainder \in Cuts
      BY <1>4 DEF Incoming, Cuts
    <2>2. /\ <<Remainder>> \o rest \in Seq(Incoming)
          /\ Pieces(<<Remainder>> \o rest) \subseteq Pieces(rest) \cup {Remainder}
      BY <1>1, <2>1, PiecesOfCut
    <2>3. QED
      BY <1>1, <1>4, <2>1, <2>2
  <1>5. QED
    BY <1>2, <1>3, <1>4

LEMMA ReachIsInStream ==
  ASSUME StreamType, fromPlc # <<>>
  PROVE  Reach \subseteq 1 .. Len(fromPlc)
  <1>1. Len(fromPlc) \in Nat /\ Len(fromPlc) # 0
    BY EmptySeq DEF StreamType
  <1>2. QED
    BY <1>1 DEF Reach

\* A Read changes what comes from the PLC, the node and what is noted of it.
LEMMA ReadMoves ==
  ASSUME StreamType, SendingUnchanged, node' \in Nodes,
         fromPlc' \in Seq(Incoming), Pieces(fromPlc') \subseteq Pieces(fromPlc) \cup Cuts,
         panicked' \in {panicked, TRUE}, lengthBlamed' \in {lengthBlamed, TRUE},
         heard' \in {heard, TRUE}
  PROVE  StreamMoves
  <1>1. /\ dest' \in [Callers -> Nodes \cup {"none"}]
        /\ toPlc' \in Seq(Outgoing)
        /\ Pieces(toPlc') = Pieces(toPlc)
    BY DEF StreamType, SendingUnchanged
  <1>2. peerOpen' \in BOOLEAN /\ stalled' \in BOOLEAN /\ declined' \in BOOLEAN
    BY DEF StreamType, SendingUnchanged
  <1>3. panicked' \in BOOLEAN /\ lengthBlamed' \in BOOLEAN /\ heard' \in BOOLEAN
    BY DEF StreamType
  <1>4. QED
    BY <1>1, <1>2, <1>3 DEF StreamMoves

LEMMA StreamStep ==
  ASSUME StrongType, [Next]_vars
  PROVE  StreamMoves
  <1>1. ASSUME NEW c \in Callers, Write(c) PROVE StreamMoves
    <2>1. /\ Request(header[c], dest[c]) \in Outgoing
          /\ header[c] \in Written /\ dest[c] \in Nodes
      BY <1>1 DEF Write, Sent, Written, Outgoing, StrongType, CoreTypeOK, StreamType
    <2>2. /\ toPlc' \in Seq(Outgoing)
          /\ Pieces(toPlc') \subseteq Pieces(toPlc) \cup {Request(header[c], dest[c])}
      BY <1>1, <2>1, PiecesOfAppend DEF Write, StrongType, StreamType
    <2>3. QED
      BY <1>1, <2>1, <2>2 DEF Write, Sent, StrongType, StreamType, StreamMoves
  <1>2. CASE ReadNode \/ ReadAnswer \/ ReadVoid
    <2>1. fromPlc' \in Seq(Incoming) /\ Pieces(fromPlc') \subseteq Pieces(fromPlc)
      BY <1>2, PiecesOfTail DEF ReadNode, ReadAnswer, ReadVoid, Reads, StrongType, StreamType
    <2>2. SendingUnchanged /\ heard' \in {heard, TRUE}
      BY <1>2 DEF ReadNode, ReadAnswer, ReadVoid, NothingDecoded, DecodeAnswer
    <2>3. node' \in Nodes /\ panicked' = panicked /\ lengthBlamed' = lengthBlamed
      BY <1>2 DEF ReadNode, ReadAnswer, ReadVoid, Nodes, StrongType, StreamType
    <2>4. QED
      BY <2>1, <2>2, <2>3, ReadMoves DEF StrongType
  <1>3. CASE ReadSeveral \/ ReadRest
    <2>1. PICK n \in 1 .. Len(fromPlc) : fromPlc' \in After(n)
      BY <1>3, ReachIsInStream DEF ReadSeveral, ReadRest, Reads, StrongType
    <2>2. fromPlc' \in Seq(Incoming) /\ Pieces(fromPlc') \subseteq Pieces(fromPlc) \cup Cuts
      BY <2>1, AfterIsRest DEF StrongType
    <2>3. SendingUnchanged /\ heard' \in {heard, TRUE}
      BY <1>3 DEF ReadSeveral, ReadRest, NothingDecoded, DecodeAnswer
    <2>4. /\ node' \in Nodes
          /\ panicked' \in {panicked, TRUE} /\ lengthBlamed' \in {lengthBlamed, TRUE}
      BY <1>3 DEF ReadSeveral, ReadRest, Nodes, StrongType, StreamType
    <2>5. QED
      BY <2>2, <2>3, <2>4, ReadMoves DEF StrongType
  <1>4. CASE ReadPiece
    <2>1. /\ Tail(fromPlc) \in Seq(Incoming) /\ Pieces(Tail(fromPlc)) \subseteq Pieces(fromPlc)
          /\ Remainder \in Incoming /\ Remainder \in Cuts
      BY <1>4, PiecesOfTail DEF ReadPiece, Reads, Incoming, Cuts, StrongType, StreamType
    <2>2. fromPlc' \in Seq(Incoming) /\ Pieces(fromPlc') \subseteq Pieces(fromPlc) \cup Cuts
      BY <1>4, <2>1, PiecesOfCut DEF ReadPiece
    <2>3. SendingUnchanged /\ heard' \in {heard, TRUE}
      BY <1>4 DEF ReadPiece, NothingDecoded, DecodeAnswer
    <2>4. /\ node' \in Nodes
          /\ panicked' \in {panicked, TRUE} /\ lengthBlamed' = lengthBlamed
      BY <1>4 DEF ReadPiece, Nodes, StrongType, StreamType
    <2>5. QED
      BY <2>2, <2>3, <2>4, ReadMoves DEF StrongType
  <1>5. CASE Serve
    <2>1. /\ toPlc' \in Seq(Outgoing) /\ Pieces(toPlc') \subseteq Pieces(toPlc)
          /\ Head(toPlc) \in Pieces(toPlc) /\ Head(toPlc) \in Outgoing
      BY <1>5, PiecesOfTail, HeadTailProperties DEF Serve, StrongType, StreamType
    <2>2. declined' \in BOOLEAN
      <3>1. declined' = (declined \/ (Head(toPlc) = Handshake
                                        /\ fromPlc' # Append(fromPlc, NodeReply)))
        BY <1>5 DEF Serve
      <3>2. QED
        BY <3>1, Zenon
    <2>3. ASSUME NEW f \in {NodeReply, Void} \cup {Answer(m) : m \in Answers \cap Response},
                 fromPlc' = Append(fromPlc, f)
          PROVE  StreamMoves
      <3>1. f \in Incoming
        BY <2>3 DEF Incoming
      <3>2. fromPlc' \in Seq(Incoming) /\ Pieces(fromPlc') \subseteq Pieces(fromPlc) \cup {f}
        BY <2>3, <3>1, PiecesOfAppend DEF StrongType, StreamType
      <3>3. QED
        BY <1>5, <2>1, <2>2, <2>3, <3>2 DEF Serve, StrongType, StreamType, StreamMoves
    <2>4. CASE UNCHANGED fromPlc
      BY <1>5, <2>1, <2>2, <2>4 DEF Serve, StrongType, StreamType, StreamMoves
    <2>5. ASSUME NEW f \in Replies(Head(toPlc))
          PROVE  f \in {NodeReply, Void} \cup {Answer(m) : m \in Answers \cap Response}
      BY <2>1, <2>5, RepliesAnswer
    <2>6. QED
      BY <1>5, <2>3, <2>4, <2>5 DEF Serve
  <1>6. CASE HangUp
    <2>1. <<>> \in Seq(Outgoing) /\ Pieces(<<>>) = {}
      BY EmptySeq DEF Pieces
    <2>2. toPlc' \in Seq(Outgoing) /\ Pieces(toPlc') = {} /\ peerOpen' \in BOOLEAN
      BY <1>6, <2>1 DEF HangUp
    <2>3. /\ UNCHANGED <<node, dest, fromPlc>>
          /\ UNCHANGED <<stalled, panicked, lengthBlamed, declined, heard>>
      BY <1>6 DEF HangUp
    <2>4. QED
      BY <2>2, <2>3 DEF StrongType, StreamType, StreamMoves
  <1>7. CASE Stall
    BY <1>7 DEF Stall, StrongType, StreamType, StreamMoves
  <1>8. ASSUME NEW c \in Callers, Address(c) \/ WriteFails(c) PROVE StreamMoves
    BY <1>8 DEF Address, WriteFails, Sent, StrongType, StreamType, StreamMoves
  <1>9. CASE UNCHANGED streamVars
    BY <1>9 DEF StrongType, StreamType, StreamMoves
  <1>10. QED
    BY <1>1, <1>2, <1>3, <1>4, <1>5, <1>6, <1>7, <1>8, <1>9
    DEF Next, Running, ListenSocket, ListenFails, Rest

LEMMA InitType == Init => StrongType
  <1> SUFFICES ASSUME Init PROVE StrongType
    OBVIOUS
  <1>1. <<Handshake>> \in Seq(Outgoing) /\ <<>> \in Seq(Incoming) /\ Pieces(<<>>) = {}
    BY EmptySeq DEF Outgoing, Pieces
  <1>2. toPlc \in Seq(Outgoing) /\ fromPlc \in Seq(Incoming) /\ Pieces(fromPlc) = {}
    <2>1. <<>> \in Seq(Outgoing)
      OBVIOUS
    <2>2. QED
      BY <1>1, <2>1 DEF Init
  <1>3. node \in Nodes /\ dest \in [Callers -> Nodes \cup {"none"}]
    BY DEF Init, Nodes
  <1>4. /\ peerOpen \in BOOLEAN /\ stalled \in BOOLEAN /\ panicked \in BOOLEAN
        /\ lengthBlamed \in BOOLEAN /\ declined \in BOOLEAN /\ heard \in BOOLEAN
    BY DEF Init
  <1>5. QED
    BY <1>2, <1>3, <1>4, CoreInitType DEF Init, StrongType, StreamType

LEMMA NextType == StrongType /\ [Next]_vars => StrongType'
  <1> SUFFICES ASSUME StrongType, [Next]_vars PROVE StrongType'
    OBVIOUS
  <1>1. CoreTypeOK'
    <2>1. Arrivals \subseteq Response
      BY DEF Arrivals, Answered
    <2>2. QED
      BY <2>1, StepIsCore, CoreType DEF StrongType
  <1>2. StreamMoves
    BY StreamStep
  <1>3. Remainder \in Pieces(fromPlc') => "split" \in Faults
    <2>1. Remainder \notin {NodeReply, Void} /\ \A m \in Answers : Remainder # Answer(m)
      BY DEF Remainder, NodeReply, Void, Answer
    <2>2. QED
      BY <1>2, <2>1 DEF StreamMoves, Cuts, StrongType, StreamType
  <1>4. QED
    BY <1>1, <1>2, <1>3 DEF StrongType, StreamType, StreamMoves

LEMMA StrongIsTypeOK == StrongType => TypeOK
  <1> SUFFICES ASSUME StrongType PROVE TypeOK
    OBVIOUS
  <1>1. /\ \A i \in DOMAIN toPlc : toPlc[i] \in Outgoing
        /\ \A i \in DOMAIN fromPlc : fromPlc[i] \in Incoming
    BY ElementOfSeq, LenProperties DEF StrongType, StreamType
  <1>2. /\ \A f \in Outgoing : IsOutgoing(f)
        /\ \A f \in Incoming \ {Remainder} : IsIncoming(f)
    BY DEF Outgoing, Incoming, IsOutgoing, IsIncoming, Request, Answer
  <1>3. \A i \in DOMAIN fromPlc : IsIncoming(fromPlc[i])
    <2>1. DOMAIN fromPlc = 1 .. Len(fromPlc)
      BY LenProperties DEF StrongType, StreamType
    <2>2. \A i \in DOMAIN fromPlc : fromPlc[i] = Remainder => "split" \in Faults
      BY <2>1 DEF StrongType, StreamType, Pieces
    <2>3. QED
      BY <1>1, <1>2, <2>2 DEF IsIncoming
  <1>4. QED
    BY <1>1, <1>2, <1>3 DEF StrongType, StreamType, TypeOK

(***************************************************************************)
(* Every variable keeps its type, whatever a Read makes of the stream, and *)
(* only where Reads split frames is it ever left in the middle of one.     *)
(***************************************************************************)
THEOREM TypeCorrect == Spec => []TypeOK
  <1>1. Spec => []StrongType
    BY InitType, NextType, PTL DEF Spec
  <1>2. QED
    BY <1>1, StrongIsTypeOK, PTL

-----------------------------------------------------------------------------
(* Answers correlate, as over datagrams: the streams carry no pair of a    *)
(* service id and a request but those of the client's counter.             *)

Seen == CoreSeen \cup Asked \cup {Pair(m.sid, m.req) : m \in Answered}

ForeignInv ==
  /\ \A q \in Asked : q.req # Foreign
  /\ \A m \in Answered : m.req # Foreign
  /\ ListenerForeign

CorrelationInv ==
  StrongType /\ OneCounter(Seen, issued) /\ CallInv /\ ForeignInv /\ AnswerBelongsToCall

LEMMA SeenType == StrongType => Seen \subseteq Header
  BY CoreSeenType DEF StrongType, Seen, Asked, Answered, Header, Response, Pair

LEMMA SeenTypeNext == StrongType' => Seen' \subseteq Header
  BY CoreSeenTypeNext DEF StrongType, Seen, Asked, Answered, Header, Response, Pair

\* The streams carry on, or carry what the callers wrote and what answers it.
LEMMA AskedNext ==
  ASSUME StrongType, [Next]_vars
  PROVE  Asked' \subseteq Asked \cup Written /\ Answered' \subseteq Answered \cup Answers
  <1>1. StreamMoves
    BY StreamStep
  <1>2. ASSUME NEW h \in Asked' PROVE h \in Asked \cup Written
    <2>1. \E n \in Nodes : \/ Request(h, n) \in Pieces(toPlc)
                          \/ \E g \in Written, k \in Nodes : Request(h, n) = Request(g, k)
      BY <1>1, <1>2 DEF Asked, StreamMoves
    <2>2. \A n, g, k : Request(h, n) = Request(g, k) => h = g
      BY DEF Request
    <2>3. QED
      BY <1>2, <2>1, <2>2 DEF Asked
  <1>3. ASSUME NEW m \in Answered' PROVE m \in Answered \cup Answers
    <2>1. \/ Answer(m) \in Pieces(fromPlc)
          \/ Answer(m) \in {NodeReply, Void, Remainder}
          \/ \E n \in Answers : Answer(m) = Answer(n)
      BY <1>1, <1>3 DEF Answered, StreamMoves, Cuts
    <2>2. /\ Answer(m) \notin {NodeReply, Void, Remainder}
          /\ \A n : Answer(m) = Answer(n) => m = n
      BY DEF Answer, NodeReply, Void, Remainder
    <2>3. QED
      BY <1>3, <2>1, <2>2 DEF Answered
  <1>4. QED
    BY <1>2, <1>3

LEMMA StreamSeen ==
  ASSUME StrongType, [Next]_vars, NEW a \in Asked' \cup {Pair(m.sid, m.req) : m \in Answered'}
  PROVE  a \in Seen
  <1>1. CASE a \in Asked'
    BY <1>1, AskedNext DEF Seen, CoreSeen, Written
  <1>2. ASSUME NEW m \in Answered', a = Pair(m.sid, m.req) PROVE a \in Seen
    <2>1. CASE m \in Answered
      BY <1>2, <2>1 DEF Seen
    <2>2. ASSUME NEW q \in Asked, NEW e \in EndCodes,
                 m = [sid |-> q.sid, req |-> q.req, end |-> e]
          PROVE  a \in Seen
      <3>1. a = q
        BY <1>2, <2>2 DEF Asked, Header, Pair
      <3>2. QED
        BY <3>1 DEF Seen
    <2>3. QED
      BY <2>1, <2>2, AskedNext DEF Answers
  <1>3. QED
    BY <1>1, <1>2

\* What a Read decodes was in the stream, or is nobody's answer.
LEMMA ArrivalsSeen ==
  ASSUME NEW m \in Arrivals
  PROVE  Pair(m.sid, m.req) \in Seen \/ m.req = 0
  BY DEF Arrivals, Seen, Foreign

LEMMA OneCounterNext ==
  ASSUME StrongType, StrongType', OneCounter(Seen, issued), CallInv, [Next]_vars
  PROVE  OneCounter(Seen', issued')
  <1>1. Seen \subseteq Header /\ Seen' \subseteq Header /\ issued \in Nat /\ sid \in Sids
    BY SeenType, SeenTypeNext DEF StrongType, CoreTypeOK
  <1>2. ASSUME NEW c \in Callers, TakeSid(c) PROVE OneCounter(Seen', issued')
    <2>1. /\ issued' = issued + 1
          /\ \A a \in CoreSeen' :
               a \in CoreSeen \/ a = Pair(NextSid(sid), issued + 1) \/ a.req = 0
      BY <1>2, TakeSidSeen DEF StrongType
    <2>2. \A a \in Seen' : a \in Seen \/ a = Pair(NextSid(sid), issued + 1) \/ a.req = 0
      BY <2>1, StreamSeen DEF Seen
    <2>3. Pair(sid, issued) \in Seen
      BY DEF Seen, CoreSeen
    <2>4. QED
      BY <1>1, <2>1, <2>2, <2>3, OneMore
  <1>3. ASSUME \A c \in Callers : ~TakeSid(c) PROVE OneCounter(Seen', issued')
    <2>1. Stale(Arrivals)
      BY <1>3, StepIsCore, CoreStale DEF StrongType
    <2>2. \A a \in CoreSeen' : a \in Seen \/ a.req = 0
      <3>1. ASSUME NEW a \in CoreSeen', NEW m \in Arrivals, a = Pair(m.sid, m.req)
            PROVE  a \in Seen \/ a.req = 0
        BY <3>1, ArrivalsSeen DEF Pair
      <3>2. QED
        BY <2>1, <3>1 DEF Stale, Seen
    <2>3. \A a \in Seen' : a \in Seen \/ a.req = 0
      BY <2>2, StreamSeen DEF Seen
    <2>4. QED
      BY <1>1, <2>1, <2>3, NothingNew DEF Stale
  <1>4. QED
    BY <1>2, <1>3

LEMMA ForeignInvNext ==
  ASSUME StrongType, CallInv, ForeignInv, [Next]_vars
  PROVE  ForeignInv'
  <1>1. \A q \in Asked' : q.req # Foreign
    BY AskedNext DEF ForeignInv, CallInv, InProgress, Foreign, Written, WriteReturns
  <1>2. \A m \in Answered' : m.req # Foreign
    BY AskedNext DEF ForeignInv, Answers
  <1>3. ListenerForeign'
    <2>1. ASSUME NEW m \in Arrivals, Decode(m) PROVE ListenerForeign'
      BY <2>1 DEF Decode, Decoded, ListenerForeign, ForeignInv, Arrivals
    <2>2. CASE UNCHANGED listener
      BY <2>2 DEF ListenerForeign, ForeignInv
    <2>3. CASE listener' = Reading \/ listener' = Stopped
      BY <2>3 DEF ListenerForeign, Reading, Stopped
    <2>4. CASE ListenLookup
      BY <2>4 DEF ListenLookup, Sending, ListenerForeign, ForeignInv
    <2>5. ListenerMoves(Arrivals)
      BY StepIsCore, ListenerStep DEF StrongType
    <2>6. QED
      BY <2>1, <2>2, <2>3, <2>4, <2>5 DEF ListenerMoves
  <1>4. QED
    BY <1>1, <1>2, <1>3 DEF ForeignInv

LEMMA CorrelationInit == Init => CorrelationInv
  <1> SUFFICES ASSUME Init PROVE CorrelationInv
    OBVIOUS
  <1>1. Asked = {} /\ Answered = {}
    <2>1. Pieces(fromPlc) = {}
      BY EmptySeq DEF Init, Pieces
    <2>2. Pieces(toPlc) \subseteq {Handshake} /\ \A h, n : Request(h, n) # Handshake
      BY DEF Init, Pieces, Request, Handshake
    <2>3. QED
      BY <2>1, <2>2 DEF Asked, Answered
  <1>2. \A a \in Seen : a.req = 0
    BY <1>1 DEF Init, CoreInit, Seen, CoreSeen, ListenerPairs, Pair, NilChan, Reading
  <1>3. OneCounter(Seen, issued)
    BY <1>2 DEF OneCounter, Follows, Init, CoreInit
  <1>4. ForeignInv
    BY <1>1 DEF Init, CoreInit, ForeignInv, ListenerForeign, Reading
  <1>5. QED
    BY <1>3, <1>4, InitType, CallInvInit, AnswerInit DEF Init, CorrelationInv

LEMMA CorrelationNext == CorrelationInv /\ [Next]_vars => CorrelationInv'
  <1> SUFFICES ASSUME CorrelationInv, [Next]_vars PROVE CorrelationInv'
    OBVIOUS
  <1>1. StrongType /\ StrongType' /\ CoreTypeOK /\ StreamType
    BY NextType DEF CorrelationInv, StrongType
  <1>2. OneCounter(Seen', issued')
    BY <1>1, OneCounterNext DEF CorrelationInv
  <1>3. CallInv' /\ ForeignInv'
    BY <1>1, StepIsCore, CallInvNext, ForeignInvNext DEF CorrelationInv
  <1>4. OneCounter(CoreSeen, issued)
    BY DEF CorrelationInv, OneCounter, Seen
  <1>5. AnswerBelongsToCall'
    BY <1>1, <1>4, StepIsCore, AnswerNext DEF CorrelationInv, ForeignInv
  <1>6. QED
    BY <1>1, <1>2, <1>3, <1>5 DEF CorrelationInv

(***************************************************************************)
(* Over a stream, too, sendCommand never returns the answer to another of  *)
(* the last NSid requests, whatever pieces the Reads return: what is not   *)
(* the caller's own answer is the middle of a frame taken for one.         *)
(***************************************************************************)
THEOREM AnswersCorrelate == Spec => []AnswerBelongsToCall
  <1>1. CorrelationInv => AnswerBelongsToCall
    BY DEF CorrelationInv
  <1>2. QED
    BY <1>1, CorrelationInit, CorrelationNext, PTL DEF Spec

-----------------------------------------------------------------------------
(* A response the listener holds can be taken, as in UdpClientProofs.  What  *)
(* a split makes of the middle of a frame answers no call.                   *)

InStreams == {q.req : q \in Asked} \cup {m.req : m \in Answered}

HeldStrong == CorrelationInv /\ HeldInv /\ Unwritten(InStreams)

LEMMA InStreamsNumbered ==
  ASSUME StrongType, OneCounter(Seen, issued)
  PROVE  \A r \in InStreams : r # issued + 1
  <1>1. ASSUME NEW r \in InStreams PROVE \E a \in Seen : a.req = r
    <2>1. CASE \E q \in Asked : r = q.req
      BY <2>1 DEF Seen
    <2>2. CASE \E m \in Answered : r = m.req
      <3>1. PICK m \in Answered : r = m.req
        BY <2>2
      <3>2. Pair(m.sid, m.req) \in Seen
        BY DEF Seen
      <3>3. QED
        BY <3>1, <3>2 DEF Pair
    <2>3. QED
      BY <1>1, <2>1, <2>2 DEF InStreams
  <1>2. \A a \in Seen : a.req <= issued /\ a.req \in Nat
    BY SeenType DEF OneCounter, Header
  <1>3. QED
    BY <1>1, <1>2 DEF StrongType, CoreTypeOK

LEMMA HeldStrongNext == HeldStrong /\ [Next]_vars => HeldStrong'
  <1> SUFFICES ASSUME HeldStrong, [Next]_vars PROVE HeldStrong'
    OBVIOUS
  <1>1. /\ StrongType /\ CoreTypeOK /\ StreamType /\ CallInv /\ HeldInv /\ Unwritten(InStreams)
        /\ OneCounter(Seen, issued) /\ OneCounter(CoreSeen, issued)
    BY DEF HeldStrong, CorrelationInv, StrongType, OneCounter, Seen
  <1>2. HeldInv'
    <2>1. Unwritten({m.req : m \in Arrivals})
      <3>1. \A c \in Callers : pc[c] \in {"cell", "write"} => header[c].req # 0
        BY <1>1 DEF CallInv, InProgress
      <3>2. \A m \in Arrivals : m.req \in InStreams \/ m.req = 0
        BY DEF Arrivals, InStreams, Foreign
      <3>3. QED
        BY <1>1, <3>1, <3>2 DEF Unwritten
    <2>2. QED
      BY <1>1, <2>1, StepIsCore, HeldNext
  <1>3. Unwritten(InStreams)'
    <2>1. ASSUME NEW r \in InStreams'
          PROVE  r \in InStreams \/ \E d \in Callers : r = header[d].req /\ WriteReturns(d)
      BY <1>1, <2>1, AskedNext DEF InStreams, Written, Answers
    <2>2. \A r \in InStreams : r # issued + 1
      BY <1>1, InStreamsNumbered
    <2>3. \A c \in Callers : pc'[c] \in {"cell", "write"} => header'[c].req \notin InStreams'
      BY <1>1, <2>1, <2>2, StepIsCore, UnwrittenNext DEF HeldInv
    <2>4. QED
      BY <2>3 DEF Unwritten
  <1>4. QED
    BY <1>2, <1>3, CorrelationNext DEF HeldStrong

(***************************************************************************)
(* Over a stream, too, a listener that blocks on the answer to a call in   *)
(* progress blocks on the channel this call reads, as long as no two calls *)
(* share a service id.                                                     *)
(***************************************************************************)
THEOREM HeldAnswersAreTaken == Spec => []HeldAnswerCanBeTaken
  <1>1. Init => HeldStrong
    <2> SUFFICES ASSUME Init PROVE HeldStrong
      OBVIOUS
    <2>1. HeldInv /\ Unwritten(InStreams)
      BY HeldInit DEF Init, CoreInit, Unwritten
    <2>2. QED
      BY <2>1, CorrelationInit DEF HeldStrong
  <1>2. HeldStrong => HeldAnswerCanBeTaken
    BY HeldIsTaken DEF HeldStrong, CorrelationInv, StrongType
  <1>3. QED
    BY <1>1, <1>2, HeldStrongNext, PTL DEF Spec

-----------------------------------------------------------------------------
(* The handshake comes first.  Unless the PLC did not tell its node, until *)
(* its reply has been read the reply, or the handshake itself, is at the   *)
(* head of what the client can read, and no response has got past it.      *)

ReplyComesFirst ==
  \/ fromPlc # <<>> /\ Head(fromPlc) = NodeReply
  \/ fromPlc = <<>> /\ toPlc # <<>> /\ Head(toPlc) = Handshake
  \/ fromPlc = <<>> /\ ~peerOpen

NodeInv == Framed => node = "assigned" \/ declined \/ (~heard /\ ReplyComesFirst)

LEMMA HeadOfAppend ==
  ASSUME NEW S, NEW s \in Seq(S), NEW f \in S
  PROVE  /\ Append(s, f) # <<>>
         /\ Head(Append(s, f)) = IF s = <<>> THEN f ELSE Head(s)
  <1>1. Len(Append(s, f)) = Len(s) + 1 /\ Len(s) \in Nat /\ Append(s, f) \in Seq(S)
    OBVIOUS
  <1>2. Append(s, f)[1] = IF s = <<>> THEN f ELSE s[1]
    BY <1>1, EmptySeq
  <1>3. Append(s, f) # <<>> /\ Head(Append(s, f)) = Append(s, f)[1]
    BY <1>1, EmptySeq
  <1>4. s # <<>> => Head(s) = s[1]
    OBVIOUS
  <1>5. QED
    BY <1>2, <1>3, <1>4

LEMMA NodeInvNext ==
  ASSUME StrongType, NodeInv, [Next]_vars
  PROVE  NodeInv'
  <1> SUFFICES ASSUME Framed
               PROVE  (node = "assigned" \/ declined \/ (~heard /\ ReplyComesFirst))'
    BY DEF NodeInv, Framed
  <1>1. "split" \notin Faults /\ "coalesce" \notin Faults
    BY DEF Framed
  <1>2. ~ReadSeveral /\ ~ReadPiece /\ ~ReadRest
    <2>1. ~ReadRest
      BY <1>1, PiecesOfTail DEF ReadRest, Reads, StrongType, StreamType
    <2>2. QED
      BY <1>1, <2>1 DEF ReadSeveral, ReadPiece, Reach
  <1>3. UNCHANGED node \/ node' = "assigned"
    BY <1>2 DEF Next, Running, ListenSocket, Address, Write, WriteFails, Sent, ReadNode,
                ReadAnswer, ReadVoid, ListenFails, Serve, Stall, HangUp, Rest
  <1>4. CASE node = "assigned"
    BY <1>3, <1>4
  <1>5. CASE declined
    <2>1. declined'
      BY <1>2, <1>5 DEF Next, Running, ListenSocket, Address, Write, WriteFails, Sent, ReadNode,
                        ReadAnswer, ReadVoid, DecodeAnswer, NothingDecoded, SendingUnchanged,
                        ListenFails, Serve, Stall, HangUp, Rest
    <2>2. QED
      BY <2>1
  <1>6. CASE ReadNode
    BY <1>6 DEF ReadNode
  <1>7. ASSUME ~heard, ReplyComesFirst, ~ReadNode
        PROVE  declined' \/ (~heard /\ ReplyComesFirst)'
    <2>1. ~ReadAnswer /\ ~ReadVoid
      BY <1>7 DEF ReadAnswer, ReadVoid, Reads, ReplyComesFirst, NodeReply, Void
    <2>2. CASE UNCHANGED <<toPlc, fromPlc, peerOpen, heard>>
      BY <1>7, <2>2 DEF ReplyComesFirst
    <2>3. ASSUME NEW c \in Callers, Write(c) PROVE (~heard /\ ReplyComesFirst)'
      <3>1. toPlc \in Seq(Outgoing) /\ UNCHANGED <<fromPlc, peerOpen, heard>>
        BY <2>3 DEF Write, Sent, StrongType, StreamType
      <3>2. toPlc # <<>> => toPlc' # <<>> /\ Head(toPlc') = Head(toPlc)
        <4>1. Request(header[c], dest[c]) \in Outgoing
          BY <2>3 DEF Write, Sent, Outgoing, StrongType, StreamType, CoreTypeOK
        <4>2. QED
          BY <2>3, <3>1, <4>1, HeadOfAppend DEF Write
      <3>3. QED
        BY <1>7, <3>1, <3>2, Zenon DEF ReplyComesFirst
    <2>4. CASE Serve
      <3>1. UNCHANGED heard /\ peerOpen /\ fromPlc \in Seq(Incoming)
        BY <2>4 DEF Serve, StrongType, StreamType
      <3>2. CASE fromPlc # <<>> /\ Head(fromPlc) = NodeReply
        <4>1. UNCHANGED fromPlc \/ \E f \in Incoming : fromPlc' = Append(fromPlc, f)
          <5>1. Head(toPlc) \in Pieces(toPlc) /\ Head(toPlc) \in Outgoing
            BY <2>4, PiecesOfTail, HeadTailProperties DEF Serve, StrongType, StreamType
          <5>2. Replies(Head(toPlc)) \subseteq Incoming
            BY <5>1, RepliesAnswer DEF Incoming
          <5>3. QED
            BY <2>4, <5>2 DEF Serve
        <4>2. fromPlc' # <<>> /\ Head(fromPlc') = NodeReply
          BY <3>1, <3>2, <4>1, HeadOfAppend
        <4>3. QED
          BY <1>7, <3>1, <4>2 DEF ReplyComesFirst
      <3>3. CASE fromPlc = <<>> /\ Head(toPlc) = Handshake
        <4>1. CASE fromPlc' = Append(fromPlc, NodeReply)
          <5>1. NodeReply \in Incoming
            BY DEF Incoming
          <5>2. fromPlc' # <<>> /\ Head(fromPlc') = NodeReply
            BY <3>1, <3>3, <4>1, <5>1, HeadOfAppend
          <5>3. QED
            BY <1>7, <3>1, <5>2 DEF ReplyComesFirst
        <4>2. CASE fromPlc' # Append(fromPlc, NodeReply)
          BY <2>4, <3>3, <4>2 DEF Serve
        <4>3. QED
          BY <4>1, <4>2
      <3>4. QED
        BY <1>7, <3>1, <3>2, <3>3 DEF ReplyComesFirst
    <2>5. CASE HangUp
      BY <1>7, <2>5 DEF HangUp, ReplyComesFirst
    <2>6. CASE UNCHANGED vars
      BY <2>2, <2>6
    <2>7. CASE CoreStep /\ UNCHANGED streamVars
      BY <2>2, <2>7
    <2>8. CASE Stall \/ ListenFails \/ \E c \in Callers : Address(c) \/ WriteFails(c)
      BY <2>2, <2>8 DEF Stall, ListenFails, Address, WriteFails, Sent
    <2>9. QED
      BY <1>2, <1>7, <2>1, <2>3, <2>4, <2>5, <2>6, <2>7, <2>8
      DEF Next, Running, ListenSocket, Rest
  <1>8. QED
    BY <1>4, <1>5, <1>6, <1>7 DEF NodeInv

\* A request is addressed to the node the client has then.
LEMMA AddressedAsKnown ==
  ASSUME StrongType, [Next]_vars, NEW c \in Callers
  PROVE  dest'[c] \in {dest[c], "none", node}
  <1> USE DEF StrongType, StreamType
  <1>1. ASSUME NEW d \in Callers, Address(d) \/ Sent(d) PROVE dest'[c] \in {dest[c], "none", node}
    BY <1>1 DEF Address, Sent
  <1>2. CASE UNCHANGED dest
    BY <1>2
  <1>3. QED
    BY <1>1, <1>2
    DEF Next, Running, ListenSocket, Write, WriteFails, ReadNode, ReadAnswer, ReadVoid,
        ReadSeveral, ReadPiece, ReadRest, DecodeAnswer, NothingDecoded, SendingUnchanged,
        ListenFails, Serve, Stall, HangUp, Rest

(***************************************************************************)
(* Where each Read returns one frame and the PLC answers the handshake     *)
(* with its node, no request is addressed otherwise once a response has    *)
(* been decoded, though NewTcpClient does not wait for the handshake's     *)
(* reply (client_tcp.go:47, 593-596).                                      *)
(***************************************************************************)
THEOREM HandshakeComesFirst == Spec => RequestsKnowNode
  <1>1. Init => StrongType /\ NodeInv
    <2> SUFFICES ASSUME Init PROVE NodeInv
      BY InitType
    <2>1. ~heard /\ ReplyComesFirst
      <3>1. CASE toPlc = <<Handshake>>
        BY <3>1 DEF Init, ReplyComesFirst
      <3>2. CASE peerOpen = FALSE
        BY <3>2 DEF Init, ReplyComesFirst
      <3>3. QED
        BY <3>1, <3>2 DEF Init
    <2>2. QED
      BY <2>1 DEF NodeInv
  <1>2. StrongType /\ NodeInv /\ [Next]_vars => (StrongType /\ NodeInv)'
    BY NextType, NodeInvNext
  <1>3. ASSUME StrongType, NodeInv, [Next]_vars
        PROVE  [Framed /\ heard /\ ~declined =>
                  \A c \in Callers : dest'[c] \in {dest[c], "none", "assigned"}]_dest
    BY <1>3, AddressedAsKnown DEF NodeInv
  <1>4. QED
    BY <1>1, <1>2, <1>3, PTL DEF Spec, RequestsKnowNode

(***************************************************************************)
(* Over TCP, too, operations that hold c.mu never share a service id.      *)
(***************************************************************************)
THEOREM LockedCallsAreSafe == Spec => []LockedCallsShareNoCell
  <1>1. Init => StrongType /\ LockedInv
    BY InitType, LockedInit DEF Init
  <1>2. StrongType /\ LockedInv /\ [Next]_vars => (StrongType /\ LockedInv)'
    BY NextType, StepIsCore, LockedNext DEF StrongType
  <1>3. LockedInv => LockedCallsShareNoCell
    BY DEF LockedInv
  <1>4. QED
    BY <1>1, <1>2, <1>3, PTL DEF Spec
=============================================================================
