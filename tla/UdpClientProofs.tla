-------------------------- MODULE UdpClientProofs --------------------------
(***************************************************************************)
(* Theorems about UdpClient: its steps are FinsClientProofs' core steps,   *)
(* and the datagrams in flight carry no pair of a service id and a request *)
(* that did not come from the client's counter.                            *)
(***************************************************************************)
EXTENDS UdpClient, FinsClientProofs

USE DEF vars, netVars

LEMMA AfterTakingType ==
  ASSUME NEW m, NEW inFlight, NEW left \in AfterTaking(m, inFlight)
  PROVE  left \subseteq inFlight
  BY DEF AfterTaking

\* Every step of UdpClient is a core step over the datagrams in flight, or none.
LEMMA StepIsCore ==
  ASSUME [Next]_vars
  PROVE  CoreNext(responses) \/ UNCHANGED coreVars
  BY DEF Next, ClientNext, CoreNext, Write, WriteFails, ListenSocket, ListenRead, ListenFails,
     Plc, PlcAnswer, Network, Lose, Refuse, Rest

-----------------------------------------------------------------------------
(* Type correctness *)

LEMMA InitType == Init => TypeOK
  <1> SUFFICES ASSUME Init PROVE TypeOK
    OBVIOUS
  <1>1. responses \subseteq Response
    BY ConstantsAssumption DEF Init, Leftovers, Response, Foreign
  <1>2. QED
    BY <1>1, CoreInitType DEF Init, TypeOK

\* What a step may do to the datagrams in flight.
Written == {header[c] : c \in {d \in Callers : WriteReturns(d)}}
Answers == {[sid |-> q.sid, req |-> q.req, end |-> e] : q \in requests, e \in EndCodes}

NetMoves ==
  /\ requests' \subseteq requests \cup Written
  /\ responses' \subseteq responses \cup Answers
  /\ sockErr' \in BOOLEAN

LEMMA NetStep ==
  ASSUME TypeOK, [Next]_vars
  PROVE  NetMoves
  <1>1. ASSUME NEW c \in Callers, Write(c) \/ WriteFails(c) PROVE NetMoves
    BY <1>1 DEF Write, WriteFails, WriteReturns, WriteError, TypeOK, NetMoves, Written
  <1>2. ASSUME NEW m \in responses, ListenRead(m) PROVE NetMoves
    BY <1>2, AfterTakingType DEF ListenRead, TypeOK, NetMoves
  <1>3. ASSUME NEW q \in requests, NEW e \in EndCodes, PlcAnswer(q, e) PROVE NetMoves
    BY <1>3, AfterTakingType DEF PlcAnswer, TypeOK, NetMoves, Answers
  <1>4. CASE ListenFails \/ Network
    BY <1>4 DEF ListenFails, Network, Lose, Refuse, TypeOK, CoreTypeOK, NetMoves
  <1>5. CASE UNCHANGED netVars
    BY <1>5 DEF TypeOK, NetMoves
  <1>6. CASE UNCHANGED vars
    BY <1>5, <1>6
  <1>7. QED
    BY <1>1, <1>2, <1>3, <1>4, <1>5, <1>6 DEF Next, ClientNext, ListenSocket, Plc, Rest

LEMMA NextType == TypeOK /\ [Next]_vars => TypeOK'
  <1> SUFFICES ASSUME TypeOK, [Next]_vars PROVE TypeOK'
    OBVIOUS
  <1>1. CoreTypeOK'
    BY StepIsCore, CoreType DEF TypeOK
  <1>2. requests' \subseteq Header
    BY NetStep DEF TypeOK, CoreTypeOK, NetMoves, Written
  <1>3. responses' \subseteq Response
    BY NetStep DEF TypeOK, Header, Response, NetMoves, Answers
  <1>4. QED
    BY <1>1, <1>2, <1>3, NetStep DEF TypeOK, NetMoves

(***************************************************************************)
(* Every variable keeps its type: sids stay bytes, whatever interleaves.   *)
(***************************************************************************)
THEOREM TypeCorrect == Spec => []TypeOK
  BY InitType, NextType, PTL DEF Spec

-----------------------------------------------------------------------------
(* Answers correlate.  AnswerBelongsToCall is not inductive: it needs the  *)
(* pairs of the client's state and of the datagrams to be one counter's.   *)

Seen == CoreSeen \cup requests \cup {Pair(m.sid, m.req) : m \in responses}

\* Only a network with leftovers carries a response that is nobody's answer.
ForeignInv ==
  /\ \A q \in requests : q.req # Foreign
  /\ "leftover" \notin Faults => \A m \in responses : m.req # Foreign
  /\ ListenerForeign

CorrelationInv ==
  TypeOK /\ OneCounter(Seen, issued) /\ CallInv /\ ForeignInv /\ AnswerBelongsToCall

LEMMA SeenType == TypeOK => Seen \subseteq Header
  BY CoreSeenType DEF TypeOK, Seen, Header, Response, Pair

LEMMA SeenTypeNext == TypeOK' => Seen' \subseteq Header
  BY CoreSeenTypeNext DEF TypeOK, Seen, Header, Response, Pair

\* The datagrams bring in no pair of their own.
LEMMA NetSeen ==
  ASSUME TypeOK, [Next]_vars,
         NEW a \in requests' \cup {Pair(m.sid, m.req) : m \in responses'}
  PROVE  a \in Seen
  <1>1. CASE a \in requests'
    BY <1>1, NetStep DEF Seen, CoreSeen, NetMoves, Written
  <1>2. ASSUME NEW m \in responses', a = Pair(m.sid, m.req) PROVE a \in Seen
    <2>1. CASE m \in responses
      BY <1>2, <2>1 DEF Seen
    <2>2. ASSUME NEW q \in requests, NEW e \in EndCodes,
                 m = [sid |-> q.sid, req |-> q.req, end |-> e]
          PROVE  a \in Seen
      <3>1. a = q
        BY <1>2, <2>2 DEF TypeOK, Header, Pair
      <3>2. QED
        BY <3>1 DEF Seen
    <2>3. QED
      BY <2>1, <2>2, NetStep DEF NetMoves, Answers
  <1>3. QED
    BY <1>1, <1>2

LEMMA OneCounterNext ==
  ASSUME TypeOK, TypeOK', OneCounter(Seen, issued), CallInv, [Next]_vars
  PROVE  OneCounter(Seen', issued')
  <1>1. Seen \subseteq Header /\ Seen' \subseteq Header /\ issued \in Nat /\ sid \in Sids
    BY SeenType, SeenTypeNext DEF TypeOK, CoreTypeOK
  <1>2. ASSUME NEW c \in Callers, TakeSid(c) PROVE OneCounter(Seen', issued')
    <2>1. /\ issued' = issued + 1
          /\ \A a \in CoreSeen' :
               a \in CoreSeen \/ a = Pair(NextSid(sid), issued + 1) \/ a.req = 0
      BY <1>2, TakeSidSeen DEF TypeOK
    <2>2. \A a \in Seen' : a \in Seen \/ a = Pair(NextSid(sid), issued + 1) \/ a.req = 0
      BY <2>1, NetSeen DEF Seen
    <2>3. Pair(sid, issued) \in Seen
      BY DEF Seen, CoreSeen
    <2>4. QED
      BY <1>1, <2>1, <2>2, <2>3, OneMore
  <1>3. ASSUME \A c \in Callers : ~TakeSid(c) PROVE OneCounter(Seen', issued')
    <2>1. Stale(responses)
      BY <1>3, StepIsCore, CoreStale DEF TypeOK
    <2>2. \A a \in Seen' : a \in Seen \/ a.req = 0
      BY <2>1, NetSeen DEF Stale, Seen
    <2>3. QED
      BY <1>1, <2>1, <2>2, NothingNew DEF Stale
  <1>4. QED
    BY <1>2, <1>3

LEMMA ForeignInvNext ==
  ASSUME TypeOK, CallInv, ForeignInv, [Next]_vars
  PROVE  ForeignInv'
  <1>1. \A q \in requests' : q.req # Foreign
    BY NetStep DEF ForeignInv, CallInv, InProgress, Foreign, NetMoves, Written, WriteReturns
  <1>2. "leftover" \notin Faults => \A m \in responses' : m.req # Foreign
    BY NetStep DEF ForeignInv, NetMoves, Answers
  <1>3. ListenerForeign'
    <2>1. ASSUME NEW m \in responses, Decode(m) PROVE ListenerForeign'
      BY <2>1 DEF Decode, Decoded, ListenerForeign, ForeignInv
    <2>2. CASE UNCHANGED listener
      BY <2>2 DEF ListenerForeign, ForeignInv
    <2>3. CASE listener' = Reading \/ listener' = Stopped
      BY <2>3 DEF ListenerForeign, Reading, Stopped
    <2>4. CASE ListenLookup
      BY <2>4 DEF ListenLookup, Sending, ListenerForeign, ForeignInv
    <2>5. ListenerMoves(responses)
      BY StepIsCore, ListenerStep
    <2>6. QED
      BY <2>1, <2>2, <2>3, <2>4, <2>5 DEF ListenerMoves
  <1>4. QED
    BY <1>1, <1>2, <1>3 DEF ForeignInv

LEMMA CorrelationInit == Init => CorrelationInv
  <1> SUFFICES ASSUME Init PROVE CorrelationInv
    OBVIOUS
  <1>1. \A a \in Seen : a.req = 0
    BY DEF Init, CoreInit, Seen, CoreSeen, ListenerPairs, Pair, Leftovers, Foreign, NilChan, Reading
  <1>2. OneCounter(Seen, issued)
    BY <1>1 DEF OneCounter, Follows, Init, CoreInit
  <1>3. ForeignInv
    BY DEF Init, CoreInit, ForeignInv, ListenerForeign, Reading
  <1>4. QED
    BY <1>2, <1>3, InitType, CallInvInit, AnswerInit DEF Init, CorrelationInv

LEMMA CorrelationNext == CorrelationInv /\ [Next]_vars => CorrelationInv'
  <1> SUFFICES ASSUME CorrelationInv, [Next]_vars PROVE CorrelationInv'
    OBVIOUS
  <1>1. TypeOK /\ TypeOK' /\ CoreTypeOK
    BY NextType DEF CorrelationInv, TypeOK
  <1>2. OneCounter(Seen', issued')
    BY <1>1, OneCounterNext DEF CorrelationInv
  <1>3. CallInv' /\ ForeignInv'
    BY <1>1, StepIsCore, CallInvNext, ForeignInvNext DEF CorrelationInv
  <1>4. OneCounter(CoreSeen, issued)
    BY DEF CorrelationInv, OneCounter, Seen
  <1>5. AnswerBelongsToCall'
    BY <1>1, <1>4, StepIsCore, AnswerNext DEF CorrelationInv, ForeignInv
  <1>6. QED
    BY <1>1, <1>2, <1>3, <1>5 DEF CorrelationInv

(***************************************************************************)
(* sendCommand never returns the answer to another of the last NSid        *)
(* requests, with any number of goroutines, locked or not, and whatever    *)
(* the network loses, delays, duplicates or reorders.                      *)
(***************************************************************************)
THEOREM AnswersCorrelate == Spec => []AnswerBelongsToCall
  <1>1. CorrelationInv => AnswerBelongsToCall
    BY DEF CorrelationInv
  <1>2. QED
    BY <1>1, CorrelationInit, CorrelationNext, PTL DEF Spec

(***************************************************************************)
(* A call waits on the channel made for its own request, or on one made at *)
(* least NSid requests before or after it, and never on none, however the  *)
(* unlocked operations interleave with its make, write and select.         *)
(***************************************************************************)
THEOREM CallsWaitOnTheirChannel == Spec => []WaitsOnOwnChannel
  <1>1. Init => CorrelationInv /\ MadeInv
    BY CorrelationInit, MadeInit DEF Init
  <1>2. CorrelationInv /\ MadeInv /\ [Next]_vars => (CorrelationInv /\ MadeInv)'
    <2> SUFFICES ASSUME CorrelationInv, MadeInv, [Next]_vars PROVE MadeInv'
      BY CorrelationNext
    <2>1. TypeOK /\ CoreTypeOK /\ CallInv
      BY DEF CorrelationInv, TypeOK
    <2>2. QED
      BY <2>1, StepIsCore, MadeNext
  <1>3. CorrelationInv /\ MadeInv => WaitsOnOwnChannel
    BY MadeIsOwn DEF CorrelationInv, TypeOK, OneCounter, Seen
  <1>4. QED
    BY <1>1, <1>2, <1>3, PTL DEF Spec

-----------------------------------------------------------------------------
(* A response the listener holds can be taken.  Beside what FinsClientProofs *)
(* says of the cells it needs that nothing in flight is yet to be written. *)

InFlight == {q.req : q \in requests} \cup {m.req : m \in responses}

HeldStrong == CorrelationInv /\ HeldInv /\ Unwritten(InFlight)

LEMMA InFlightNumbered ==
  ASSUME TypeOK, OneCounter(Seen, issued)
  PROVE  \A r \in InFlight : r # issued + 1
  <1>1. ASSUME NEW r \in InFlight PROVE \E a \in Seen : a.req = r
    <2>1. CASE \E q \in requests : r = q.req
      BY <2>1 DEF Seen
    <2>2. CASE \E m \in responses : r = m.req
      <3>1. PICK m \in responses : r = m.req
        BY <2>2
      <3>2. Pair(m.sid, m.req) \in Seen
        BY DEF Seen
      <3>3. QED
        BY <3>1, <3>2 DEF Pair
    <2>3. QED
      BY <1>1, <2>1, <2>2 DEF InFlight
  <1>2. \A a \in Seen : a.req <= issued /\ a.req \in Nat
    BY SeenType DEF OneCounter, Header
  <1>3. QED
    BY <1>1, <1>2 DEF TypeOK, CoreTypeOK

LEMMA HeldStrongNext == HeldStrong /\ [Next]_vars => HeldStrong'
  <1> SUFFICES ASSUME HeldStrong, [Next]_vars PROVE HeldStrong'
    OBVIOUS
  <1>1. /\ TypeOK /\ CoreTypeOK /\ CallInv /\ HeldInv /\ Unwritten(InFlight)
        /\ OneCounter(Seen, issued) /\ OneCounter(CoreSeen, issued)
    BY DEF HeldStrong, CorrelationInv, TypeOK, OneCounter, Seen
  <1>2. HeldInv'
    <2>1. Unwritten({m.req : m \in responses})
      BY <1>1 DEF Unwritten, InFlight
    <2>2. QED
      BY <1>1, <2>1, StepIsCore, HeldNext
  <1>3. Unwritten(InFlight)'
    <2>1. ASSUME NEW r \in InFlight'
          PROVE  r \in InFlight \/ \E d \in Callers : r = header[d].req /\ WriteReturns(d)
      BY <1>1, <2>1, NetStep DEF InFlight, NetMoves, Written, Answers
    <2>2. \A r \in InFlight : r # issued + 1
      BY <1>1, InFlightNumbered
    <2>3. \A c \in Callers : pc'[c] \in {"cell", "write"} => header'[c].req \notin InFlight'
      BY <1>1, <2>1, <2>2, StepIsCore, UnwrittenNext DEF HeldInv
    <2>4. QED
      BY <2>3 DEF Unwritten
  <1>4. QED
    BY <1>2, <1>3, CorrelationNext DEF HeldStrong

(***************************************************************************)
(* As long as no two calls share a service id, a listener that blocks on   *)
(* the answer to a call in progress blocks on the channel this call reads: *)
(* the only answers that can stop it are those nobody wants any more.      *)
(***************************************************************************)
THEOREM HeldAnswersAreTaken == Spec => []HeldAnswerCanBeTaken
  <1>1. Init => HeldStrong
    <2> SUFFICES ASSUME Init PROVE HeldStrong
      OBVIOUS
    <2>1. HeldInv /\ Unwritten(InFlight)
      BY HeldInit DEF Init, CoreInit, Unwritten
    <2>2. QED
      BY <2>1, CorrelationInit DEF HeldStrong
  <1>2. HeldStrong => HeldAnswerCanBeTaken
    BY HeldIsTaken DEF HeldStrong, CorrelationInv, TypeOK
  <1>3. QED
    BY <1>1, <1>2, HeldStrongNext, PTL DEF Spec

-----------------------------------------------------------------------------
(* Without timeouts, and where nothing is sent twice, the listener is never  *)
(* stuck: a call that has written its request waits until it is answered,    *)
(* and of the request and its response there is never more than one copy.    *)

Patient == Timeouts = {FALSE} /\ Faults \cap {"duplicate", "leftover", "split"} = {}

Waiting == {"select", "block"}
Awaited(r) == \E c \in Callers : pc[c] \in Waiting /\ header[c].req = r
WithListener == {r \in {listener.msg.req} : listener.at \in {"lookup", "send"}}

\* No two of the datagrams have one request.
Single(datagrams) == \A a, b \in datagrams : a.req = b.req => a = b

WaitedForInv ==
  /\ ~timed
  /\ \A c \in Callers : pc[c] # "wait"
  /\ \A r \in InFlight \cup WithListener : Awaited(r)
  /\ Single(requests) /\ Single(responses)
  /\ \A q \in requests, m \in responses : q.req # m.req
  /\ InFlight \cap WithListener = {}

PatientInv == HeldStrong /\ (Patient /\ ~reused => WaitedForInv)

LEMMA OnceReusedAlwaysReused == ASSUME [Next]_vars PROVE reused => reused'
  <1>1. ASSUME NEW c \in Callers, (\E k \in Ops : Call(c, k)) \/ Lock(c) \/ CallerStep(c)
        PROVE  reused => reused'
    BY <1>1 DEF Call, Lock, CallerStep, RejectArea, TakeSid, MakeCell, EnterSelect, Receive,
                Timeout, Return, clientVars
  <1>2. ASSUME (\E b \in Timeouts : SetTimeoutMs(b)) \/ Close \/ ListenLookup
        PROVE  reused => reused'
    BY <1>2 DEF SetTimeoutMs, Close, SetClosed, CloseSocket, ListenLookup, clientVars
  <1>3. ASSUME NEW c \in Callers, Write(c) \/ WriteFails(c) PROVE reused => reused'
    BY <1>3 DEF Write, WriteFails, WriteReturns, WriteError, Return, clientVars
  <1>4. ASSUME ListenSocket \/ Network \/ Plc \/ Rest \/ UNCHANGED vars PROVE reused => reused'
    BY <1>4 DEF ListenSocket, ListenRead, Decode, ListenFails, GiveUp, Network, Lose, Refuse,
                Plc, PlcAnswer, Rest, coreVars, clientVars, vars
  <1>5. QED
    BY <1>1, <1>2, <1>3, <1>4 DEF Next, ClientNext, CoreStep

\* A caller that waits goes on waiting, but for the one the listener answers.
LEMMA StillAwaited ==
  ASSUME CoreTypeOK, HeldInv, ~reused, WaitedForInv, [Next]_vars,
         NEW r, Awaited(r),
         \A c \in Callers : Receive(c) => r \notin WithListener
  PROVE  Awaited(r)'
  <1>1. PICK c \in Callers : pc[c] \in Waiting /\ header[c].req = r
    BY DEF Awaited
  <1>2. CASE Receive(c)
    <2>1. /\ listener.at = "send" /\ listener.chan = chan[c] /\ pc[c] = "block"
          /\ listener.msg.req \in WithListener
      BY <1>1, <1>2 DEF Receive, WithListener, Waiting
    <2>2. PICK d \in Callers : pc[d] \in Waiting /\ header[d].req = listener.msg.req
      BY <2>1 DEF WaitedForInv, Awaited
    <2>3. listener.chan = header[d].req /\ chan[c] = header[c].req
      BY <2>1, <2>2 DEF HeldInv, CellInv, ListenerHeld, InProgress, Waiting
    <2>4. QED
      BY <1>1, <1>2, <2>1, <2>2, <2>3
  <1>3. CASE ~Receive(c)
    <2>1. header'[c] = header[c] /\ pc'[c] \in Waiting
      BY <1>1, <1>3, StepIsCore, StaysWaiting DEF WaitedForInv, Waiting
    <2>2. QED
      BY <1>1, <2>1 DEF Awaited
  <1>4. QED
    BY <1>2, <1>3

LEMMA WaitedForNext ==
  ASSUME TypeOK, HeldInv, Unwritten(InFlight), Patient, ~reused, WaitedForInv, [Next]_vars
  PROVE  WaitedForInv'
  <1> DEFINE Moved == InFlight' \cap WithListener' = {}
                      /\ Single(requests)' /\ Single(responses)'
                      /\ \A q \in requests', m \in responses' : q.req # m.req
  <1>1. ~timed' /\ \A c \in Callers : pc'[c] # "wait"
    BY StepIsCore, NobodyTimes DEF TypeOK, Patient, WaitedForInv
  <1>2. \A r \in InFlight \cup (WithListener \cap WithListener') : Awaited(r)'
    <2>1. \A c \in Callers : Receive(c) => WithListener' = {}
      BY DEF Receive, WithListener, Reading
    <2> SUFFICES ASSUME NEW r \in InFlight \cup (WithListener \cap WithListener')
                 PROVE  Awaited(r)'
      OBVIOUS
    <2>2. Awaited(r) /\ \A c \in Callers : Receive(c) => r \notin WithListener
      BY <2>1 DEF WaitedForInv
    <2>3. QED
      BY <2>2, StillAwaited DEF TypeOK
  <1>3. ASSUME NEW c \in Callers, Write(c)
        PROVE  (\A r \in (InFlight \cup WithListener)' : Awaited(r)') /\ Moved
    <2>1. /\ requests' = requests \cup {header[c]} /\ UNCHANGED <<responses, listener>>
          /\ pc[c] = "write" /\ pc'[c] = "select" /\ header'[c] = header[c]
      BY <1>3 DEF Write, WriteReturns, Goto, listenVars, TypeOK, CoreTypeOK
    <2>2. header[c].req \notin InFlight
      BY <2>1 DEF Unwritten
    <2>3. header[c].req \notin WithListener
      BY <2>1 DEF HeldInv, ListenerHeld, WithListener, InProgress
    <2>4. WithListener' = WithListener /\ InFlight' = InFlight \cup {header[c].req}
      BY <2>1 DEF WithListener, InFlight
    <2>5. ASSUME NEW r, r = header[c].req PROVE Awaited(r)'
      BY <2>1, <2>5 DEF Awaited, Waiting
    <2>6. Moved
      BY <2>1, <2>2, <2>3, <2>4 DEF WaitedForInv, Single, InFlight
    <2>7. QED
      BY <1>2, <2>4, <2>5, <2>6
  <1>4. ASSUME NEW m \in responses, ListenRead(m)
        PROVE  (\A r \in (InFlight \cup WithListener)' : Awaited(r)') /\ Moved
    <2>1. /\ responses' = responses \ {m} /\ UNCHANGED requests
          /\ listener' = Decoded(m)
      BY <1>4 DEF ListenRead, Decode, AfterTaking, Patient
    <2>2. WithListener' = {m.req}
      BY <2>1 DEF WithListener, Decoded
    <2>3. InFlight' \subseteq InFlight /\ m.req \in InFlight /\ m.req \notin InFlight'
      BY <2>1 DEF InFlight, WaitedForInv, Single
    <2>4. Moved
      BY <2>1, <2>2, <2>3 DEF WaitedForInv, Single
    <2>5. QED
      BY <1>2, <2>2, <2>3, <2>4
  <1>5. ASSUME NEW q \in requests, NEW e \in EndCodes, PlcAnswer(q, e)
        PROVE  (\A r \in (InFlight \cup WithListener)' : Awaited(r)') /\ Moved
    <2> DEFINE m == [sid |-> q.sid, req |-> q.req, end |-> e]
    <2>1. /\ requests' = requests \ {q} /\ responses' = responses \cup {m}
          /\ UNCHANGED listener
      BY <1>5 DEF PlcAnswer, AfterTaking, Patient, coreVars, listenVars
    <2>2. m.req = q.req
      OBVIOUS
    <2> HIDE DEF m
    <2>3. WithListener' = WithListener /\ InFlight' \subseteq InFlight
      BY <2>1, <2>2 DEF WithListener, InFlight
    <2>4. Moved
      BY <2>1, <2>2, <2>3 DEF WaitedForInv, Single
    <2>5. QED
      BY <1>2, <2>3, <2>4
  <1>6. ASSUME requests' \subseteq requests, responses' \subseteq responses,
               WithListener' \subseteq WithListener
        PROVE  (\A r \in (InFlight \cup WithListener)' : Awaited(r)') /\ Moved
    <2>1. InFlight' \subseteq InFlight
      BY <1>6 DEF InFlight
    <2>2. Moved
      BY <1>6, <2>1 DEF WaitedForInv, Single
    <2>3. QED
      BY <1>2, <1>6, <2>1, <2>2
  <1>7. ASSUME Lose \/ (\E q \in requests : Refuse(q)) \/ Rest \/ UNCHANGED vars
        PROVE  /\ requests' \subseteq requests /\ responses' \subseteq responses
               /\ WithListener' \subseteq WithListener
    BY <1>7 DEF Lose, Refuse, Rest, vars, netVars, coreVars, listenVars, WithListener
  <1>8. ASSUME (\E c \in Callers : WriteFails(c)) \/ ListenFails
        PROVE  /\ requests' \subseteq requests /\ responses' \subseteq responses
               /\ WithListener' \subseteq WithListener
    BY <1>8 DEF WriteFails, WriteError, ListenFails, GiveUp, listenVars, WithListener, Stopped
  <1>9. ASSUME CoreStep, UNCHANGED netVars
        PROVE  /\ requests' \subseteq requests /\ responses' \subseteq responses
               /\ WithListener' \subseteq WithListener
    <2>1. \/ UNCHANGED listener
          \/ listener' = Reading
          \/ listener.at = "lookup" /\ listener'.at = "send" /\ listener'.msg = listener.msg
      BY <1>9 DEF CoreStep, CallerStep, Call, Lock, RejectArea, TakeSid, MakeCell, EnterSelect,
                  Receive, Timeout, SetTimeoutMs, Close, SetClosed, CloseSocket, ListenLookup,
                  Sending, listenVars
    <2>2. QED
      BY <1>9, <2>1 DEF WithListener, Reading, netVars
  <1>10. (\A r \in (InFlight \cup WithListener)' : Awaited(r)') /\ Moved
    BY <1>3, <1>4, <1>5, <1>6, <1>7, <1>8, <1>9
    DEF Next, ClientNext, ListenSocket, Plc, Network
  <1>11. QED
    BY <1>1, <1>10 DEF WaitedForInv

(***************************************************************************)
(* Where calls have no timeout, the network sends nothing twice and no two *)
(* calls share a service id, every response the listener holds has a       *)
(* caller that takes it: listenLoop never blocks for good.                 *)
(***************************************************************************)
THEOREM PatientListenerIsFree == Spec => []ListenerNeverStuck
  <1>1. Init => PatientInv
    <2> SUFFICES ASSUME Init PROVE PatientInv
      OBVIOUS
    <2>1. HeldStrong
      BY CorrelationInit, HeldInit DEF HeldStrong, Init, CoreInit, Unwritten
    <2>2. Patient => WaitedForInv
      BY DEF Init, CoreInit, Patient, WaitedForInv, InFlight, WithListener, Reading, Single
    <2>3. QED
      BY <2>1, <2>2 DEF PatientInv
  <1>2. PatientInv /\ [Next]_vars => PatientInv'
    <2> SUFFICES ASSUME PatientInv, [Next]_vars PROVE PatientInv'
      OBVIOUS
    <2>1. HeldStrong /\ HeldStrong' /\ TypeOK /\ HeldInv /\ Unwritten(InFlight)
      BY HeldStrongNext DEF PatientInv, HeldStrong, CorrelationInv
    <2>2. ASSUME Patient, ~reused' PROVE WaitedForInv'
      BY <2>1, <2>2, OnceReusedAlwaysReused, WaitedForNext DEF PatientInv
    <2>3. QED
      BY <2>1, <2>2 DEF PatientInv, Patient
  <1>3. PatientInv => ListenerNeverStuck
    <2> SUFFICES ASSUME PatientInv, Patient, ~reused, listener.at = "send"
                 PROVE  \E c \in Callers : CanTake(c)
      BY DEF ListenerNeverStuck, Patient
    <2>1. PICK c \in Callers : pc[c] \in Waiting /\ header[c].req = listener.msg.req
      BY DEF PatientInv, WaitedForInv, WithListener, Awaited
    <2>2. HeldAnswerCanBeTaken
      BY HeldIsTaken DEF PatientInv, HeldStrong, CorrelationInv, TypeOK
    <2>3. QED
      BY <2>1, <2>2 DEF HeldAnswerCanBeTaken, InProgress, Waiting
  <1>4. QED
    BY <1>1, <1>2, <1>3, PTL DEF Spec

-----------------------------------------------------------------------------
(***************************************************************************)
(* An application that uses only the operations that hold c.mu never has   *)
(* two calls in progress under one service id.                             *)
(***************************************************************************)
THEOREM LockedCallsAreSafe == Spec => []LockedCallsShareNoCell
  <1>1. Init => TypeOK /\ LockedInv
    BY InitType, LockedInit DEF Init
  <1>2. TypeOK /\ LockedInv /\ [Next]_vars => (TypeOK /\ LockedInv)'
    <2> SUFFICES ASSUME TypeOK, LockedInv, [Next]_vars PROVE (TypeOK /\ LockedInv)'
      OBVIOUS
    <2>1. QED
      BY NextType, StepIsCore, LockedNext DEF TypeOK
  <1>3. LockedInv => LockedCallsShareNoCell
    BY DEF LockedInv
  <1>4. QED
    BY <1>1, <1>2, <1>3, PTL DEF Spec

-----------------------------------------------------------------------------
(* The log of listenLoop.  Close sets c.closed before it closes the socket *)
(* and nothing resets it; the only other error comes of a refused datagram.*)

USE DEF coreVars, clientVars, callVars, listenVars, Goto, Return

CloseInv ==
  /\ ~connOpen => closed
  /\ sockErr => "refuse" \in Faults
  /\ NoComplaintOnUserClose

LEMMA CloseInvNext ==
  ASSUME CloseInv, [Next]_vars
  PROVE  CloseInv'
  <1>1. ASSUME NEW c \in Callers, Write(c) PROVE CloseInv'
    BY <1>1 DEF Write, WriteReturns, CloseInv, NoComplaintOnUserClose
  <1>2. ASSUME NEW c \in Callers, WriteFails(c) PROVE CloseInv'
    BY <1>2 DEF WriteFails, WriteError, CloseInv, NoComplaintOnUserClose
  <1>3. ASSUME NEW m \in responses, ListenRead(m) PROVE CloseInv'
    BY <1>3 DEF ListenRead, Decode, CloseInv, NoComplaintOnUserClose
  <1>4. CASE ListenFails
    BY <1>4 DEF ListenFails, GiveUp, CloseInv, NoComplaintOnUserClose
  <1>5. CASE Plc \/ Network
    BY <1>5 DEF Plc, PlcAnswer, Network, Lose, Refuse, CloseInv, NoComplaintOnUserClose
  <1>6. CASE CoreStep /\ UNCHANGED netVars
    <2>1. ASSUME NEW c \in Callers, (\E k \in Ops : Call(c, k)) \/ Lock(c) \/ CallerStep(c)
          PROVE  UNCHANGED <<closed, connOpen, complained>>
      BY <2>1 DEF Call, Lock, CallerStep, RejectArea, TakeSid, MakeCell, EnterSelect, Receive,
                  Timeout
    <2>2. ASSUME (\E b \in Timeouts : SetTimeoutMs(b)) \/ ListenLookup
          PROVE  UNCHANGED <<closed, connOpen, complained>>
      BY <2>2 DEF SetTimeoutMs, ListenLookup
    <2>3. CASE Close
      BY <1>6, <2>3 DEF Close, SetClosed, CloseSocket, CloseInv, NoComplaintOnUserClose
    <2>4. CASE UNCHANGED <<closed, connOpen, complained>>
      BY <1>6, <2>4 DEF CloseInv, NoComplaintOnUserClose
    <2>5. QED
      BY <1>6, <2>1, <2>2, <2>3, <2>4 DEF CoreStep
  <1>7. CASE UNCHANGED vars
    BY <1>7 DEF CloseInv, NoComplaintOnUserClose
  <1>8. QED
    BY <1>1, <1>2, <1>3, <1>4, <1>5, <1>6, <1>7 DEF Next, ClientNext, ListenSocket, Rest

(***************************************************************************)
(* listenLoop does not log a failure when the user closes the client,      *)
(* wherever it and the calls are at that moment: what it logs comes of a   *)
(* refused datagram (client_udp.go:63-68, 524-531).                        *)
(***************************************************************************)
THEOREM CloseIsQuiet == Spec => []NoComplaintOnUserClose
  <1>1. Init => CloseInv
    BY DEF Init, CoreInit, CloseInv, NoComplaintOnUserClose
  <1>2. CloseInv => NoComplaintOnUserClose
    BY DEF CloseInv
  <1>3. CloseInv /\ [Next]_vars => CloseInv'
    BY CloseInvNext
  <1>4. QED
    BY <1>1, <1>2, <1>3, PTL DEF Spec
=============================================================================
