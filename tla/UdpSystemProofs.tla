-------------------------- MODULE UdpSystemProofs --------------------------
(***************************************************************************)
(* UdpSystem implements PlcService, for every number of callers, service   *)
(* ids and requests and every fault but a former client's leftovers.       *)
(***************************************************************************)
EXTENDS UdpSystem, UdpClientProofs

USE DEF vars, netVars, coreVars, clientVars, callVars, listenVars, Goto, Return, Unlocked

\* What travels to the PLC was asked, what travels back was carried out.
InFlightInv ==
  /\ \A q \in requests : q.req \in 1 .. issued
  /\ \A m \in responses : [req |-> m.req, end |-> m.end] \in done
  /\ listener.at \in {"lookup", "send"} =>
       [req |-> listener.msg.req, end |-> listener.msg.end] \in done

\* A caller that has not asked yet has no result, and neither has one in progress.
FreshInv == \A c \in Callers : pc[c] # "idle" => result[c] = NoResult

SystemInv == CorrelationInv /\ InFlightInv /\ FreshInv

-----------------------------------------------------------------------------
LEMMA SysStepIsNext == ASSUME [SysNext]_<<vars, done>> PROVE [Next]_vars
  BY DEF SysNext, Next, Serve, Plc

LEMMA FreshInvNext ==
  ASSUME CoreTypeOK, FreshInv, NEW arrived, CoreNext(arrived) \/ UNCHANGED coreVars
  PROVE  FreshInv'
  <1>1. ASSUME NEW c \in Callers, NEW k \in Ops, Call(c, k) PROVE FreshInv'
    BY <1>1 DEF Call, FreshInv, NoResult, CoreTypeOK
  <1>2. ASSUME NEW c \in Callers, RejectArea(c) \/ WriteError(c) \/ Receive(c) \/ Timeout(c)
        PROVE  FreshInv'
    BY <1>2 DEF RejectArea, WriteError, Receive, Timeout, FreshInv, NoResult, CoreTypeOK
  <1>3. ASSUME NEW c \in Callers,
               Lock(c) \/ TakeSid(c) \/ MakeCell(c) \/ WriteReturns(c) \/ EnterSelect(c)
        PROVE  FreshInv'
    BY <1>3 DEF Lock, TakeSid, MakeCell, WriteReturns, EnterSelect, FreshInv, NoResult, CoreTypeOK
  <1>4. CASE UNCHANGED callVars
    BY <1>4 DEF FreshInv, NoResult
  <1>5. QED
    BY <1>1, <1>2, <1>3, <1>4
    DEF CoreNext, CoreStep, CallerStep, SetTimeoutMs, ListenLookup, Decode, GiveUp,
        Close, SetClosed, CloseSocket

\* Numbers only go up, and what was carried out stays so.
LEMMA Grows ==
  ASSUME CorrelationInv, [SysNext]_<<vars, done>>
  PROVE  issued \in Nat /\ issued' \in Nat /\ issued <= issued' /\ done \subseteq done'
  <1>1. TypeOK /\ TypeOK' /\ CoreTypeOK
    BY SysStepIsNext, NextType DEF CorrelationInv, TypeOK
  <1>2. issued \in Nat /\ issued' \in Nat
    BY <1>1 DEF TypeOK, CoreTypeOK
  <1>3. done \subseteq done'
    BY DEF SysNext, Serve
  <1>4. issued <= issued'
    <2>1. ASSUME NEW c \in Callers, TakeSid(c) PROVE issued' = issued + 1
      BY <2>1 DEF TakeSid
    <2>2. CASE \A c \in Callers : ~TakeSid(c)
      BY <1>1, <2>2, SysStepIsNext, StepIsCore, CoreStale, <1>2 DEF Stale
    <2>3. QED
      BY <2>1, <2>2, <1>2
  <1>5. QED
    BY <1>2, <1>3, <1>4

\* Only the PLC puts a response in flight.
LEMMA ClientKeepsResponses == ASSUME ClientNext PROVE responses' \subseteq responses
  <1>1. ASSUME NEW c \in Callers, Write(c) \/ WriteFails(c) PROVE UNCHANGED responses
    BY <1>1 DEF Write, WriteFails
  <1>2. ASSUME NEW m \in responses, ListenRead(m) PROVE responses' \subseteq responses
    BY <1>2, AfterTakingType DEF ListenRead
  <1>3. CASE ListenFails \/ Network \/ Rest
    BY <1>3 DEF ListenFails, Network, Lose, Refuse, Rest
  <1>4. QED
    BY <1>1, <1>2, <1>3 DEF ClientNext, ListenSocket

LEMMA InFlightNext ==
  ASSUME SystemInv, [SysNext]_<<vars, done>>
  PROVE  InFlightInv'
  <1>1. TypeOK /\ CoreTypeOK /\ [Next]_vars
    BY SysStepIsNext DEF SystemInv, CorrelationInv, TypeOK
  <1>2. issued \in Nat /\ issued' \in Nat /\ issued <= issued' /\ done \subseteq done'
    BY Grows DEF SystemInv
  <1>3. ASSUME NEW q \in requests' PROVE q.req \in 1 .. issued'
    <2>1. CASE q \in requests
      BY <1>2, <2>1 DEF SystemInv, InFlightInv
    <2>2. CASE q \in Written
      <3>1. PICK c \in Callers : pc[c] = "write" /\ q = header[c]
        BY <2>2 DEF Written, WriteReturns
      <3>2. q.req # 0 /\ q.req \in Nat /\ q \in Seen
        BY <3>1, <1>1 DEF SystemInv, CorrelationInv, CallInv, InProgress, CoreTypeOK, Header,
           Seen, CoreSeen
      <3>3. q.req <= issued
        BY <3>2 DEF SystemInv, CorrelationInv, OneCounter
      <3>4. QED
        BY <1>2, <3>2, <3>3
    <2>3. QED
      BY <1>1, <2>1, <2>2, NetStep DEF NetMoves
  <1>4. ASSUME NEW m \in responses' PROVE [req |-> m.req, end |-> m.end] \in done'
    <2>1. ASSUME responses' \subseteq responses, UNCHANGED done
          PROVE  [req |-> m.req, end |-> m.end] \in done'
      BY <2>1 DEF SystemInv, InFlightInv
    <2>2. ASSUME NEW q \in requests, NEW e \in EndCodes, Serve(q, e)
          PROVE  [req |-> m.req, end |-> m.end] \in done'
      BY <2>2 DEF Serve, PlcAnswer, SystemInv, InFlightInv
    <2>3. ClientNext => responses' \subseteq responses
      BY ClientKeepsResponses
    <2>4. QED
      BY <2>1, <2>2, <2>3 DEF SysNext
  <1>5. ASSUME listener'.at \in {"lookup", "send"}
        PROVE  [req |-> listener'.msg.req, end |-> listener'.msg.end] \in done'
    <2>1. CASE UNCHANGED listener
      BY <1>2, <1>5, <2>1 DEF SystemInv, InFlightInv
    <2>2. CASE ListenLookup
      BY <1>2, <2>2 DEF ListenLookup, Sending, SystemInv, InFlightInv
    <2>3. ASSUME NEW m \in responses, Decode(m)
          PROVE  [req |-> listener'.msg.req, end |-> listener'.msg.end] \in done'
      BY <1>2, <2>3 DEF Decode, Decoded, SystemInv, InFlightInv
    <2>4. CASE listener' \in {Reading, Stopped}
      BY <1>5, <2>4 DEF Reading, Stopped
    <2>5. QED
      BY <1>1, <2>1, <2>2, <2>3, <2>4, StepIsCore, ListenerStep DEF ListenerMoves
  <1>6. QED
    BY <1>3, <1>4, <1>5 DEF InFlightInv

LEMMA SystemInit == SysInit => SystemInv /\ Promise!Init
  <1> SUFFICES ASSUME SysInit PROVE SystemInv /\ Promise!Init
    OBVIOUS
  <1>1. responses = {} /\ requests = {} /\ listener = Reading
    BY NoLeftovers DEF SysInit, Init, CoreInit
  <1>2. InFlightInv
    BY <1>1 DEF InFlightInv, Reading
  <1>3. FreshInv
    BY DEF SysInit, Init, CoreInit, FreshInv
  <1>4. Promise!Init
    BY DEF SysInit, Init, CoreInit, Promise!Init, Asking, InProgress, NoResult, Foreign, Promise!NoResult
  <1>5. QED
    BY <1>2, <1>3, <1>4, CorrelationInit DEF SysInit, SystemInv

LEMMA SystemNext == SystemInv /\ [SysNext]_<<vars, done>> => SystemInv'
  <1> SUFFICES ASSUME SystemInv, [SysNext]_<<vars, done>> PROVE SystemInv'
    OBVIOUS
  <1>1. CorrelationInv'
    BY SysStepIsNext, CorrelationNext DEF SystemInv
  <1>2. FreshInv'
    BY SysStepIsNext, StepIsCore, FreshInvNext DEF SystemInv, CorrelationInv, TypeOK
  <1>3. QED
    BY <1>1, <1>2, InFlightNext DEF SystemInv

-----------------------------------------------------------------------------
(* The steps, as PlcService sees them *)

LEMMA AskingStays ==
  ASSUME header' = header,
         \A c \in Callers : pc'[c] \in InProgress <=> pc[c] \in InProgress
  PROVE  Asking' = Asking
  BY DEF Asking

LEMMA AskingEnds ==
  ASSUME CoreTypeOK, NEW c \in Callers, NEW kind, NEW got, Return(c, kind, got)
  PROVE  Asking' = [Asking EXCEPT ![c] = 0]
  BY DEF Asking, CoreTypeOK, InProgress

LEMMA CallerKeepsPromise ==
  ASSUME SystemInv, CoreTypeOK, NEW c \in Callers, UNCHANGED done,
         \/ \E k \in Ops : Call(c, k)
         \/ Lock(c) \/ CallerStep(c) \/ WriteReturns(c) \/ WriteError(c)
  PROVE  [Promise!Next]_(Promise!vars)
  <1>1. ASSUME NEW k \in Ops, Call(c, k) PROVE Promise!Begin(c)
    <2>1. Asking' = Asking
      BY <1>1, AskingStays DEF Call, CoreTypeOK, InProgress
    <2>2. QED
      BY <1>1, <2>1
      DEF Call, Promise!Begin, Promise!NoResult, NoResult, Foreign, Asking, InProgress
  <1>2. CASE RejectArea(c)
    <2>1. Asking' = [Asking EXCEPT ![c] = 0]
      BY <1>2, AskingEnds DEF RejectArea
    <2>2. Asking[c] = 0 /\ result[c] = NoResult
      BY <1>2 DEF RejectArea, Asking, InProgress, SystemInv, FreshInv
    <2>3. Promise!Fail(c, "badarea")
      BY <1>2, <2>1, <2>2
      DEF RejectArea, Promise!Fail, Promise!NoResult, NoResult, Foreign
    <2>4. QED
      BY <2>3 DEF Promise!Next
  <1>3. CASE TakeSid(c)
    <2>1. Asking' = [Asking EXCEPT ![c] = issued + 1] /\ Asking[c] = 0
      BY <1>3 DEF TakeSid, Asking, InProgress, CoreTypeOK
    <2>2. result[c] = NoResult
      BY <1>3 DEF TakeSid, SystemInv, FreshInv
    <2>3. Promise!Ask(c)
      BY <1>3, <2>1, <2>2 DEF TakeSid, Promise!Ask, Promise!NoResult, NoResult, Foreign
    <2>4. QED
      BY <2>3 DEF Promise!Next
  <1>4. ASSUME NEW kind \in {"neterror", "timeout"}, pc[c] \in InProgress,
               Return(c, kind, Foreign)
        PROVE  Promise!Fail(c, kind)
    <2>1. Asking' = [Asking EXCEPT ![c] = 0]
      BY <1>4, AskingEnds
    <2>2. Asking[c] # 0 /\ result[c] = NoResult
      BY <1>4 DEF Asking, SystemInv, CorrelationInv, CallInv, FreshInv, InProgress
    <2>3. QED
      BY <1>4, <2>1, <2>2 DEF Promise!Fail, Promise!NoResult, NoResult, Foreign
  <1>5. CASE WriteError(c) \/ Timeout(c)
    BY <1>4, <1>5 DEF WriteError, Timeout, InProgress, Promise!Next
  <1>6. CASE Receive(c)
    <2> DEFINE d == [req |-> listener.msg.req, end |-> listener.msg.end]
    <2>1. d \in done
      BY <1>6 DEF Receive, SystemInv, InFlightInv
    <2>2. Asking' = [Asking EXCEPT ![c] = 0]
      BY <1>6, AskingEnds DEF Receive
    <2>3. Asking[c] = header[c].req /\ Asking[c] # 0
      BY <1>6 DEF Receive, Asking, InProgress, SystemInv, CorrelationInv, CallInv
    <2>4. OneCounter(CoreSeen, issued)
      BY DEF SystemInv, CorrelationInv, OneCounter, Seen
    <2>5. Faults \cap {"leftover", "split"} = {}
      BY NoLeftovers, UdpAssumption
    <2>6. Promise!Interchangeable(d.req, Asking[c])
      BY <1>6, <2>3, <2>4, <2>5, ReceivedIsAsked
      DEF Promise!Interchangeable, SystemInv, CorrelationInv, ForeignInv
    <2>7. Promise!Answer(c, d)
      BY <1>6, <2>2, <2>3, <2>6 DEF Receive, Promise!Answer, Promise!KindOf
    <2>8. QED
      BY <2>1, <2>7 DEF Promise!Next
  <1>7. CASE Lock(c) \/ MakeCell(c) \/ WriteReturns(c) \/ EnterSelect(c)
    <2>1. Asking' = Asking
      BY <1>7, AskingStays DEF Lock, MakeCell, WriteReturns, EnterSelect, CoreTypeOK, InProgress
    <2>2. QED
      BY <1>7, <2>1 DEF Lock, MakeCell, WriteReturns, EnterSelect, Promise!vars
  <1>8. QED
    BY <1>1, <1>2, <1>3, <1>5, <1>6, <1>7 DEF CallerStep, Promise!Next

LEMMA StepKeepsPromise ==
  ASSUME SystemInv, [SysNext]_<<vars, done>>
  PROVE  [Promise!Next]_(Promise!vars)
  <1>1. CoreTypeOK
    BY DEF SystemInv, CorrelationInv, TypeOK
  <1>2. ASSUME NEW q \in requests, NEW e \in EndCodes, Serve(q, e)
        PROVE  [Promise!Next]_(Promise!vars)
    <2>1. Asking' = Asking
      BY <1>2, AskingStays DEF Serve, PlcAnswer
    <2>2. Promise!CarryOut(q.req, e) /\ q.req \in 1 .. issued
      BY <1>2, <2>1 DEF Serve, PlcAnswer, Promise!CarryOut, SystemInv, InFlightInv
    <2>3. QED
      BY <2>2 DEF Promise!Next
  <1>3. ASSUME UNCHANGED <<callVars, issued, done>> PROVE [Promise!Next]_(Promise!vars)
    BY <1>3, AskingStays DEF Promise!vars
  <1>4. CASE UNCHANGED done /\ (CoreNext(responses) \/ UNCHANGED coreVars)
    <2>1. ASSUME NEW c \in Callers,
                 \/ \E k \in Ops : Call(c, k)
                 \/ Lock(c) \/ CallerStep(c) \/ WriteReturns(c) \/ WriteError(c)
          PROVE  [Promise!Next]_(Promise!vars)
      BY <1>1, <1>4, <2>1, CallerKeepsPromise
    <2>2. CASE \/ \E b \in Timeouts : SetTimeoutMs(b)
               \/ ListenLookup \/ Close \/ GiveUp
               \/ \E m \in responses : Decode(m)
               \/ UNCHANGED coreVars
      BY <1>3, <1>4, <2>2
      DEF SetTimeoutMs, ListenLookup, Close, SetClosed, CloseSocket, GiveUp, Decode
    <2>3. QED
      BY <1>4, <2>1, <2>2 DEF CoreNext, CoreStep
  <1>5. QED
    BY <1>2, <1>4, SysStepIsNext, StepIsCore DEF SysNext

(***************************************************************************)
(* The client implements PlcService: see KeepsPromise.  Every step of the  *)
(* system is a step of the promise or leaves its variables alone.          *)
(***************************************************************************)
THEOREM ClientKeepsPromise == SysSpec => KeepsPromise
  <1>1. SystemInv /\ [SysNext]_<<vars, done>> => [Promise!Next]_(Promise!vars)
    BY StepKeepsPromise
  <1>2. QED
    BY <1>1, SystemInit, SystemNext, PTL DEF SysSpec, KeepsPromise, Promise!Spec
=============================================================================
