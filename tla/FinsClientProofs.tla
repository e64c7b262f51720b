-------------------------- MODULE FinsClientProofs --------------------------
(***************************************************************************)
(* Facts about FinsClient that hold whatever the transport does, for every *)
(* number of callers, service ids and requests.  A transport's module      *)
(* shows that each of its steps is a CoreNext step or leaves the core      *)
(* alone, and gets type correctness, mutual exclusion and the correlation  *)
(* of answers from the lemmas here.                                        *)
(***************************************************************************)
EXTENDS FinsClient, TLAPS

\* The definitions every step of a proof about the actions expands.
USE DEF coreVars, clientVars, callVars, listenVars, Goto, Return, Unlocked

\* What a transport may make the client do; it reads responses out of arrived.
CoreNext(arrived) ==
  \/ CoreStep
  \/ \E c \in Callers : WriteReturns(c) \/ WriteError(c)
  \/ \E m \in arrived : Decode(m)
  \/ GiveUp

-----------------------------------------------------------------------------
(* Type correctness *)

LEMMA SidsType == 0 \in Sids /\ Sids \subseteq Nat /\ (\A s \in Sids : NextSid(s) \in Sids)
  BY ConstantsAssumption DEF Sids, NextSid

LEMMA CoreInitType == CoreInit => CoreTypeOK
  <1> SUFFICES ASSUME CoreInit PROVE CoreTypeOK
    OBVIOUS
  <1> QED
    BY SidsType, ConstantsAssumption
    DEF CoreInit, CoreTypeOK, Pcs, Header, NoResult, Outcomes, NilChan, Foreign, Reading

LEMMA ReturnType ==
  ASSUME CoreTypeOK, NEW c \in Callers, NEW kind \in Outcomes, NEW got \in Nat,
         Return(c, kind, got)
  PROVE  /\ pc' \in [Callers -> Pcs]
         /\ result' \in [Callers -> [kind : Outcomes, got : Nat]]
         /\ mu' \in Callers \cup {NoCaller}
         /\ op' \in [Callers -> OpKinds \cup {"none"}]
         /\ chan' \in [Callers -> Nat]
         /\ header' \in [Callers -> Header]
         /\ sid' \in Sids /\ resp' \in [Sids -> Nat] /\ timed' \in BOOLEAN
         /\ closed' \in BOOLEAN /\ connOpen' \in BOOLEAN
         /\ issued' \in Nat /\ reused' \in BOOLEAN
  BY DEF CoreTypeOK, Pcs, NilChan

\* A step of a caller keeps the types.
LEMMA CallerType ==
  ASSUME CoreTypeOK, NEW c \in Callers,
         \/ \E k \in Ops : Call(c, k)
         \/ Lock(c) \/ CallerStep(c) \/ WriteReturns(c) \/ WriteError(c)
  PROVE  CoreTypeOK'
  <1>1. ASSUME NEW k \in Ops, Call(c, k) PROVE CoreTypeOK'
    BY <1>1, ConstantsAssumption DEF Call, CoreTypeOK, Pcs, NoResult, Outcomes, Foreign
  <1>2. CASE Lock(c)
    BY <1>2 DEF Lock, CoreTypeOK, Pcs
  <1>3. CASE RejectArea(c)
    BY <1>3, ReturnType DEF RejectArea, CoreTypeOK, Outcomes, Foreign
  <1>4. CASE TakeSid(c)
    BY <1>4, SidsType DEF TakeSid, CoreTypeOK, Pcs, Header
  <1>5. CASE MakeCell(c)
    BY <1>5 DEF MakeCell, CoreTypeOK, Pcs, Header
  <1>6. CASE WriteReturns(c)
    BY <1>6 DEF WriteReturns, CoreTypeOK, Pcs
  <1>7. CASE WriteError(c)
    BY <1>7, ReturnType DEF WriteError, CoreTypeOK, Outcomes, Foreign
  <1>8. CASE EnterSelect(c)
    BY <1>8 DEF EnterSelect, CoreTypeOK, Pcs, Header
  <1>9. CASE Receive(c)
    <2>1. listener.msg.req \in Nat
      BY <1>9 DEF Receive, CoreTypeOK, Reading, Stopped, Response
    <2>2. QED
      BY <1>9, <2>1, ReturnType DEF Receive, CoreTypeOK, Outcomes
  <1>10. CASE Timeout(c)
    BY <1>10, ReturnType DEF Timeout, CoreTypeOK, Outcomes, Foreign
  <1>11. QED
    BY <1>1, <1>2, <1>3, <1>4, <1>5, <1>6, <1>7, <1>8, <1>9, <1>10 DEF CallerStep

LEMMA CoreType ==
  ASSUME CoreTypeOK, NEW arrived, arrived \subseteq Response,
         CoreNext(arrived) \/ UNCHANGED coreVars
  PROVE  CoreTypeOK'
  <1>1. CASE \E b \in Timeouts : SetTimeoutMs(b)
    BY <1>1, ConstantsAssumption DEF SetTimeoutMs, CoreTypeOK
  <1>2. ASSUME NEW m \in arrived, Decode(m) PROVE CoreTypeOK'
    <2>1. listener' \in [at : {"lookup", "send"}, msg : Response, chan : Nat]
      BY <1>2 DEF Decode, Decoded, NilChan
    <2>2. QED
      BY <1>2, <2>1 DEF Decode, CoreTypeOK
  <1>3. CASE ListenLookup
    <2>1. listener \in [at : {"lookup", "send"}, msg : Response, chan : Nat]
      BY <1>3 DEF ListenLookup, CoreTypeOK, Reading, Stopped
    <2>2. listener' \in [at : {"lookup", "send"}, msg : Response, chan : Nat]
      BY <1>3, <2>1 DEF ListenLookup, CoreTypeOK, Sending, CellFor, Response
    <2>3. QED
      BY <1>3, <2>2 DEF ListenLookup, CoreTypeOK
  <1>4. CASE GiveUp
    BY <1>4 DEF GiveUp, CoreTypeOK
  <1>5. CASE Close
    BY <1>5 DEF Close, SetClosed, CloseSocket, CoreTypeOK
  <1>6. CASE UNCHANGED coreVars
    BY <1>6 DEF CoreTypeOK
  <1>7. QED
    BY <1>1, <1>2, <1>3, <1>4, <1>5, <1>6, CallerType DEF CoreNext, CoreStep

-----------------------------------------------------------------------------
(* Mutual exclusion: the caller past Lock owns c.mu, so where every        *)
(* operation takes it at most one call holds a service id.                 *)

LockInv ==
  \A c \in Callers :
    /\ pc[c] # "idle" => op[c] \in Ops
    /\ pc[c] \notin {"idle", "lock"} /\ TakesLock(op[c]) => mu = c

LockedInv == LockInv /\ LockedCallsShareNoCell

LEMMA LockedInit == CoreInit => LockedInv
  BY DEF CoreInit, LockedInv, LockInv, LockedCallsShareNoCell

LEMMA LockInvNext ==
  ASSUME CoreTypeOK, LockInv, NEW arrived, CoreNext(arrived) \/ UNCHANGED coreVars
  PROVE  LockInv'
  <1>1. ASSUME NEW c \in Callers, NEW k \in Ops, Call(c, k) PROVE LockInv'
    BY <1>1, ConstantsAssumption DEF Call, LockInv, CoreTypeOK
  <1>2. ASSUME NEW c \in Callers, Lock(c) PROVE LockInv'
    BY <1>2, ConstantsAssumption DEF Lock, LockInv, CoreTypeOK
  <1>3. ASSUME NEW c \in Callers, RejectArea(c) \/ WriteError(c) \/ Receive(c) \/ Timeout(c)
        PROVE  LockInv'
    BY <1>3 DEF RejectArea, WriteError, Receive, Timeout, LockInv, CoreTypeOK
  <1>4. ASSUME NEW c \in Callers, TakeSid(c) \/ MakeCell(c) \/ WriteReturns(c) \/ EnterSelect(c)
        PROVE  LockInv'
    BY <1>4 DEF TakeSid, MakeCell, WriteReturns, EnterSelect, LockInv, CoreTypeOK
  <1>5. CASE UNCHANGED <<pc, op, mu>>
    BY <1>5 DEF LockInv
  <1>6. QED
    BY <1>1, <1>2, <1>3, <1>4, <1>5
    DEF CoreNext, CoreStep, CallerStep, SetTimeoutMs, ListenLookup, Decode, GiveUp,
        Close, SetClosed, CloseSocket

\* Under the lock no service id is taken while another call holds it.
LEMMA LockedNext ==
  ASSUME CoreTypeOK, LockedInv, NEW arrived, CoreNext(arrived) \/ UNCHANGED coreVars
  PROVE  LockedInv'
  <1>1. LockInv'
    BY LockInvNext DEF LockedInv
  <1>2. ASSUME \A k \in Ops : TakesLock(k), ~reused PROVE ~reused'
    <2>1. ASSUME NEW c \in Callers, TakeSid(c) PROVE ~reused'
      <3>1. \A d \in Callers : pc[d] \in InProgress => mu = d
        BY <1>2 DEF LockedInv, LockInv, InProgress
      <3>2. mu = c /\ pc[c] \notin InProgress
        BY <1>2, <2>1 DEF TakeSid, LockedInv, LockInv, InProgress
      <3>3. \A s \in Sids : ~SidInUse(s)
        BY <3>1, <3>2 DEF SidInUse
      <3>4. sid' \in Sids
        BY <2>1, SidsType DEF TakeSid, CoreTypeOK
      <3>5. QED
        BY <1>2, <2>1, <3>3, <3>4 DEF TakeSid
    <2>2. CASE reused' = reused
      BY <1>2, <2>2
    <2>3. QED
      BY <2>1, <2>2
      DEF CoreNext, CoreStep, CallerStep, Call, Lock, RejectArea, MakeCell, WriteReturns,
          WriteError, EnterSelect, Receive, Timeout, SetTimeoutMs, ListenLookup, Decode,
          GiveUp, Close, SetClosed, CloseSocket
  <1>3. QED
    BY <1>1, <1>2 DEF LockedInv, LockedCallsShareNoCell

-----------------------------------------------------------------------------
(***************************************************************************)
(* The correlation of answers.  Every (service id, request) pair anywhere  *)
(* in the system, a channel counting as the request it was made for, comes *)
(* from one counter that goes round the service ids.                       *)
(***************************************************************************)
Pair(s, r) == [sid |-> s, req |-> r]

\* b's id is a's id advanced by the requests between them, if they are under NSid.
Follows(a, b) ==
  a.req # 0 /\ a.req <= b.req /\ b.req < a.req + NSid
    => \/ b.sid = a.sid + (b.req - a.req)
       \/ b.sid + NSid = a.sid + (b.req - a.req)

\* The pairs of S come from a counter that has reached last.
OneCounter(S, last) ==
  \A a \in S : a.req <= last /\ (\A b \in S : Follows(a, b))

\* Two pairs with one service id are the same request or at least NSid apart.
LEMMA SameSid ==
  ASSUME NEW S, S \subseteq Header, NEW k, OneCounter(S, k), NEW a \in S, NEW b \in S,
         a.sid = b.sid, a.req # 0, b.req # 0
  PROVE  a.req = b.req \/ a.req + NSid <= b.req \/ b.req + NSid <= a.req
  <1>1. Follows(a, b) /\ Follows(b, a)
    BY DEF OneCounter
  <1>2. QED
    BY <1>1, ConstantsAssumption DEF Header, Sids, Follows

\* Pairs of the same request, or channel, have one service id.
LEMMA SameRequest ==
  ASSUME NEW S, S \subseteq Header, NEW k, OneCounter(S, k), NEW a \in S, NEW b \in S,
         a.req = b.req, a.req # 0
  PROVE  a.sid = b.sid
  <1>1. Follows(a, b)
    BY DEF OneCounter
  <1>2. QED
    BY <1>1, ConstantsAssumption DEF Header, Sids, Follows

\* Pairs of nil channels and of nobody's request say nothing.
LEMMA NothingNew ==
  ASSUME NEW S, NEW T, T \subseteq Header, NEW k \in Nat, OneCounter(S, k),
         \A a \in T : a \in S \/ a.req = 0
  PROVE  OneCounter(T, k)
  BY DEF OneCounter, Follows, Header

\* The counter goes on by one, and round from NSid - 1 to 0.
LEMMA OneMore ==
  ASSUME NEW S, S \subseteq Header, NEW s \in Sids, NEW k \in Nat, OneCounter(S, k),
         Pair(s, k) \in S,
         NEW T, T \subseteq Header,
         \A a \in T : a \in S \/ a = Pair(NextSid(s), k + 1) \/ a.req = 0
  PROVE  OneCounter(T, k + 1)
  <1> DEFINE n == Pair(NextSid(s), k + 1)
  <1>1. n \in Header /\ n.req = k + 1
    BY SidsType DEF Pair, Header
  <1>2. ASSUME NEW a \in S PROVE a.req <= k /\ a.req \in Nat /\ Follows(a, n)
    <2>1. a.req <= k /\ Follows(a, Pair(s, k))
      BY DEF OneCounter
    <2>2. QED
      BY <2>1, ConstantsAssumption DEF Header, Sids, Follows, NextSid, Pair
  <1> HIDE DEF n
  <1>3. \A a \in T : a \in S \/ a = n \/ a.req = 0
    BY DEF n
  <1>4. ASSUME NEW a \in T PROVE a.req <= k + 1
    BY <1>1, <1>2, <1>3
  <1>5. ASSUME NEW a \in T, NEW b \in T PROVE Follows(a, b)
    <2>1. CASE a.req = 0
      BY <2>1 DEF Follows
    <2>2. CASE b.req = 0
      BY <2>2 DEF Follows, Header
    <2>3. CASE a \in S /\ b \in S
      BY <2>3 DEF OneCounter
    <2>4. CASE a \in S /\ b = n
      BY <2>4, <1>2
    <2>5. CASE a = n /\ b \in S
      BY <2>5, <1>1, <1>2 DEF Follows
    <2>6. CASE a = n /\ b = n
      BY <2>6, <1>1 DEF Follows, Header, Sids
    <2>7. QED
      BY <1>3, <2>1, <2>2, <2>3, <2>4, <2>5, <2>6
  <1>6. QED
    BY <1>4, <1>5 DEF OneCounter

-----------------------------------------------------------------------------
(* The pairs in the client's own state *)

ListenerPairs ==
  IF listener.at \in {"lookup", "send"}
  THEN {Pair(listener.msg.sid, listener.msg.req), Pair(listener.msg.sid, listener.chan)}
  ELSE {}

CoreSeen ==
  {Pair(sid, issued)} \cup {header[c] : c \in Callers} \cup ListenerPairs
    \cup {Pair(s, resp[s]) : s \in Sids}
    \cup {Pair(header[c].sid, chan[c]) : c \in Callers}

CallInv ==
  \A c \in Callers :
    /\ pc[c] # "idle" => result[c].kind = "none"
    /\ pc[c] \notin {"wait", "block"} => chan[c] = NilChan
    /\ pc[c] \in InProgress => header[c].req # 0

LEMMA CoreSeenType == CoreTypeOK => CoreSeen \subseteq Header
  <1> SUFFICES ASSUME CoreTypeOK PROVE CoreSeen \subseteq Header
    OBVIOUS
  <1>1. ListenerPairs \subseteq Header
    BY DEF CoreTypeOK, ListenerPairs, Header, Response, Pair, Reading, Stopped
  <1>2. QED
    BY <1>1 DEF CoreTypeOK, CoreSeen, Header, Pair

LEMMA CoreSeenTypeNext == CoreTypeOK' => CoreSeen' \subseteq Header
  <1> SUFFICES ASSUME CoreTypeOK' PROVE CoreSeen' \subseteq Header
    OBVIOUS
  <1>1. ListenerPairs' \subseteq Header
    BY DEF CoreTypeOK, ListenerPairs, Header, Response, Pair, Reading, Stopped
  <1>2. QED
    BY <1>1 DEF CoreTypeOK, CoreSeen, Header, Pair

\* What a step brings in: pairs that were there, pairs of nil channels, arrivals.
Stale(arrived) ==
  /\ issued' = issued
  /\ \A a \in CoreSeen' :
       a \in CoreSeen \/ a.req = 0 \/ (\E m \in arrived : a = Pair(m.sid, m.req))

LEMMA ReturnStale ==
  ASSUME CoreTypeOK, NEW c \in Callers, NEW kind, NEW got, Return(c, kind, got),
         listener' = listener \/ listener' = Reading, NEW arrived
  PROVE  Stale(arrived)
  BY DEF Stale, CoreSeen, ListenerPairs, Pair, CoreTypeOK, NilChan, Reading

LEMMA CoreStale ==
  ASSUME CoreTypeOK, NEW arrived, CoreNext(arrived) \/ UNCHANGED coreVars,
         \A c \in Callers : ~TakeSid(c)
  PROVE  Stale(arrived)
  <1>1. ASSUME NEW c \in Callers, NEW k \in Ops, Call(c, k) PROVE Stale(arrived)
    BY <1>1 DEF Call, Stale, CoreSeen, ListenerPairs
  <1>2. ASSUME NEW c \in Callers, Lock(c) \/ WriteReturns(c) PROVE Stale(arrived)
    BY <1>2 DEF Lock, WriteReturns, Stale, CoreSeen, ListenerPairs
  <1>3. ASSUME NEW c \in Callers, RejectArea(c) \/ WriteError(c) \/ Receive(c) \/ Timeout(c)
        PROVE  Stale(arrived)
    <2>1. PICK kind, got : Return(c, kind, got)
      BY <1>3 DEF RejectArea, WriteError, Receive, Timeout
    <2>2. listener' = listener \/ listener' = Reading
      BY <1>3 DEF RejectArea, WriteError, Receive, Timeout
    <2>3. QED
      BY <2>1, <2>2, ReturnStale
  <1>4. ASSUME NEW c \in Callers, MakeCell(c) PROVE Stale(arrived)
    <2>1. header[c] \in CoreSeen /\ header[c] = Pair(header[c].sid, header[c].req)
      BY DEF CoreSeen, CoreTypeOK, Header, Pair
    <2>2. QED
      BY <1>4, <2>1 DEF MakeCell, Stale, CoreSeen, ListenerPairs, CoreTypeOK, Header
  <1>5. ASSUME NEW c \in Callers, EnterSelect(c) PROVE Stale(arrived)
    <2>1. header[c].sid \in Sids
      BY DEF CoreTypeOK, Header
    <2>2. QED
      BY <1>5, <2>1 DEF EnterSelect, Stale, CoreSeen, ListenerPairs, CoreTypeOK
  <1>6. ASSUME NEW m \in arrived, Decode(m) PROVE Stale(arrived)
    BY <1>6 DEF Decode, Decoded, Stale, CoreSeen, ListenerPairs, Pair, NilChan
  <1>7. CASE ListenLookup
    <2>1. listener.msg.sid \in Sids
      BY <1>7 DEF ListenLookup, CoreTypeOK, Reading, Stopped, Response
    <2>2. QED
      BY <1>7, <2>1 DEF ListenLookup, Stale, CoreSeen, ListenerPairs, Sending, CellFor
  <1>8. CASE GiveUp
    BY <1>8 DEF GiveUp, Stale, CoreSeen, ListenerPairs, Stopped
  <1>9. ASSUME UNCHANGED <<sid, issued, header, listener, resp, chan>>
        PROVE  Stale(arrived)
    BY <1>9 DEF Stale, CoreSeen, ListenerPairs
  <1>10. QED
    BY <1>1, <1>2, <1>3, <1>4, <1>5, <1>6, <1>7, <1>8, <1>9
    DEF CoreNext, CoreStep, CallerStep, SetTimeoutMs, Close, SetClosed, CloseSocket

\* TakeSid brings in the counter's next pair and nothing else.
LEMMA TakeSidSeen ==
  ASSUME CoreTypeOK, CallInv, NEW c \in Callers, TakeSid(c)
  PROVE  /\ issued' = issued + 1
         /\ \A a \in CoreSeen' :
              a \in CoreSeen \/ a = Pair(NextSid(sid), issued + 1) \/ a.req = 0
  <1>1. chan[c] = NilChan
    BY DEF CallInv, TakeSid
  <1>2. QED
    BY <1>1 DEF TakeSid, CoreSeen, ListenerPairs, Pair, CoreTypeOK, Header, NilChan

LEMMA CallInvInit == CoreInit => CallInv
  BY DEF CoreInit, CallInv, NoResult, InProgress

LEMMA CallInvNext ==
  ASSUME CoreTypeOK, CallInv, NEW arrived, CoreNext(arrived) \/ UNCHANGED coreVars
  PROVE  CallInv'
  <1>1. ASSUME NEW c \in Callers, NEW k \in Ops, Call(c, k) PROVE CallInv'
    BY <1>1 DEF Call, CallInv, CoreTypeOK, NoResult, InProgress
  <1>2. ASSUME NEW c \in Callers, RejectArea(c) \/ WriteError(c) \/ Receive(c) \/ Timeout(c)
        PROVE  CallInv'
    BY <1>2 DEF RejectArea, WriteError, Receive, Timeout, CallInv, CoreTypeOK, InProgress
  <1>3. ASSUME NEW c \in Callers, TakeSid(c) PROVE CallInv'
    BY <1>3 DEF TakeSid, CallInv, CoreTypeOK, InProgress, Header
  <1>4. ASSUME NEW c \in Callers, Lock(c) \/ MakeCell(c) \/ WriteReturns(c) \/ EnterSelect(c)
        PROVE  CallInv'
    BY <1>4 DEF Lock, MakeCell, WriteReturns, EnterSelect, CallInv, CoreTypeOK, InProgress
  <1>5. CASE UNCHANGED callVars
    BY <1>5 DEF CallInv
  <1>6. QED
    BY <1>1, <1>2, <1>3, <1>4, <1>5
    DEF CoreNext, CoreStep, CallerStep, SetTimeoutMs, ListenLookup, Decode, GiveUp,
        Close, SetClosed, CloseSocket

\* What a step does to the listener.
ListenerMoves(arrived) ==
  \/ UNCHANGED listener
  \/ ListenLookup
  \/ \E m \in arrived : Decode(m)
  \/ listener' \in {Reading, Stopped}

LEMMA ListenerStep ==
  ASSUME NEW arrived, CoreNext(arrived) \/ UNCHANGED coreVars
  PROVE  ListenerMoves(arrived)
  <1>1. ASSUME NEW c \in Callers, \E k \in Ops : Call(c, k) PROVE UNCHANGED listener
    BY <1>1 DEF Call
  <1>2. ASSUME NEW c \in Callers, Lock(c) \/ WriteReturns(c) \/ WriteError(c)
        PROVE  UNCHANGED listener
    BY <1>2 DEF Lock, WriteReturns, WriteError
  <1>3. ASSUME NEW c \in Callers, CallerStep(c) PROVE UNCHANGED listener \/ listener' = Reading
    BY <1>3 DEF CallerStep, RejectArea, TakeSid, MakeCell, EnterSelect, Receive, Timeout
  <1>4. CASE (\E b \in Timeouts : SetTimeoutMs(b)) \/ Close
    BY <1>4 DEF SetTimeoutMs, Close, SetClosed, CloseSocket, ListenerMoves
  <1>5. CASE GiveUp \/ UNCHANGED coreVars
    BY <1>5 DEF GiveUp, ListenerMoves
  <1>6. QED
    BY <1>1, <1>2, <1>3, <1>4, <1>5 DEF CoreNext, CoreStep, ListenerMoves

\* Whether an answer to nobody's request can reach the listener.
ListenerForeign ==
  listener.at \in {"lookup", "send"} /\ listener.msg.req = Foreign
    => Faults \cap {"leftover", "split"} # {}

\* The step that could go wrong: the channel ties the answer's id to the caller's.
LEMMA ReceivedIsAsked ==
  ASSUME CoreTypeOK, OneCounter(CoreSeen, issued), CallInv, ListenerForeign,
         NEW c \in Callers, Receive(c)
  PROVE  LET asked == header[c].req
             got   == listener.msg.req
         IN  \/ got = asked
             \/ asked + NSid <= got \/ got + NSid <= asked
             \/ got = Foreign /\ Faults \cap {"leftover", "split"} # {}
  <1> DEFINE mine == Pair(header[c].sid, chan[c])
             its  == Pair(listener.msg.sid, listener.chan)
             got  == Pair(listener.msg.sid, listener.msg.req)
  <1>1. mine \in CoreSeen /\ its \in CoreSeen /\ got \in CoreSeen /\ header[c] \in CoreSeen
    BY DEF Receive, CoreSeen, ListenerPairs
  <1>2. CoreSeen \subseteq Header
    BY CoreSeenType
  <1>3. mine.sid = its.sid
    BY <1>1, <1>2, SameRequest DEF Receive, NilChan, Pair
  <1>4. header[c].sid = got.sid
    BY <1>3 DEF Pair
  <1>5. header[c].req # 0
    BY DEF Receive, CallInv, InProgress
  <1>6. CASE got.req # 0
    <2>1. header[c].req = got.req \/ header[c].req + NSid <= got.req
                                  \/ got.req + NSid <= header[c].req
      BY <1>1, <1>2, <1>4, <1>5, <1>6, SameSid
    <2>2. QED
      BY <2>1 DEF Pair
  <1>7. CASE got.req = 0
    BY <1>7 DEF Receive, ListenerForeign, Foreign, Pair
  <1>8. QED
    BY <1>6, <1>7

LEMMA AnswerNext ==
  ASSUME CoreTypeOK, OneCounter(CoreSeen, issued), CallInv, ListenerForeign,
         AnswerBelongsToCall, NEW arrived, CoreNext(arrived) \/ UNCHANGED coreVars
  PROVE  AnswerBelongsToCall'
  <1>1. ASSUME NEW c \in Callers, TakeSid(c) PROVE AnswerBelongsToCall'
    BY <1>1 DEF TakeSid, AnswerBelongsToCall, CallInv, CoreTypeOK
  <1>2. ASSUME NEW c \in Callers, Receive(c) PROVE AnswerBelongsToCall'
    BY <1>2, ReceivedIsAsked DEF Receive, AnswerBelongsToCall, CoreTypeOK
  <1>3. ASSUME header' = header,
               \A d \in Callers : \/ result'[d] = result[d]
                                  \/ result'[d].kind \notin {"ok", "endcode"}
        PROVE  AnswerBelongsToCall'
    BY <1>3 DEF AnswerBelongsToCall
  <1>4. ASSUME NEW c \in Callers, NEW k \in Ops, Call(c, k) PROVE AnswerBelongsToCall'
    BY <1>3, <1>4 DEF Call, CoreTypeOK, NoResult
  <1>5. ASSUME NEW c \in Callers, Lock(c) \/ MakeCell(c) \/ WriteReturns(c) \/ EnterSelect(c)
        PROVE  AnswerBelongsToCall'
    BY <1>3, <1>5 DEF Lock, MakeCell, WriteReturns, EnterSelect
  <1>6. ASSUME NEW c \in Callers, RejectArea(c) \/ WriteError(c) \/ Timeout(c)
        PROVE  AnswerBelongsToCall'
    BY <1>3, <1>6 DEF RejectArea, WriteError, Timeout, CoreTypeOK
  <1>7. CASE UNCHANGED callVars
    BY <1>7 DEF AnswerBelongsToCall
  <1>8. QED
    BY <1>1, <1>2, <1>4, <1>5, <1>6, <1>7
    DEF CoreNext, CoreStep, CallerStep, SetTimeoutMs, ListenLookup, Decode, GiveUp,
        Close, SetClosed, CloseSocket

LEMMA AnswerInit == CoreInit => AnswerBelongsToCall
  BY DEF CoreInit, AnswerBelongsToCall, NoResult

-----------------------------------------------------------------------------
(* The channel a call waits on.  Between incrementSid and the return of a  *)
(* call its cell has a channel, if not always the same.                    *)

MadeInv ==
  \A c \in Callers :
    /\ pc[c] \in {"write", "select"} => resp[header[c].sid] # NilChan
    /\ pc[c] \in {"wait", "block"} => chan[c] # NilChan

LEMMA MadeInit == CoreInit => MadeInv
  BY DEF CoreInit, MadeInv

LEMMA MadeNext ==
  ASSUME CoreTypeOK, CallInv, MadeInv, NEW arrived, CoreNext(arrived) \/ UNCHANGED coreVars
  PROVE  MadeInv'
  <1>1. ASSUME NEW c \in Callers,
               RejectArea(c) \/ WriteError(c) \/ Receive(c) \/ Timeout(c)
        PROVE  MadeInv'
    BY <1>1 DEF RejectArea, WriteError, Receive, Timeout, MadeInv, CoreTypeOK
  <1>2. ASSUME NEW c \in Callers, TakeSid(c) PROVE MadeInv'
    BY <1>2 DEF TakeSid, MadeInv, CoreTypeOK
  <1>3. ASSUME NEW c \in Callers, MakeCell(c) PROVE MadeInv'
    <2>1. header[c].req # NilChan
      BY <1>3 DEF MakeCell, CallInv, InProgress, NilChan
    <2>2. \A s \in Sids : resp'[s] = resp[s] \/ resp'[s] # NilChan
      BY <1>3, <2>1 DEF MakeCell, CoreTypeOK
    <2>3. header[c].sid \in Sids /\ resp'[header[c].sid] # NilChan
      BY <1>3, <2>1 DEF MakeCell, CoreTypeOK, Header
    <2>4. QED
      BY <1>3, <2>2, <2>3 DEF MakeCell, MadeInv, CoreTypeOK, Header
  <1>4. ASSUME NEW c \in Callers, EnterSelect(c) PROVE MadeInv'
    BY <1>4 DEF EnterSelect, MadeInv, CoreTypeOK
  <1>5. ASSUME NEW c \in Callers, Lock(c) \/ WriteReturns(c) \/ \E k \in Ops : Call(c, k)
        PROVE  MadeInv'
    BY <1>5 DEF Lock, WriteReturns, Call, MadeInv, CoreTypeOK
  <1>6. CASE UNCHANGED <<callVars, resp>>
    BY <1>6 DEF MadeInv
  <1>7. QED
    BY <1>1, <1>2, <1>3, <1>4, <1>5, <1>6
    DEF CoreNext, CoreStep, CallerStep, SetTimeoutMs, ListenLookup, Decode, GiveUp,
        Close, SetClosed, CloseSocket

LEMMA MadeIsOwn ==
  ASSUME CoreTypeOK, OneCounter(CoreSeen, issued), CallInv, MadeInv
  PROVE  WaitsOnOwnChannel
  <1>1. ASSUME NEW c \in Callers, pc[c] \in {"wait", "block"}
        PROVE  /\ chan[c] # NilChan
               /\ \/ chan[c] = header[c].req
                  \/ header[c].req + NSid <= chan[c] \/ chan[c] + NSid <= header[c].req
    <2> DEFINE mine == Pair(header[c].sid, chan[c])
    <2>1. mine \in CoreSeen /\ header[c] \in CoreSeen /\ CoreSeen \subseteq Header
      BY CoreSeenType DEF CoreSeen
    <2>2. mine.sid = header[c].sid /\ mine.req = chan[c]
      BY DEF Pair
    <2>3. header[c].req # 0 /\ mine.req # 0
      BY <1>1, <2>2 DEF CallInv, MadeInv, InProgress, NilChan
    <2> HIDE DEF mine
    <2>4. header[c].req = mine.req \/ header[c].req + NSid <= mine.req
                                  \/ mine.req + NSid <= header[c].req
      BY <2>1, <2>2, <2>3, SameSid
    <2>5. chan[c] # NilChan
      BY <1>1 DEF MadeInv
    <2>6. QED
      BY <2>2, <2>4, <2>5
  <1>2. QED
    BY <1>1 DEF WaitsOnOwnChannel

-----------------------------------------------------------------------------
(***************************************************************************)
(* The cells.  As long as no service id is shared, a cell of c.resp is the *)
(* affair of the one call that holds its id: it keeps the channel that     *)
(* call made, and the listener finds it there.                             *)
(***************************************************************************)
CellInv ==
  ~reused =>
    /\ \A c, d \in Callers :
         /\ pc[c] \in InProgress /\ pc[d] \in InProgress
         /\ header[c].sid = header[d].sid
         => c = d
    /\ \A c \in Callers :
         /\ pc[c] \in InProgress \ {"cell"} => resp[header[c].sid] = header[c].req
         /\ pc[c] \in {"wait", "block"} => chan[c] = header[c].req

\* A response the listener has is to a request that was written, and where it sends
\* the response, it found the channel of that request.
ListenerHeld ==
  ~reused /\ listener.at \in {"lookup", "send"} =>
    \A c \in Callers :
      pc[c] \in InProgress /\ header[c].req = listener.msg.req =>
        /\ pc[c] \notin {"cell", "write"}
        /\ listener.at = "send" => listener.chan = header[c].req

\* Requests have numbers of their own.
DistinctInv ==
  \A c, d \in Callers : header[c].req = header[d].req /\ c # d => header[c].req = 0

HeldInv == CellInv /\ ListenerHeld /\ DistinctInv

\* No request of reqs is one that has yet to be written.
Unwritten(reqs) == \A c \in Callers : pc[c] \in {"cell", "write"} => header[c].req \notin reqs

LEMMA HeldInit == CoreInit => HeldInv
  BY DEF CoreInit, HeldInv, CellInv, ListenerHeld, DistinctInv, InProgress, Reading

LEMMA HeldIsTaken ==
  ASSUME CoreTypeOK, CallInv, HeldInv
  PROVE  HeldAnswerCanBeTaken
  <1> SUFFICES ASSUME ~reused, listener.at = "send", NEW c \in Callers,
                      pc[c] \in InProgress, header[c].req = listener.msg.req
               PROVE  CanTake(c)
    BY DEF HeldAnswerCanBeTaken
  <1>1. pc[c] \in {"select", "wait", "block"} /\ listener.chan = header[c].req
    BY DEF HeldInv, ListenerHeld, InProgress
  <1>2. ChannelOf(c) = header[c].req
    BY <1>1 DEF HeldInv, CellInv, InProgress, ChannelOf
  <1>3. header[c].req # NilChan
    BY DEF CallInv, NilChan
  <1>4. QED
    BY <1>1, <1>2, <1>3 DEF CanTake

\* What was numbered before a request takes the next number.
LEMMA NumberedBefore ==
  ASSUME CoreTypeOK, OneCounter(CoreSeen, issued)
  PROVE  /\ \A d \in Callers : header[d].req <= issued /\ header[d].req \in Nat
         /\ listener.at \in {"lookup", "send"} =>
              listener.msg.req <= issued /\ listener.msg.req \in Nat
  <1>1. \A d \in Callers : header[d] \in CoreSeen
    BY DEF CoreSeen
  <1>2. listener.at \in {"lookup", "send"} =>
          Pair(listener.msg.sid, listener.msg.req) \in CoreSeen
    BY DEF CoreSeen, ListenerPairs
  <1>3. CoreSeen \subseteq Header
    BY CoreSeenType
  <1>4. QED
    BY <1>1, <1>2, <1>3 DEF OneCounter, Pair, Header

LEMMA TakeSidKeepsHeld ==
  ASSUME CoreTypeOK, OneCounter(CoreSeen, issued), CallInv, HeldInv,
         NEW c \in Callers, TakeSid(c)
  PROVE  HeldInv'
  <1>1. /\ header' = [header EXCEPT ![c] = [sid |-> sid', req |-> issued + 1]]
        /\ pc' = [pc EXCEPT ![c] = "cell"]
        /\ UNCHANGED <<resp, chan, listener>>
        /\ ~reused' => ~reused /\ ~SidInUse(sid')
    BY DEF TakeSid
  <1>2. /\ header'[c].req = issued + 1 /\ header'[c].sid = sid' /\ pc'[c] = "cell"
        /\ \A d \in Callers \ {c} : header'[d] = header[d] /\ pc'[d] = pc[d]
    BY <1>1 DEF CoreTypeOK
  <1>3. \A d \in Callers : header[d].req # issued + 1
    BY NumberedBefore DEF CoreTypeOK
  <1>4. DistinctInv'
    BY <1>2, <1>3 DEF HeldInv, DistinctInv
  <1>5. ListenerHeld'
    <2>1. listener.at \in {"lookup", "send"} => listener.msg.req # issued + 1
      BY NumberedBefore DEF CoreTypeOK
    <2>2. QED
      BY <1>1, <1>2, <2>1 DEF HeldInv, ListenerHeld
  <1>6. CellInv'
    <2> SUFFICES ASSUME ~reused' PROVE CellInv'
      BY DEF CellInv
    <2>1. \A d \in Callers \ {c} : pc'[d] \in InProgress => header'[d].sid # header'[c].sid
      BY <1>1, <1>2 DEF SidInUse
    <2>2. \A a, b \in Callers :
            /\ pc'[a] \in InProgress /\ pc'[b] \in InProgress
            /\ header'[a].sid = header'[b].sid
            => a = b
      BY <1>1, <1>2, <2>1 DEF HeldInv, CellInv
    <2>3. \A a \in Callers :
            /\ pc'[a] \in InProgress \ {"cell"} => resp'[header'[a].sid] = header'[a].req
            /\ pc'[a] \in {"wait", "block"} => chan'[a] = header'[a].req
      BY <1>1, <1>2 DEF HeldInv, CellInv
    <2>4. QED
      BY <2>2, <2>3 DEF CellInv
  <1>7. QED
    BY <1>4, <1>5, <1>6 DEF HeldInv

\* A call that ends, or has not taken an id, has nothing to do with the cells.
LEMMA LeavingKeepsHeld ==
  ASSUME CoreTypeOK, HeldInv, NEW c \in Callers,
         UNCHANGED <<header, resp, reused>>,
         pc' = [pc EXCEPT ![c] = pc'[c]], pc'[c] \notin InProgress,
         \A d \in Callers \ {c} : chan'[d] = chan[d],
         UNCHANGED listener \/ listener' = Reading
  PROVE  HeldInv'
  <1>1. \A d \in Callers : pc'[d] \in InProgress => d # c /\ pc'[d] = pc[d] /\ chan'[d] = chan[d]
    BY DEF CoreTypeOK
  <1>2. "wait" \in InProgress /\ "block" \in InProgress
    BY DEF InProgress
  <1>3. CellInv'
    BY <1>1, <1>2 DEF HeldInv, CellInv
  <1>4. ListenerHeld'
    BY <1>1 DEF HeldInv, ListenerHeld, Reading
  <1>5. QED
    BY <1>3, <1>4 DEF HeldInv, DistinctInv

\* The steps of a call that holds its id.
LEMMA HoldingKeepsHeld ==
  ASSUME CoreTypeOK, HeldInv, NEW c \in Callers,
         MakeCell(c) \/ WriteReturns(c) \/ EnterSelect(c)
  PROVE  HeldInv'
  <1>1. /\ UNCHANGED <<header, listener, reused>>
        /\ pc[c] \in InProgress /\ pc'[c] \in InProgress
        /\ \A d \in Callers \ {c} : pc'[d] = pc[d] /\ chan'[d] = chan[d]
    BY DEF MakeCell, WriteReturns, EnterSelect, InProgress, CoreTypeOK
  <1>2. DistinctInv'
    BY <1>1 DEF HeldInv, DistinctInv
  <1>3. ListenerHeld'
    <2>1. pc[c] = "cell" \/ pc'[c] \notin {"cell", "write"}
      BY DEF MakeCell, WriteReturns, EnterSelect, CoreTypeOK
    <2>2. QED
      BY <1>1, <2>1 DEF HeldInv, ListenerHeld
  <1>4. CellInv'
    <2> SUFFICES ASSUME ~reused PROVE CellInv'
      BY <1>1 DEF CellInv
    <2>1. \A a, b \in Callers :
            /\ pc'[a] \in InProgress /\ pc'[b] \in InProgress
            /\ header'[a].sid = header'[b].sid
            => a = b
      BY <1>1 DEF HeldInv, CellInv
    <2>2. ASSUME NEW a \in Callers, pc'[a] \in InProgress \ {"cell"}
          PROVE  resp'[header[a].sid] = header[a].req
      <3>1. CASE MakeCell(c)
        <4>1. resp' = [resp EXCEPT ![header[c].sid] = header[c].req] /\ header[c].sid \in Sids
          BY <3>1 DEF MakeCell, CoreTypeOK, Header
        <4>2. a # c => header[a].sid # header[c].sid /\ header[a].sid \in Sids
          BY <1>1, <2>1, <2>2 DEF CoreTypeOK, Header
        <4>3. QED
          BY <1>1, <2>2, <4>1, <4>2 DEF HeldInv, CellInv, CoreTypeOK
      <3>2. CASE WriteReturns(c) \/ EnterSelect(c)
        <4>1. UNCHANGED resp /\ pc[c] # "cell"
          BY <3>2 DEF WriteReturns, EnterSelect
        <4>2. QED
          BY <1>1, <2>2, <4>1 DEF HeldInv, CellInv
      <3>3. QED
        BY <3>1, <3>2
    <2>3. ASSUME NEW a \in Callers, pc'[a] \in {"wait", "block"}
          PROVE  chan'[a] = header[a].req
      <3>1. CASE a = c
        <4>1. EnterSelect(c)
          BY <2>3, <3>1 DEF MakeCell, WriteReturns, CoreTypeOK
        <4>2. chan'[c] = resp[header[c].sid] /\ pc[c] = "select"
          BY <4>1 DEF EnterSelect, CoreTypeOK
        <4>3. QED
          BY <3>1, <4>2 DEF HeldInv, CellInv, InProgress
      <3>2. QED
        BY <1>1, <2>3, <3>1 DEF HeldInv, CellInv
    <2>4. QED
      BY <1>1, <2>1, <2>2, <2>3 DEF CellInv
  <1>5. QED
    BY <1>2, <1>3, <1>4 DEF HeldInv

\* The listener takes a response, or looks its cell up.
LEMMA ListenerKeepsHeld ==
  ASSUME CoreTypeOK, OneCounter(CoreSeen, issued), CallInv, HeldInv,
         NEW arrived, Unwritten({m.req : m \in arrived}),
         ListenLookup \/ \E m \in arrived : Decode(m)
  PROVE  HeldInv'
  <1>1. UNCHANGED <<header, pc, resp, chan, reused>>
    BY DEF ListenLookup, Decode
  <1>2. CellInv' /\ DistinctInv'
    BY <1>1, Zenon DEF HeldInv, CellInv, DistinctInv
  <1>3. ASSUME NEW m \in arrived, Decode(m) PROVE ListenerHeld'
    <2>1. listener'.at = "lookup" /\ listener'.msg = m
      BY <1>3 DEF Decode, Decoded
    <2>2. QED
      BY <1>1, <2>1 DEF Unwritten, ListenerHeld
  <1>4. ASSUME ListenLookup PROVE ListenerHeld'
    <2>1. /\ listener.at = "lookup" /\ listener'.at = "send" /\ listener'.msg = listener.msg
          /\ listener'.chan = resp[listener.msg.sid]
      BY <1>4 DEF ListenLookup, Sending, CellFor
    <2>2. ASSUME ~reused, NEW c \in Callers, pc[c] \in InProgress,
                 header[c].req = listener.msg.req
          PROVE  pc[c] \notin {"cell", "write"} /\ resp[listener.msg.sid] = header[c].req
      <3> DEFINE its == Pair(listener.msg.sid, listener.msg.req)
      <3>1. pc[c] \notin {"cell", "write"}
        BY <2>1, <2>2 DEF HeldInv, ListenerHeld
      <3>2. its \in CoreSeen /\ header[c] \in CoreSeen /\ CoreSeen \subseteq Header
        BY <2>1, CoreSeenType DEF CoreSeen, ListenerPairs
      <3>3. its.req = header[c].req /\ header[c].req # 0
        BY <2>2 DEF Pair, CallInv
      <3> HIDE DEF its
      <3>4. its.sid = header[c].sid
        BY <3>2, <3>3, SameRequest
      <3>5. listener.msg.sid = header[c].sid
        BY <3>4 DEF its, Pair
      <3>6. resp[header[c].sid] = header[c].req
        BY <2>2, <3>1 DEF HeldInv, CellInv
      <3>7. QED
        BY <3>1, <3>5, <3>6
    <2>3. /\ reused' = reused /\ listener'.chan = resp[listener.msg.sid]
          /\ listener'.msg.req = listener.msg.req
      BY <1>1, <2>1
    <2>4. ASSUME ~reused', NEW c \in Callers, pc'[c] \in InProgress,
                 header'[c].req = listener'.msg.req
          PROVE  pc'[c] \notin {"cell", "write"} /\ listener'.chan = header'[c].req
      BY <1>1, <2>2, <2>3, <2>4
    <2>5. QED
      BY <2>4 DEF ListenerHeld
  <1>5. QED
    BY <1>2, <1>3, <1>4 DEF HeldInv

LEMMA HeldNext ==
  ASSUME CoreTypeOK, OneCounter(CoreSeen, issued), CallInv, HeldInv,
         NEW arrived, Unwritten({m.req : m \in arrived}),
         CoreNext(arrived) \/ UNCHANGED coreVars
  PROVE  HeldInv'
  <1>1. ASSUME NEW c \in Callers, NEW k \in Ops, Call(c, k) PROVE HeldInv'
    <2>1. /\ UNCHANGED <<header, resp, reused, chan, listener>>
          /\ pc' = [pc EXCEPT ![c] = pc'[c]] /\ pc'[c] \notin InProgress
      BY <1>1 DEF Call, InProgress, CoreTypeOK
    <2>2. QED
      BY <2>1, LeavingKeepsHeld
  <1>2. ASSUME NEW c \in Callers, Lock(c) PROVE HeldInv'
    <2>1. /\ UNCHANGED <<header, resp, reused, chan, listener>>
          /\ pc' = [pc EXCEPT ![c] = pc'[c]] /\ pc'[c] \notin InProgress
      BY <1>2 DEF Lock, InProgress, CoreTypeOK
    <2>2. QED
      BY <2>1, LeavingKeepsHeld
  <1>3. ASSUME NEW c \in Callers, RejectArea(c) \/ WriteError(c) \/ Timeout(c) \/ Receive(c)
        PROVE  HeldInv'
    <2>1. /\ UNCHANGED <<header, resp, reused>>
          /\ pc' = [pc EXCEPT ![c] = pc'[c]] /\ pc'[c] \notin InProgress
          /\ \A d \in Callers \ {c} : chan'[d] = chan[d]
          /\ UNCHANGED listener \/ listener' = Reading
      BY <1>3 DEF RejectArea, WriteError, Timeout, Receive, InProgress, CoreTypeOK
    <2>2. QED
      BY <2>1, LeavingKeepsHeld
  <1>4. ASSUME NEW c \in Callers, TakeSid(c) PROVE HeldInv'
    BY <1>4, TakeSidKeepsHeld
  <1>5. ASSUME NEW c \in Callers, MakeCell(c) \/ WriteReturns(c) \/ EnterSelect(c)
        PROVE  HeldInv'
    BY <1>5, HoldingKeepsHeld
  <1>6. CASE ListenLookup \/ \E m \in arrived : Decode(m)
    BY <1>6, ListenerKeepsHeld
  <1>7. CASE GiveUp
    <2>1. UNCHANGED <<header, pc, resp, chan, reused>> /\ listener'.at = "stopped"
      BY <1>7 DEF GiveUp, Stopped
    <2>2. CellInv' /\ DistinctInv'
      BY <2>1, Zenon DEF HeldInv, CellInv, DistinctInv
    <2>3. ListenerHeld'
      BY <2>1 DEF ListenerHeld
    <2>4. QED
      BY <2>2, <2>3 DEF HeldInv
  <1>8. ASSUME UNCHANGED <<header, pc, resp, chan, reused, listener>> PROVE HeldInv'
    BY <1>8, Zenon DEF HeldInv, CellInv, ListenerHeld, DistinctInv
  <1>9. QED
    BY <1>1, <1>2, <1>3, <1>4, <1>5, <1>6, <1>7, <1>8
    DEF CoreNext, CoreStep, CallerStep, SetTimeoutMs, Close, SetClosed, CloseSocket

\* Who is about to write was about to, or has just taken an id.
LEMMA AboutToWrite ==
  ASSUME CoreTypeOK, NEW arrived, CoreNext(arrived) \/ UNCHANGED coreVars,
         NEW c \in Callers, pc'[c] \in {"cell", "write"}
  PROVE  \/ TakeSid(c)
         \/ pc[c] \in {"cell", "write"} /\ header'[c] = header[c] /\ ~WriteReturns(c)
  <1>1. ASSUME NEW d \in Callers, (\E k \in Ops : Call(d, k)) \/ Lock(d) \/ RejectArea(d)
                                    \/ WriteError(d) \/ Timeout(d) \/ Receive(d) \/ EnterSelect(d)
                                    \/ WriteReturns(d)
        PROVE  pc[c] \in {"cell", "write"} /\ header'[c] = header[c] /\ c # d
    BY <1>1 DEF Call, Lock, RejectArea, WriteError, Timeout, Receive, EnterSelect, WriteReturns,
                CoreTypeOK
  <1>2. ASSUME NEW d \in Callers, MakeCell(d)
        PROVE  pc[c] \in {"cell", "write"} /\ header'[c] = header[c]
    BY <1>2 DEF MakeCell, CoreTypeOK
  <1>3. ASSUME NEW d \in Callers, TakeSid(d), d # c
        PROVE  pc[c] \in {"cell", "write"} /\ header'[c] = header[c]
    BY <1>3 DEF TakeSid, CoreTypeOK
  <1>4. WriteReturns(c) => pc'[c] = "select"
    BY DEF WriteReturns, CoreTypeOK
  <1>5. ASSUME UNCHANGED <<pc, header>>
        PROVE  pc[c] \in {"cell", "write"} /\ header'[c] = header[c]
    BY <1>5
  <1>6. QED
    BY <1>1, <1>2, <1>3, <1>4, <1>5
    DEF CoreNext, CoreStep, CallerStep, SetTimeoutMs, ListenLookup, Decode, GiveUp,
        Close, SetClosed, CloseSocket

\* A request is in flight after it was written, and its number is taken only once.
LEMMA UnwrittenNext ==
  ASSUME CoreTypeOK, OneCounter(CoreSeen, issued), CallInv, DistinctInv,
         NEW arrived, CoreNext(arrived) \/ UNCHANGED coreVars,
         NEW before, \A r \in before : r # issued + 1, Unwritten(before),
         NEW after, \A r \in after : \/ r \in before
                                    \/ \E d \in Callers : r = header[d].req /\ WriteReturns(d)
  PROVE  \A c \in Callers : pc'[c] \in {"cell", "write"} => header'[c].req \notin after
  <1> SUFFICES ASSUME NEW c \in Callers, pc'[c] \in {"cell", "write"},
                      header'[c].req \in after
               PROVE  FALSE
    OBVIOUS
  <1>1. CASE TakeSid(c)
    <2>1. header'[c].req = issued + 1
      BY <1>1 DEF TakeSid, CoreTypeOK
    <2>2. \A d \in Callers : header[d].req # issued + 1
      BY NumberedBefore DEF CoreTypeOK
    <2>3. QED
      BY <2>1, <2>2
  <1>2. CASE pc[c] \in {"cell", "write"} /\ header'[c] = header[c] /\ ~WriteReturns(c)
    <2>1. PICK d \in Callers : header[c].req = header[d].req /\ WriteReturns(d)
      BY <1>2 DEF Unwritten
    <2>2. header[c].req = 0
      BY <1>2, <2>1 DEF DistinctInv
    <2>3. QED
      BY <1>2, <2>2 DEF CallInv, InProgress
  <1>3. QED
    BY <1>1, <1>2, AboutToWrite
\* Without a timeout, a call that has written its request leaves with an answer only.
LEMMA StaysWaiting ==
  ASSUME CoreTypeOK, NEW arrived, CoreNext(arrived) \/ UNCHANGED coreVars, ~timed,
         NEW c \in Callers, pc[c] \in {"select", "block"}, ~Receive(c)
  PROVE  pc'[c] \in {"select", "block"} /\ header'[c] = header[c]
  <1>1. ASSUME NEW d \in Callers,
               \/ (\E k \in Ops : Call(d, k)) \/ Lock(d) \/ RejectArea(d) \/ TakeSid(d)
               \/ MakeCell(d) \/ WriteReturns(d) \/ WriteError(d) \/ Timeout(d)
        PROVE  pc'[c] = pc[c] /\ header'[c] = header[c]
    BY <1>1 DEF Call, Lock, RejectArea, TakeSid, MakeCell, WriteReturns, WriteError, Timeout,
                CoreTypeOK
  <1>2. ASSUME NEW d \in Callers, EnterSelect(d)
        PROVE  pc'[c] \in {"select", "block"} /\ header'[c] = header[c]
    BY <1>2 DEF EnterSelect, CoreTypeOK
  <1>3. ASSUME NEW d \in Callers, Receive(d)
        PROVE  pc'[c] = pc[c] /\ header'[c] = header[c]
    BY <1>3 DEF Receive, CoreTypeOK
  <1>4. ASSUME UNCHANGED <<pc, header>> PROVE pc'[c] = pc[c] /\ header'[c] = header[c]
    BY <1>4
  <1>5. QED
    BY <1>1, <1>2, <1>3, <1>4
    DEF CoreNext, CoreStep, CallerStep, SetTimeoutMs, ListenLookup, Decode, GiveUp,
        Close, SetClosed, CloseSocket
\* A client whose calls have no timeout goes on having none.
LEMMA NobodyTimes ==
  ASSUME CoreTypeOK, NEW arrived, CoreNext(arrived) \/ UNCHANGED coreVars,
         Timeouts = {FALSE}, ~timed, \A c \in Callers : pc[c] # "wait"
  PROVE  ~timed' /\ \A c \in Callers : pc'[c] # "wait"
  <1>1. ASSUME NEW d \in Callers,
               \/ (\E k \in Ops : Call(d, k)) \/ Lock(d) \/ RejectArea(d) \/ TakeSid(d)
               \/ MakeCell(d) \/ WriteReturns(d) \/ WriteError(d) \/ Timeout(d)
        PROVE  ~timed' /\ \A c \in Callers : pc'[c] # "wait"
    BY <1>1 DEF Call, Lock, RejectArea, TakeSid, MakeCell, WriteReturns, WriteError, Timeout,
                CoreTypeOK
  <1>2. ASSUME NEW d \in Callers, EnterSelect(d) \/ Receive(d)
        PROVE  ~timed' /\ \A c \in Callers : pc'[c] # "wait"
    BY <1>2 DEF EnterSelect, Receive, CoreTypeOK
  <1>3. ASSUME NEW b \in Timeouts, SetTimeoutMs(b)
        PROVE  ~timed' /\ \A c \in Callers : pc'[c] # "wait"
    BY <1>3 DEF SetTimeoutMs
  <1>4. ASSUME UNCHANGED <<pc, timed>> PROVE ~timed' /\ \A c \in Callers : pc'[c] # "wait"
    BY <1>4
  <1>5. QED
    BY <1>1, <1>2, <1>3, <1>4
    DEF CoreNext, CoreStep, CallerStep, ListenLookup, Decode, GiveUp, Close, SetClosed, CloseSocket
=============================================================================
