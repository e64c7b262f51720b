----------------------------- MODULE UdpClient -----------------------------
(***************************************************************************)
(* The client of client_udp.go: FinsClient over datagrams.  Requests and   *)
(* responses in flight are sets, so datagrams overtake one another; Faults *)
(* says whether they may also be lost, duplicated or refused, and whether  *)
(* a response to a former client on the same local port may be waiting.    *)
(***************************************************************************)
EXTENDS FinsClient

ASSUME UdpAssumption ==
  Faults \subseteq {"close", "loss", "duplicate", "refuse", "leftover"}

VARIABLES
  requests,   \* datagrams on the way to the PLC
  responses,  \* datagrams on the way to the client
  sockErr     \* a pending error on the socket (the PLC's port was closed)

netVars == <<requests, responses, sockErr>>
vars == <<coreVars, netVars>>

Leftovers == {[sid |-> s, req |-> Foreign, end |-> "normal"] : s \in Sids}

TypeOK ==
  /\ CoreTypeOK
  /\ requests \subseteq Header
  /\ responses \subseteq Response
  /\ sockErr \in BOOLEAN

Init ==
  /\ CoreInit
  /\ requests = {}
  /\ responses \in IF "leftover" \in Faults THEN SUBSET Leftovers ELSE {{}}
  /\ sockErr = FALSE

-----------------------------------------------------------------------------
(* The client's socket *)

Write(c) ==
  /\ WriteReturns(c)
  /\ ~sockErr
  /\ requests' = requests \cup {header[c]}
  /\ UNCHANGED <<responses, sockErr>>

\* The socket is closed, or it reports (once) that an earlier datagram was refused.
WriteFails(c) ==
  /\ ~connOpen \/ sockErr
  /\ WriteError(c)
  /\ sockErr' = FALSE
  /\ UNCHANGED <<requests, responses>>

\* What is left in flight of a datagram once it is taken: nothing, or, where the
\* network duplicates, a second copy.
AfterTaking(m, inFlight) ==
  {inFlight \ {m}} \cup (IF "duplicate" \in Faults THEN {inFlight} ELSE {})

ListenRead(m) ==
  /\ m \in responses
  /\ Decode(m)
  /\ responses' \in AfterTaking(m, responses)
  /\ UNCHANGED <<requests, sockErr>>

ListenFails ==
  /\ ~connOpen \/ sockErr
  /\ GiveUp
  /\ sockErr' = FALSE
  /\ UNCHANGED <<requests, responses>>

-----------------------------------------------------------------------------
(* The PLC and the network *)

PlcAnswer(q, e) ==
  /\ q \in requests
  /\ requests' \in AfterTaking(q, requests)
  /\ responses' = responses \cup {[sid |-> q.sid, req |-> q.req, end |-> e]}
  /\ UNCHANGED <<sockErr, coreVars>>

Lose ==
  /\ "loss" \in Faults
  /\ \/ \E q \in requests : requests' = requests \ {q} /\ UNCHANGED responses
     \/ \E m \in responses : responses' = responses \ {m} /\ UNCHANGED requests
  /\ UNCHANGED <<sockErr, coreVars>>

\* The PLC's port is closed: the host answers with an ICMP error, which the
\* connected socket reports to its next Read or Write.
Refuse(q) ==
  /\ "refuse" \in Faults
  /\ q \in requests
  /\ requests' = requests \ {q}
  /\ sockErr' = connOpen
  /\ UNCHANGED <<responses, coreVars>>

\* The application stops calling.
Rest == Quiet /\ UNCHANGED vars

-----------------------------------------------------------------------------
ListenSocket == (\E m \in responses : ListenRead(m)) \/ ListenFails
Plc == \E q \in requests, e \in EndCodes : PlcAnswer(q, e)
Network == Lose \/ (\E q \in requests : Refuse(q))

\* Every step but the PLC's.
ClientNext ==
  \/ CoreStep /\ UNCHANGED netVars
  \/ \E c \in Callers : Write(c) \/ WriteFails(c)
  \/ ListenSocket \/ Network \/ Rest

Next == ClientNext \/ Plc

(***************************************************************************)
(* Goroutines that can run do run.  A waiter on a sync.Mutex is not passed *)
(* over for ever (its starvation mode hands the lock over), hence the      *)
(* strong fairness of Lock.  The application need not call, close or set   *)
(* the timeout, and the network need not lose anything.                    *)
(***************************************************************************)
Fairness ==
  /\ \A c \in Callers :
       /\ WF_vars((CallerStep(c) /\ UNCHANGED netVars) \/ Write(c) \/ WriteFails(c))
       /\ SF_vars(Lock(c) /\ UNCHANGED netVars)
  /\ WF_vars((ListenLookup /\ UNCHANGED netVars) \/ ListenSocket)
  /\ WF_vars(Plc)

Spec == Init /\ [][Next]_vars /\ Fairness

-----------------------------------------------------------------------------
(* Properties of the transport; those of FinsClient are checked here too *)

\* "do not complain when connection is closed by user": Close sets c.closed
\* before it closes the socket, so a Read it interrupts is not logged.
NoComplaintOnUserClose == complained => "refuse" \in Faults

(***************************************************************************)
(* incrementSid "clears the cell of storage for the new response": a       *)
(* response that came too late for the cell's former request must not be   *)
(* in the way of the new one.                                              *)
(***************************************************************************)
ClearedCellFreesListener ==
  listener.at = "send" => \E s \in Sids : resp[s] = listener.chan
=============================================================================
