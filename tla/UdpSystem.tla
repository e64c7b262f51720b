----------------------------- MODULE UdpSystem -----------------------------
(***************************************************************************)
(* UdpClient together with what the PLC has done: the client as a whole is *)
(* an implementation of PlcService.  No former client used the port.       *)
(***************************************************************************)
EXTENDS UdpClient

ASSUME NoLeftovers == "leftover" \notin Faults

VARIABLE done  \* the requests the PLC has carried out, with the end code of each time

SysInit == Init /\ done = {}

\* The server loop: handle the request, then send the response.
Serve(q, e) ==
  /\ PlcAnswer(q, e)
  /\ done' = done \cup {[req |-> q.req, end |-> e]}

SysNext ==
  \/ ClientNext /\ UNCHANGED done
  \/ \E q \in requests, e \in EndCodes : Serve(q, e)

SysSpec == SysInit /\ [][SysNext]_<<vars, done>>

-----------------------------------------------------------------------------
Asking == [c \in Callers |-> IF pc[c] \in InProgress THEN header[c].req ELSE 0]

Promise == INSTANCE PlcService WITH Window <- NSid, number <- issued, asking <- Asking

(***************************************************************************)
(* A call that reports success returns the end code with which the PLC     *)
(* carried out its own request between the call and its return, whatever   *)
(* was lost, late, repeated or reordered in between; only a request NSid   *)
(* or more away, which has the same service id, can be taken for it.       *)
(***************************************************************************)
KeepsPromise == Promise!Spec
=============================================================================
