----------------------------- MODULE PlcService -----------------------------
(***************************************************************************)
(* What a FINS client promises, whatever is between it and the PLC: an     *)
(* operation either fails, and then nobody knows whether the PLC carried   *)
(* it out, now, later or never, or it returns the end code with which the  *)
(* PLC carried out its request after it was called and before it returned. *)
(* The one exception: a request may be taken for one that came Window or   *)
(* more requests before or after it.                                       *)
(***************************************************************************)
EXTENDS Naturals

CONSTANTS Callers, EndCodes, Window

VARIABLES
  number,  \* requests so far
  asking,  \* each caller's request in progress, 0 if it has none
  done,    \* what the PLC has carried out: [req, end]
  result   \* what each caller's last operation returned

vars == <<number, asking, done, result>>

NoResult == [kind |-> "none", got |-> 0]
KindOf(e) == IF e = "normal" THEN "ok" ELSE "endcode"

Init ==
  /\ number = 0
  /\ asking = [c \in Callers |-> 0]
  /\ done = {}
  /\ result = [c \in Callers |-> NoResult]

\* A caller starts an operation.
Begin(c) ==
  /\ asking[c] = 0
  /\ result' = [result EXCEPT ![c] = NoResult]
  /\ UNCHANGED <<number, asking, done>>

\* The operation becomes a request.
Ask(c) ==
  /\ asking[c] = 0
  /\ result[c] = NoResult
  /\ number' = number + 1
  /\ asking' = [asking EXCEPT ![c] = number + 1]
  /\ UNCHANGED <<done, result>>

\* The PLC carries out a request, perhaps one whose caller has given up, perhaps again.
CarryOut(r, e) ==
  /\ done' = done \cup {[req |-> r, end |-> e]}
  /\ UNCHANGED <<number, asking, result>>

Interchangeable(r, s) == r = s \/ r + Window <= s \/ s + Window <= r

\* The operation returns what the PLC answered to its request.
Answer(c, d) ==
  /\ asking[c] # 0
  /\ Interchangeable(d.req, asking[c])
  /\ result' = [result EXCEPT ![c] = [kind |-> KindOf(d.end), got |-> d.req]]
  /\ asking' = [asking EXCEPT ![c] = 0]
  /\ UNCHANGED <<number, done>>

\* It fails: refused by the client before there is a request, not sent, or timed out.
Fail(c, kind) ==
  /\ result[c] = NoResult
  /\ IF asking[c] = 0 THEN kind = "badarea" ELSE kind \in {"neterror", "timeout"}
  /\ result' = [result EXCEPT ![c] = [kind |-> kind, got |-> 0]]
  /\ asking' = [asking EXCEPT ![c] = 0]
  /\ UNCHANGED <<number, done>>

Next ==
  \/ \E c \in Callers :
       \/ Begin(c) \/ Ask(c)
       \/ \E d \in done : Answer(c, d)
       \/ \E kind \in {"badarea", "neterror", "timeout"} : Fail(c, kind)
  \/ \E r \in 1 .. number, e \in EndCodes : CarryOut(r, e)

Spec == Init /\ [][Next]_vars
=============================================================================
