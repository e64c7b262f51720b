----------------------------- MODULE ByteMemory -----------------------------
(***************************************************************************)
(* What the PLC simulator promises of its two memories: a request is       *)
(* carried out as a whole on exactly the items it names, or it is refused  *)
(* and changes nothing; and it is refused only if some of those items do   *)
(* not exist.  Nothing is wrapped here: addresses and counts are numbers.  *)
(* The one exception is a request for items so far beyond the memory that  *)
(* 16 bits cannot number them: nothing is promised of it.                  *)
(***************************************************************************)
EXTENDS Integers, Sequences

CONSTANTS Size, Bytes, Request

VARIABLES
  words, bits,  \* the bytes of the word area and of the bit area
  asked,        \* the request being dealt with
  answer        \* what came of it: [end, data]

vars == <<words, bits, asked, answer>>

NoAnswer == [end |-> "none", data |-> <<>>]

\* The bytes a request is about: from First on, Extent of them.  An item is two
\* bytes of the word area, whose first is numbered by the address, or one of the other.
First(r) == IF r.area = "DMWord" THEN r.address ELSE r.address + r.bit
Extent(r) == IF r.area = "DMWord" THEN 2 * r.count ELSE r.count
Exists(r) == r.area \in {"DMWord", "DMBit"} /\ First(r) + Extent(r) <= Size

Contents(m, first, n) == [i \in 1 .. n |-> m[first + i - 1]]
Unchanged(m, n, first, extent) ==
  \A i \in (0 .. Size - 1) \ (first .. first + extent - 1) : n[i] = m[i]

Init ==
  /\ words = [i \in 0 .. Size - 1 |-> 0]
  /\ bits = [i \in 0 .. Size - 1 |-> 0]
  /\ asked \in Request
  /\ answer = NoAnswer

Arrive ==
  /\ asked' \in Request
  /\ answer' = NoAnswer
  /\ UNCHANGED <<words, bits>>

Fetch ==
  /\ asked.code = "read"
  /\ Exists(asked)
  /\ answer' = [end |-> "normal",
                data |-> Contents(IF asked.area = "DMWord" THEN words ELSE bits,
                                  First(asked), Extent(asked))]
  /\ UNCHANGED <<words, bits, asked>>

\* Items the request brings no data for may become anything.
Store ==
  /\ asked.code = "write"
  /\ Exists(asked)
  /\ answer' = [end |-> "normal", data |-> <<>>]
  /\ LET sent == IF Len(asked.data) < Extent(asked) THEN Len(asked.data) ELSE Extent(asked)
         Stored(m, n) ==
           /\ n \in [0 .. Size - 1 -> Bytes]
           /\ Contents(n, First(asked), sent) = Contents(asked.data, 1, sent)
           /\ Unchanged(m, n, First(asked), Extent(asked))
     IN  \/ asked.area = "DMWord" /\ Stored(words, words') /\ UNCHANGED bits
         \/ asked.area = "DMBit" /\ Stored(bits, bits') /\ UNCHANGED words
  /\ UNCHANGED asked

Overflows(r) == First(r) + Extent(r) >= 2 * Size

Muddle ==
  /\ asked.code # "other"
  /\ Overflows(asked)
  /\ words' \in [0 .. Size - 1 -> Bytes]
  /\ bits' \in [0 .. Size - 1 -> Bytes]
  /\ asked.code = "read" => UNCHANGED <<words, bits>>
  /\ answer'.end \in {"normal", "range"}
  /\ UNCHANGED asked

Refuse ==
  /\ asked.code = "other" \/ ~Exists(asked)
  /\ answer' \in [end : {"range", "unsupported"}, data : {<<>>}]
  /\ UNCHANGED <<words, bits, asked>>

Next == Arrive \/ (answer = NoAnswer /\ (Fetch \/ Store \/ Muddle \/ Refuse))

Spec == Init /\ [][Next]_vars
=============================================================================
