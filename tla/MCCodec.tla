------------------------------ MODULE MCCodec ------------------------------
(***************************************************************************)
(* Bytes of 8 values, so of 3 bits, and 256 for the 2^64 of a BCD number.  *)
(***************************************************************************)
EXTENDS Codec

Addresses == {<<0, 1, 2>>, <<7, 0, 1>>, <<1, 7, 7>>}

AnyHeader ==
  [messageType : {"command", "response"}, responseRequired : BOOLEAN,
   gatewayCount : {0, 2}, src : Addresses, dst : Addresses, serviceID : Bytes]

Memories == [memoryArea : {0, 2}, address : {0, 10, 17, 63}, bitOffset : {0, 7}]
AnyRequest ==
  [src : {<<0, 1, 2>>}, dst : Addresses, sid : {0, 7}, code : {"read", "write", "clock"},
   memory : Memories, count : {0, 1, 12}, data : {<<>>, <<2>>, <<1, 7, 0>>},
   end : {0, 1, 8, 13, 63}]

Wides == 0 .. 255
Nibble == {0, 1, 2, 5, 8, 9, 10, 15}
AnyDigits == UNION {[1 .. n -> Nibble \X Nibble] : n \in 0 .. 2}

AnyDate ==
  {<<y, m, d, h, 59, s>> : y \in 1950 .. 2049, m \in {1, 12}, d \in {9, 31},
                           h \in {0, 23}, s \in {0, 10}}

AnyNumber ==
  {[width |-> 2, value |-> v] : v \in 0 .. 63}
    \cup {[width |-> 3, value |-> 7 * v] : v \in 0 .. 73}
    \cup {[width |-> 4, value |-> 13 * v] : v \in 0 .. 315}
    \cup {[width |-> 8, value |-> 61680 * v] : v \in 0 .. 272}

AnyBools == UNION {[1 .. n -> {0, 1}] : n \in 0 .. 8}

H == defaultCommandHeader(<<0, 1, 2>>, <<7, 0, 1>>, 2)
M == [memoryArea |-> 2, address |-> 6, bitOffset |-> 0]
AnyFrame ==
  [header : {H}, code : {"handshake", "read", "write", "clock"}, memory : {M}, count : 0 .. 15,
   data : {<<>>, <<1>>, <<1, 2, 7, 0>>}]
=============================================================================
