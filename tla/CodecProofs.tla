---------------------------- MODULE CodecProofs ----------------------------
(***************************************************************************)
(* The pure functions do what the properties of Codec say, for every width *)
(* of a byte and of a number, and every address, count, length and data.   *)
(*                                                                         *)
(* The parts are independent: frames (a concatenation is cut where its     *)
(* pieces meet, so each decoder finds what its encoder put there), BCD     *)
(* (decodeBCD and the number its nibbles say, digit by digit), the clock   *)
(* (one byte of two digits), and numbers and bits (writing digits undoes   *)
(* reading them).  A loop of the code is a recursive function here: it has *)
(* a run (Iteration), the run is the function, and facts about it follow   *)
(* by induction over the steps (SetInduction of NumberProofs).             *)
(***************************************************************************)
EXTENDS Codec, NumberProofs

-----------------------------------------------------------------------------
(* Sequences of symbols *)

\* What a byte of a frame can be: the ICF is a set.
Symbol == Int \cup SUBSET Nat

LEMMA Symbols ==
  /\ \A x \in Int : x \in Symbol
  /\ \A x \in Nat : x \in Symbol
  /\ \A x \in Bytes : x \in Symbol /\ x \in Nat
  /\ \A x \in SUBSET Nat : x \in Symbol
  BY DEF Symbol, Bytes

(* Concatenation, length and part of a sequence as names, which the provers *)
(* reason about better than about the operators themselves.                *)
Join(a, b) == a \o b
Size(b) == Len(b)
Cut(b, m, n) == SubSeq(b, m, n)

LEMMA Tuples ==
  /\ \A a \in Symbol : <<a>> \in Seq(Symbol) /\ Size(<<a>>) = 1
  /\ \A a \in Symbol, b \in Symbol : <<a, b>> \in Seq(Symbol) /\ Size(<<a, b>>) = 2
  /\ \A a \in Symbol, b \in Symbol, c \in Symbol :
       <<a, b, c>> \in Seq(Symbol) /\ Size(<<a, b, c>>) = 3
  BY DEF Size

\* The parts of a concatenation.
LEMMA Joined ==
  \A a \in Seq(Symbol), b \in Seq(Symbol) :
    /\ Size(a) \in Nat /\ Size(b) \in Nat
    /\ Join(a, b) \in Seq(Symbol) /\ Size(Join(a, b)) = Size(a) + Size(b)
    /\ \A i \in 1 .. Size(a) : Join(a, b)[i] = a[i]
    /\ \A i \in Size(a) + 1 .. Size(a) + Size(b) : Join(a, b)[i] = b[i - Size(a)]
    /\ Cut(Join(a, b), 1, Size(a)) = a
    /\ Cut(Join(a, b), Size(a) + 1, Size(a) + Size(b)) = b
  <1> TAKE a \in Seq(Symbol), b \in Seq(Symbol)
  <1> DEFINE c == a \o b
             k == Len(a)
             l == Len(b)
  <1>0. k \in Nat /\ l \in Nat
    BY LenProperties
  <1>1. c \in Seq(Symbol) /\ Len(c) = k + l
    BY ConcatProperties
  <1>2. \A i \in 1 .. k + l : c[i] = IF i <= k THEN a[i] ELSE b[i - k]
    BY ConcatProperties
  <1>3. \A i \in 1 .. k : a[i] \in Symbol
    OBVIOUS
  <1>4. \A i \in 1 .. l : b[i] \in Symbol
    OBVIOUS
  <1>5. \A i \in 1 .. k : c[i] = a[i]
    BY <1>0, <1>2
  <1>6. \A i \in k + 1 .. k + l : c[i] = b[i - k]
    BY <1>0, <1>2
  <1>7. Len(a) = k /\ Len(b) = l
    OBVIOUS
  <1> HIDE DEF c, k, l
  <1>8. SubSeq(c, 1, k) = a
    <2> DEFINE s == SubSeq(c, 1, k)
    <2>1. s \in Seq(Symbol) /\ Len(s) = k /\ \A i \in 1 .. k : s[i] = c[i]
      BY <1>0, <1>3, <1>5, SubSeqProperties
    <2> HIDE DEF s
    <2>2. s = a
      BY <1>5, <1>7, <2>1, SeqEqual
    <2>3. QED
      BY <2>2 DEF s
  <1>9. SubSeq(c, k + 1, k + l) = b
    <2> DEFINE s == SubSeq(c, k + 1, k + l)
    <2>1. \A i \in k + 1 .. k + l : i - k \in 1 .. l
      BY <1>0
    <2>2. \A i \in k + 1 .. k + l : c[i] \in Symbol
      BY <1>4, <1>6, <2>1
    <2>3. /\ s \in Seq(Symbol) /\ Len(s) = l
          /\ \A i \in 1 .. (k + l) - (k + 1) + 1 : s[i] = c[(k + 1) + i - 1]
      BY <1>0, <2>2, SubSeqProperties
    <2>4. \A i \in 1 .. l : /\ i \in 1 .. (k + l) - (k + 1) + 1 /\ (k + 1) + i - 1 = k + i
                           /\ k + i \in k + 1 .. k + l /\ (k + i) - k = i
      BY <1>0
    <2> HIDE DEF s
    <2>5. \A i \in 1 .. Len(s) : s[i] = b[i]
      BY <1>6, <2>3, <2>4
    <2>6. s = b
      BY <1>7, <2>3, <2>5, SeqEqual
    <2>7. QED
      BY <2>6 DEF s
  <1>10. /\ Size(a) = k /\ Size(b) = l /\ Join(a, b) = c /\ Size(c) = Len(c)
         /\ Cut(c, 1, k) = SubSeq(c, 1, k) /\ Cut(c, k + 1, k + l) = SubSeq(c, k + 1, k + l)
    BY DEF Size, Join, Cut, c, k, l
  <1>11. QED
    BY <1>0, <1>1, <1>5, <1>6, <1>8, <1>9, <1>10

\* Two or three symbols of a sequence
LEMMA Cuts ==
  ASSUME NEW b \in Seq(Symbol), NEW m \in Nat, NEW x \in Symbol, NEW y \in Symbol, NEW z \in Symbol,
         1 <= m, b[m] = x, b[m + 1] = y
  PROVE  /\ Cut(b, m, m + 1) = <<x, y>>
         /\ b[m + 2] = z => Cut(b, m, m + 2) = <<x, y, z>>
  <1>1. SubSeq(b, m, m + 1) = <<x, y>>
    <2> DEFINE s == SubSeq(b, m, m + 1)
               t == <<x, y>>
    <2>1. \A i \in m .. m + 1 : b[i] \in Symbol
      <3>1. \A i \in m .. m + 1 : i = m \/ i = m + 1
        OBVIOUS
      <3>2. QED
        BY <3>1
    <2>2. s \in Seq(Symbol) /\ Len(s) = 2 /\ \A i \in 1 .. 2 : s[i] = b[m + i - 1]
      <3>1. m \in Int /\ m + 1 \in Int /\ m <= m + 1 /\ (m + 1) - m + 1 = 2
        OBVIOUS
      <3>2. /\ s \in Seq(Symbol) /\ Len(s) = (m + 1) - m + 1
            /\ \A i \in 1 .. (m + 1) - m + 1 : s[i] = b[m + i - 1]
        BY <2>1, <3>1, SubSeqProperties
      <3>3. QED
        BY <3>1, <3>2
    <2>3. t \in Seq(Symbol) /\ Len(t) = 2 /\ t[1] = x /\ t[2] = y
      OBVIOUS
    <2> HIDE DEF s, t
    <2>4. s[1] = x /\ s[2] = y
      BY <2>2
    <2>5. \A i \in 1 .. Len(s) : s[i] = t[i]
      BY <2>2, <2>3, <2>4
    <2>6. s = t
      BY <2>2, <2>3, <2>5, SeqEqual
    <2>7. QED
      BY <2>6 DEF s, t
  <1>2. ASSUME b[m + 2] = z
        PROVE  SubSeq(b, m, m + 2) = <<x, y, z>>
    <2> DEFINE s == SubSeq(b, m, m + 2)
               t == <<x, y, z>>
    <2>1. \A i \in m .. m + 2 : b[i] \in Symbol
      <3>1. \A i \in m .. m + 2 : i = m \/ i = m + 1 \/ i = m + 2
        OBVIOUS
      <3>2. QED
        BY <1>2, <3>1
    <2>2. s \in Seq(Symbol) /\ Len(s) = 3 /\ \A i \in 1 .. (m + 2) - m + 1 : s[i] = b[m + i - 1]
      BY <2>1, SubSeqProperties
    <2>3. t \in Seq(Symbol) /\ Len(t) = 3 /\ t[1] = x /\ t[2] = y /\ t[3] = z
      OBVIOUS
    <2> HIDE DEF s, t
    <2>4. s[1] = x /\ s[2] = y /\ s[3] = z
      BY <1>2, <2>2
    <2>5. \A i \in 1 .. Len(s) : s[i] = t[i]
      BY <2>2, <2>3, <2>4
    <2>6. s = t
      BY <2>2, <2>3, <2>5, SeqEqual
    <2>7. QED
      BY <2>6 DEF s, t
  <1>3. QED
    BY <1>1, <1>2 DEF Cut

-----------------------------------------------------------------------------
(* Frames *)

\* A header of which the gateway count may be any number.
SentHeader ==
  [messageType : {"command", "response"}, responseRequired : BOOLEAN,
   gatewayCount : Nat, src : Address, dst : Address, serviceID : Bytes]

LEMMA AddressIs ==
  ASSUME NEW a \in Address
  PROVE  /\ a \in Seq(Symbol) /\ Size(a) = 3 /\ a = <<a[1], a[2], a[3]>>
         /\ a[1] \in Symbol /\ a[2] \in Symbol /\ a[3] \in Symbol
  <1>1. PICK x \in Bytes, y \in Bytes, z \in Bytes : a = <<x, y, z>>
    BY DEF Address
  <1>2. x \in Symbol /\ y \in Symbol /\ z \in Symbol
    BY Symbols
  <1>3. <<x, y, z>> \in Seq(Symbol) /\ Size(<<x, y, z>>) = 3
    BY <1>2, Tuples
  <1>4. QED
    BY <1>1, <1>2, <1>3

\* Where encodeHeader puts the fields of a header.
LEMMA HeaderBytes ==
  ASSUME NEW h \in SentHeader
  PROVE  /\ encodeHeader(h) \in Seq(Symbol) /\ Size(encodeHeader(h)) = 10
         /\ 0 \in encodeHeader(h)[1] <=> ~h.responseRequired
         /\ encodeHeader(h)[3] = h.gatewayCount
         /\ Cut(encodeHeader(h), 4, 6) = h.dst
         /\ Cut(encodeHeader(h), 7, 9) = h.src
         /\ encodeHeader(h)[10] = h.serviceID
  <1> DEFINE icf == {icfBridgesBit}
                      \cup (IF h.responseRequired THEN {} ELSE {icfResponseRequiredBit})
                      \cup (IF h.messageType = "response" THEN {icfMessageTypeBit} ELSE {})
             one == <<icf, 0, h.gatewayCount>>
             last == <<h.serviceID>>
             two == Join(one, h.dst)
             three == Join(two, h.src)
             four == Join(three, last)
  <1>1. /\ h.dst \in Address /\ h.src \in Address
        /\ h.dst \in Seq(Symbol) /\ Size(h.dst) = 3 /\ h.src \in Seq(Symbol) /\ Size(h.src) = 3
        /\ h.serviceID \in Symbol /\ h.gatewayCount \in Symbol
    BY AddressIs, Symbols DEF SentHeader
  <1>2. icf \in SUBSET Nat /\ (0 \in icf <=> ~h.responseRequired)
    BY DEF icfBridgesBit, icfResponseRequiredBit, icfMessageTypeBit
  <1>3. encodeHeader(h) = four
    BY DEF encodeHeader, Join
  <1> HIDE DEF icf
  <1>4. icf \in Symbol /\ 0 \in Symbol
    BY <1>2, Symbols
  <1>5. one \in Seq(Symbol) /\ Size(one) = 3 /\ one[1] = icf /\ one[3] = h.gatewayCount
    BY <1>1, <1>4, Tuples
  <1>6. last \in Seq(Symbol) /\ Size(last) = 1 /\ last[1] = h.serviceID
    BY <1>1, Tuples
  <1> HIDE DEF one, last
  <1>7. /\ two \in Seq(Symbol) /\ Size(two) = 6 /\ two[1] = one[1] /\ two[3] = one[3]
        /\ two[4] = h.dst[1] /\ two[5] = h.dst[2] /\ two[6] = h.dst[3]
    <2>1. /\ two \in Seq(Symbol) /\ Size(two) = Size(one) + Size(h.dst)
          /\ \A i \in 1 .. Size(one) : two[i] = one[i]
          /\ \A i \in Size(one) + 1 .. Size(one) + Size(h.dst) : two[i] = h.dst[i - Size(one)]
      BY <1>1, <1>5, Joined
    <2> HIDE DEF two
    <2>2. QED
      BY <1>1, <1>5, <2>1
  <1> HIDE DEF two
  <1>8. /\ three \in Seq(Symbol) /\ Size(three) = 9 /\ \A i \in 1 .. 6 : three[i] = two[i]
        /\ three[7] = h.src[1] /\ three[8] = h.src[2] /\ three[9] = h.src[3]
    <2>1. /\ three \in Seq(Symbol) /\ Size(three) = Size(two) + Size(h.src)
          /\ \A i \in 1 .. Size(two) : three[i] = two[i]
          /\ \A i \in Size(two) + 1 .. Size(two) + Size(h.src) : three[i] = h.src[i - Size(two)]
      BY <1>1, <1>7, Joined
    <2> HIDE DEF three
    <2>2. QED
      BY <1>1, <1>7, <2>1
  <1> HIDE DEF three
  <1>9. /\ four \in Seq(Symbol) /\ Size(four) = 10 /\ \A i \in 1 .. 9 : four[i] = three[i]
        /\ four[10] = last[1]
    <2>1. /\ four \in Seq(Symbol) /\ Size(four) = Size(three) + Size(last)
          /\ \A i \in 1 .. Size(three) : four[i] = three[i]
          /\ \A i \in Size(three) + 1 .. Size(three) + Size(last) : four[i] = last[i - Size(three)]
      BY <1>6, <1>8, Joined
    <2> HIDE DEF four
    <2>2. Size(four) = 10 /\ \A i \in 1 .. 9 : four[i] = three[i]
      BY <1>6, <1>8, <2>1
    <2>3. 10 \in Size(three) + 1 .. Size(three) + Size(last) /\ 10 - Size(three) = 1
      BY <1>6, <1>8
    <2>4. QED
      BY <2>1, <2>2, <2>3
  <1> HIDE DEF four
  <1>10. four[1] = icf /\ four[3] = h.gatewayCount /\ four[10] = h.serviceID
    <2>1. 1 \in 1 .. 6 /\ 3 \in 1 .. 6 /\ 1 \in 1 .. 9 /\ 3 \in 1 .. 9
      OBVIOUS
    <2>2. four[1] = two[1] /\ four[3] = two[3]
      BY <1>8, <1>9, <2>1
    <2>3. QED
      BY <1>5, <1>6, <1>7, <1>9, <2>2, Zenon
  <1>11. four[4] = h.dst[1] /\ four[4 + 1] = h.dst[2] /\ four[4 + 2] = h.dst[3]
    BY <1>7, <1>8, <1>9
  <1>12. four[7] = h.src[1] /\ four[7 + 1] = h.src[2] /\ four[7 + 2] = h.src[3]
    BY <1>8, <1>9
  <1>13. Cut(four, 4, 6) = h.dst
    <2>1. 4 \in Nat /\ 1 <= 4 /\ 4 + 2 = 6
      OBVIOUS
    <2>2. Cut(four, 4, 4 + 2) = <<h.dst[1], h.dst[2], h.dst[3]>>
      <3>1. h.dst[1] \in Symbol /\ h.dst[2] \in Symbol /\ h.dst[3] \in Symbol
        BY <1>1, AddressIs
      <3>2. four \in Seq(Symbol) /\ 4 \in Nat /\ 1 <= 4
        BY <1>9
      <3>3. QED
        BY <1>11, <3>1, <3>2, Cuts
    <2>3. QED
      BY <1>1, <2>1, <2>2, AddressIs
  <1>14. Cut(four, 7, 9) = h.src
    <2>1. 7 \in Nat /\ 1 <= 7 /\ 7 + 2 = 9
      OBVIOUS
    <2>2. Cut(four, 7, 7 + 2) = <<h.src[1], h.src[2], h.src[3]>>
      <3>1. h.src[1] \in Symbol /\ h.src[2] \in Symbol /\ h.src[3] \in Symbol
        BY <1>1, AddressIs
      <3>2. four \in Seq(Symbol) /\ 7 \in Nat /\ 1 <= 7
        BY <1>9
      <3>3. QED
        BY <1>12, <3>1, <3>2, Cuts
    <2>3. QED
      BY <1>1, <2>1, <2>2, AddressIs
  <1>15. QED
    BY <1>2, <1>3, <1>9, <1>10, <1>13, <1>14

\* All but the message type of a header comes back.
LEMMA HeaderDecoded ==
  ASSUME NEW h \in SentHeader
  PROVE  decodeHeader(encodeHeader(h)) =
           [h EXCEPT !.messageType = IF h.responseRequired THEN "command" ELSE "response"]
  <1> DEFINE b == encodeHeader(h)
             type == IF h.responseRequired THEN "command" ELSE "response"
  <1>1. /\ 0 \in b[1] <=> ~h.responseRequired
        /\ b[3] = h.gatewayCount /\ Cut(b, 4, 6) = h.dst /\ Cut(b, 7, 9) = h.src
        /\ b[10] = h.serviceID
    BY HeaderBytes
  <1> HIDE DEF b
  <1>2. decodeHeader(b) =
          [responseRequired |-> h.responseRequired, messageType |-> type,
           gatewayCount |-> h.gatewayCount, dst |-> h.dst, src |-> h.src,
           serviceID |-> h.serviceID]
    <2>1. 0 \notin b[1] <=> h.responseRequired
      BY <1>1
    <2>2. (0 \notin b[1]) = h.responseRequired
      BY <2>1 DEF SentHeader
    <2>3. QED
      BY <1>1, <2>2 DEF Cut, decodeHeader, icfResponseRequiredBit
  <1>3. [h EXCEPT !.messageType = type] =
          [responseRequired |-> h.responseRequired, messageType |-> type,
           gatewayCount |-> h.gatewayCount, dst |-> h.dst, src |-> h.src,
           serviceID |-> h.serviceID]
    BY DEF SentHeader
  <1>4. QED
    BY <1>2, <1>3 DEF b

LEMMA HeadersSent ==
  /\ \A h \in Header : h \in SentHeader
  /\ \A src \in Address, dst \in Address, sid \in Bytes :
       /\ defaultCommandHeader(src, dst, sid) \in SentHeader
       /\ decodeHeader(encodeHeader(defaultCommandHeader(src, dst, sid))) =
            defaultCommandHeader(src, dst, sid)
  /\ \A h \in SentHeader :
       /\ defaultResponseHeader(h) \in SentHeader
       /\ decodeHeader(encodeHeader(defaultResponseHeader(h))) = defaultResponseHeader(h)
  <1>1. \A h \in Header : h \in SentHeader
    BY DEF Header, SentHeader, Bytes
  <1>2. ASSUME NEW src \in Address, NEW dst \in Address, NEW sid \in Bytes
        PROVE  /\ defaultCommandHeader(src, dst, sid) \in SentHeader
               /\ decodeHeader(encodeHeader(defaultCommandHeader(src, dst, sid))) =
                    defaultCommandHeader(src, dst, sid)
    <2> DEFINE h == defaultCommandHeader(src, dst, sid)
    <2>1. h \in SentHeader
      BY DEF defaultCommandHeader, defaultHeader, SentHeader
    <2>2. h.responseRequired /\ h.messageType = "command"
      BY DEF defaultCommandHeader, defaultHeader
    <2> HIDE DEF h
    <2>3. decodeHeader(encodeHeader(h)) = [h EXCEPT !.messageType = h.messageType]
      BY <2>1, <2>2, HeaderDecoded
    <2>4. [h EXCEPT !.messageType = h.messageType] = h
      BY <2>1 DEF SentHeader
    <2>5. QED
      BY <2>1, <2>3, <2>4 DEF h
  <1>3. ASSUME NEW g \in SentHeader
        PROVE  /\ defaultResponseHeader(g) \in SentHeader
               /\ decodeHeader(encodeHeader(defaultResponseHeader(g))) = defaultResponseHeader(g)
    <2> DEFINE h == defaultResponseHeader(g)
    <2>1. h \in SentHeader
      BY DEF defaultResponseHeader, defaultHeader, SentHeader
    <2>2. ~h.responseRequired /\ h.messageType = "response"
      BY DEF defaultResponseHeader, defaultHeader
    <2> HIDE DEF h
    <2>3. decodeHeader(encodeHeader(h)) = [h EXCEPT !.messageType = h.messageType]
      BY <2>1, <2>2, HeaderDecoded
    <2>4. [h EXCEPT !.messageType = h.messageType] = h
      BY <2>1 DEF SentHeader
    <2>5. QED
      BY <2>1, <2>3, <2>4 DEF h
  <1>4. QED
    BY <1>1, <1>2, <1>3

LEMMA Associated ==
  ASSUME NEW a \in Seq(Symbol), NEW b \in Seq(Symbol), NEW c \in Seq(Symbol)
  PROVE  Join(Join(a, b), c) = Join(a, Join(b, c))
  BY ConcatAssociative DEF Join

\* The two bytes of a number are symbols.
LEMMA WordOfSymbols ==
  \A v \in 0 .. U16 - 1 : \E x \in Symbol, y \in Symbol : BE16(v) = <<x, y>>
  <1>1. ASSUME NEW v \in 0 .. U16 - 1
        PROVE  \E x \in Symbol, y \in Symbol : BE16(v) = <<x, y>>
    <2>1. v \div Byte \in Bytes /\ v % Byte \in Bytes
      BY Bytes16
    <2>2. v \div Byte \in Symbol /\ v % Byte \in Symbol
      BY <2>1, Symbols
    <2>3. QED
      BY <2>2 DEF BE16
  <1>2. QED
    BY <1>1

\* Code, header and the rest, found where they were put.
LEMMA MessageParts ==
  ASSUME NEW h \in Seq(Symbol), NEW x \in Symbol, NEW y \in Symbol, NEW rest \in Seq(Symbol),
         Size(h) = 10
  PROVE  LET b == Join(Join(h, <<x, y>>), rest)
         IN  /\ b \in Seq(Symbol) /\ Size(b) = 12 + Size(rest) /\ Size(rest) \in Nat
             /\ Cut(b, 1, 10) = h /\ Cut(b, 11, 12) = <<x, y>> /\ Cut(b, 13, Size(b)) = rest
             /\ \A i \in 1 .. Size(rest) : b[12 + i] = rest[i]
  <1> DEFINE cc == <<x, y>>
             front == Join(h, cc)
             back == Join(cc, rest)
             b == Join(front, rest)
  <1>1. cc \in Seq(Symbol) /\ Size(cc) = 2 /\ cc[1] = x /\ cc[2] = y
    BY Tuples
  <1>2. b = Join(h, back)
    BY <1>1, Associated
  <1> HIDE DEF cc
  <1>3. front \in Seq(Symbol) /\ Size(front) = 12 /\ front[11] = x /\ front[12] = y
    <2>1. /\ front \in Seq(Symbol) /\ Size(front) = Size(h) + Size(cc)
          /\ \A i \in Size(h) + 1 .. Size(h) + Size(cc) : front[i] = cc[i - Size(h)]
      BY <1>1, Joined
    <2> HIDE DEF front
    <2>2. QED
      BY <1>1, <2>1
  <1>4. back \in Seq(Symbol)
    BY <1>1, Joined
  <1> HIDE DEF front, back
  <1>5. Cut(b, 1, 10) = h
    <2>1. Cut(Join(h, back), 1, Size(h)) = h
      BY <1>4, Joined
    <2> HIDE DEF b
    <2>2. QED
      BY <1>2, <2>1
  <1>6. /\ b \in Seq(Symbol) /\ Size(b) = 12 + Size(rest) /\ Size(rest) \in Nat
        /\ b[11] = x /\ b[12] = y /\ Cut(b, 13, Size(b)) = rest
        /\ \A i \in 1 .. Size(rest) : b[12 + i] = rest[i]
    <2>1. /\ b \in Seq(Symbol) /\ Size(b) = Size(front) + Size(rest) /\ Size(rest) \in Nat
          /\ \A i \in 1 .. Size(front) : b[i] = front[i]
          /\ \A i \in Size(front) + 1 .. Size(front) + Size(rest) : b[i] = rest[i - Size(front)]
          /\ Cut(b, Size(front) + 1, Size(front) + Size(rest)) = rest
      BY <1>3, Joined
    <2> HIDE DEF b
    <2>2. \A i \in 1 .. Size(rest) : 12 + i \in 13 .. 12 + Size(rest) /\ (12 + i) - 12 = i
      BY <2>1
    <2>3. Size(b) = 12 + Size(rest) /\ Cut(b, 13, Size(b)) = rest
      BY <1>3, <2>1
    <2>4. b[11] = x /\ b[12] = y
      <3>1. 11 \in 1 .. Size(front) /\ 12 \in 1 .. Size(front)
        BY <1>3
      <3>2. QED
        BY <1>3, <2>1, <3>1
    <2>5. \A i \in 13 .. 12 + Size(rest) : b[i] = rest[i - 12]
      BY <1>3, <2>1
    <2>6. \A i \in 1 .. Size(rest) : b[12 + i] = rest[i]
      BY <2>2, <2>5
    <2>7. QED
      BY <2>1, <2>3, <2>4, <2>6
  <1> HIDE DEF b
  <1>7. Cut(b, 11, 12) = cc
    <2>1. b \in Seq(Symbol) /\ 11 \in Nat /\ 1 <= 11 /\ 11 + 1 = 12 /\ b[11] = x /\ b[11 + 1] = y
      BY <1>6
    <2>2. Cut(b, 11, 11 + 1) = <<x, y>>
      BY <2>1, Cuts
    <2>3. QED
      BY <2>1, <2>2 DEF cc
  <1>8. QED
    BY <1>5, <1>6, <1>7 DEF b, front, cc

\* What follows the command code of a read or a write, but for the data.
ItemPart(m, count) == Join(encodeMemoryAddress(m), BE16(count))

LEMMA ItemPartIs ==
  ASSUME NEW m \in MemoryAddress, NEW count \in 0 .. U16 - 1
  PROVE  LET b == ItemPart(m, count)
         IN  /\ encodeMemoryAddress(m) \in Seq(Symbol) /\ BE16(count) \in Seq(Symbol)
             /\ b \in Seq(Symbol) /\ Size(b) = 6
             /\ b[1] = m.memoryArea /\ b[2] = m.address \div Byte /\ b[3] = m.address % Byte
             /\ b[4] = m.bitOffset /\ b[5] = count \div Byte /\ b[6] = count % Byte
  <1> DEFINE one == <<m.memoryArea>>
             two == BE16(m.address)
             three == <<m.bitOffset>>
             four == BE16(count)
             onetwo == Join(one, two)
             address == Join(onetwo, three)
             b == Join(address, four)
  <1>1. /\ m.memoryArea \in Symbol /\ m.bitOffset \in Symbol
        /\ m.address \div Byte \in Symbol /\ m.address % Byte \in Symbol
        /\ count \div Byte \in Symbol /\ count % Byte \in Symbol
    <2>1. m.memoryArea \in Bytes /\ m.bitOffset \in Bytes /\ m.address \in 0 .. U16 - 1
      BY DEF MemoryAddress
    <2>2. /\ m.address \div Byte \in Bytes /\ m.address % Byte \in Bytes
          /\ count \div Byte \in Bytes /\ count % Byte \in Bytes
      <3>1. \A v \in 0 .. U16 - 1 : v \div Byte \in Bytes /\ v % Byte \in Bytes
        BY Bytes16
      <3>2. QED
        BY <2>1, <3>1
    <2>3. QED
      BY <2>1, <2>2, Symbols
  <1>2. one \in Seq(Symbol) /\ Size(one) = 1 /\ one[1] = m.memoryArea
    BY <1>1, Tuples
  <1>3. /\ two \in Seq(Symbol) /\ Size(two) = 2
        /\ two[1] = m.address \div Byte /\ two[2] = m.address % Byte
    BY <1>1, Tuples DEF BE16
  <1>4. three \in Seq(Symbol) /\ Size(three) = 1 /\ three[1] = m.bitOffset
    BY <1>1, Tuples
  <1>5. /\ four \in Seq(Symbol) /\ Size(four) = 2
        /\ four[1] = count \div Byte /\ four[2] = count % Byte
    BY <1>1, Tuples DEF BE16
  <1>6. encodeMemoryAddress(m) = address
    BY DEF encodeMemoryAddress, Join
  <1>7. b = ItemPart(m, count)
    BY <1>6 DEF ItemPart
  <1> HIDE DEF one, two, three, four
  <1>8. /\ onetwo \in Seq(Symbol) /\ Size(onetwo) = 3
        /\ onetwo[1] = one[1] /\ onetwo[2] = two[1] /\ onetwo[3] = two[2]
    <2>1. /\ onetwo \in Seq(Symbol) /\ Size(onetwo) = Size(one) + Size(two)
          /\ \A i \in 1 .. Size(one) : onetwo[i] = one[i]
          /\ \A i \in Size(one) + 1 .. Size(one) + Size(two) : onetwo[i] = two[i - Size(one)]
      BY <1>2, <1>3, Joined
    <2> HIDE DEF onetwo
    <2>2. QED
      BY <1>2, <1>3, <2>1
  <1> HIDE DEF onetwo
  <1>9. /\ address \in Seq(Symbol) /\ Size(address) = 4
        /\ address[1] = onetwo[1] /\ address[2] = onetwo[2] /\ address[3] = onetwo[3]
        /\ address[4] = three[1]
    <2>1. /\ address \in Seq(Symbol) /\ Size(address) = Size(onetwo) + Size(three)
          /\ \A i \in 1 .. Size(onetwo) : address[i] = onetwo[i]
          /\ \A i \in Size(onetwo) + 1 .. Size(onetwo) + Size(three) :
               address[i] = three[i - Size(onetwo)]
      BY <1>4, <1>8, Joined
    <2> HIDE DEF address
    <2>2. QED
      BY <1>4, <1>8, <2>1
  <1> HIDE DEF address
  <1>10. /\ b \in Seq(Symbol) /\ Size(b) = 6
         /\ b[1] = address[1] /\ b[2] = address[2] /\ b[3] = address[3] /\ b[4] = address[4]
         /\ b[5] = four[1] /\ b[6] = four[2]
    <2>1. /\ b \in Seq(Symbol) /\ Size(b) = Size(address) + Size(four)
          /\ \A i \in 1 .. Size(address) : b[i] = address[i]
          /\ \A i \in Size(address) + 1 .. Size(address) + Size(four) :
               b[i] = four[i - Size(address)]
      BY <1>5, <1>9, Joined
    <2> HIDE DEF b
    <2>2. QED
      BY <1>5, <1>9, <2>1
  <1> HIDE DEF b
  <1>11. BE16(count) \in Seq(Symbol)
    BY <1>5 DEF four
  <1>12. QED
    BY <1>2, <1>3, <1>4, <1>5, <1>6, <1>7, <1>8, <1>9, <1>10, <1>11

\* The server reads the memory address and the count where they are.
LEMMA ItemPartRead ==
  ASSUME NEW m \in MemoryAddress, NEW count \in 0 .. U16 - 1, NEW b \in Seq(Symbol),
         \A i \in 1 .. 6 : b[i] = ItemPart(m, count)[i]
  PROVE  decodeMemoryAddress(SubSeq(b, 1, 4)) = m /\ OfBE16(SubSeq(b, 5, 6)) = count
  <1> DEFINE s == SubSeq(b, 1, 4)
  <1>1. /\ b[1] = m.memoryArea /\ b[2] = m.address \div Byte /\ b[3] = m.address % Byte
        /\ b[4] = m.bitOffset /\ b[5] = count \div Byte /\ b[6] = count % Byte
    BY ItemPartIs
  <1>2. /\ m.memoryArea \in Bytes /\ m.bitOffset \in Bytes /\ m.address \in 0 .. U16 - 1
    BY DEF MemoryAddress
  <1>3. \A v \in 0 .. U16 - 1 :
          /\ v \div Byte \in Symbol /\ v % Byte \in Symbol
          /\ OfBE16(<<v \div Byte, v % Byte>>) = v
    <2> TAKE v \in 0 .. U16 - 1
    <2>1. v \div Byte \in Bytes /\ v % Byte \in Bytes
      BY Bytes16
    <2>2. OfBE16(BE16(v)) = v
      BY Bytes16
    <2>3. BE16(v) = <<v \div Byte, v % Byte>>
      BY DEF BE16
    <2>4. QED
      BY <2>1, <2>2, <2>3, Symbols
  <1>4. \A i \in 1 .. 4 : b[i] \in Symbol
    <2>1. b[1] \in Symbol /\ b[2] \in Symbol /\ b[3] \in Symbol /\ b[4] \in Symbol
      BY <1>1, <1>2, <1>3, Symbols
    <2>2. \A i \in 1 .. 4 : i = 1 \/ i = 2 \/ i = 3 \/ i = 4
      OBVIOUS
    <2>3. QED
      BY <2>1, <2>2
  <1>5. s \in Seq(Symbol) /\ s[1] = b[1] /\ s[2] = b[2] /\ s[3] = b[3] /\ s[4] = b[4]
    <2>1. s \in Seq(Symbol) /\ \A i \in 1 .. 4 : s[i] = b[i]
      BY <1>4, SubSeqProperties
    <2> HIDE DEF s
    <2>2. QED
      BY <2>1
  <1> HIDE DEF s
  <1>6. SubSeq(s, 2, 3) = <<m.address \div Byte, m.address % Byte>>
    <2>1. s[2] = m.address \div Byte /\ s[2 + 1] = m.address % Byte /\ 2 + 1 = 3 /\ 1 <= 2
      BY <1>1, <1>5
    <2>2. m.address \div Byte \in Symbol /\ m.address % Byte \in Symbol /\ 2 \in Nat
      BY <1>2, <1>3
    <2>3. Cut(s, 2, 2 + 1) = <<m.address \div Byte, m.address % Byte>>
      BY <1>5, <2>1, <2>2, Cuts
    <2>4. QED
      BY <2>1, <2>3 DEF Cut
  <1>7. SubSeq(b, 5, 6) = <<count \div Byte, count % Byte>>
    <2>1. b[5] = count \div Byte /\ b[5 + 1] = count % Byte /\ 5 + 1 = 6 /\ 1 <= 5
      BY <1>1
    <2>2. count \div Byte \in Symbol /\ count % Byte \in Symbol /\ 5 \in Nat
      BY <1>3
    <2>3. Cut(b, 5, 5 + 1) = <<count \div Byte, count % Byte>>
      BY <2>1, <2>2, Cuts
    <2>4. QED
      BY <2>1, <2>3 DEF Cut
  <1>8. OfBE16(SubSeq(b, 5, 6)) = count
    BY <1>3, <1>7
  <1>9. OfBE16(SubSeq(s, 2, 3)) = m.address
    BY <1>2, <1>3, <1>6
  <1>10. decodeMemoryAddress(s) =
           [memoryArea |-> m.memoryArea, address |-> m.address, bitOffset |-> m.bitOffset]
    BY <1>1, <1>5, <1>9 DEF decodeMemoryAddress
  <1>11. m = [memoryArea |-> m.memoryArea, address |-> m.address, bitOffset |-> m.bitOffset]
    BY DEF MemoryAddress
  <1>12. QED
    BY <1>8, <1>10, <1>11 DEF s

-----------------------------------------------------------------------------
(* Requests and responses *)

CodeOf(r) ==
  CASE r.code = "read" -> CommandCodeMemoryAreaRead
    [] r.code = "write" -> CommandCodeMemoryAreaWrite
    [] r.code = "clock" -> CommandCodeClockRead

\* What follows the code of a command.
RestOf(r) ==
  CASE r.code = "read" -> ItemPart(r.memory, r.count)
    [] r.code = "write" -> Join(ItemPart(r.memory, r.count), r.data)
    [] r.code = "clock" -> <<>>

LEMMA Data ==
  /\ \A d \in Seq(Bytes) : d \in Seq(Symbol)
  /\ <<>> \in Seq(Symbol) /\ Size(<<>>) = 0
  <1>1. Bytes \subseteq Symbol
    BY Symbols
  <1>2. \A d \in Seq(Bytes) : d \in Seq(Symbol)
    BY <1>1, SeqMonotonic
  <1>3. <<>> \in Seq(Symbol) /\ Len(<<>>) = 0
    OBVIOUS
  <1>4. QED
    BY <1>2, <1>3 DEF Size

\* Every command code is a number of two bytes.
LEMMA CodesAre ==
  ASSUME NEW r, r.code \in Codes
  PROVE  /\ CodeOf(r) \in 0 .. U16 - 1
         /\ \E x \in Symbol, y \in Symbol : BE16(CodeOf(r)) = <<x, y>>
  <1>1. 7 * Byte + 1 \in 0 .. U16 - 1 /\ 1 * Byte + 2 \in 0 .. U16 - 1 /\ 1 * Byte + 1 \in 0 .. U16 - 1
    <2>1. Byte \in Nat /\ Byte >= 8
      <3>1. Byte > 7
        BY CodecAssumption, Zenon
      <3>2. QED
        BY <3>1, ByteAssumption
    <2>2. 8 * Byte <= Byte * Byte /\ Byte * Byte \in Nat
      BY <2>1
    <2>3. QED
      BY <2>1, <2>2 DEF U16
  <1>2. CodeOf(r) \in 0 .. U16 - 1
    BY <1>1 DEF Codes, CodeOf, CommandCodeMemoryAreaRead, CommandCodeMemoryAreaWrite,
                CommandCodeClockRead
  <1>3. \A v \in 0 .. U16 - 1 : \E x \in Symbol, y \in Symbol : BE16(v) = <<x, y>>
    BY WordOfSymbols
  <1>4. QED
    BY <1>2, <1>3

LEMMA CommandParts ==
  ASSUME NEW r, r.code \in Codes, r.memory \in MemoryAddress, r.count \in 0 .. U16 - 1,
         r.data \in Seq(Bytes)
  PROVE  /\ CommandOf(r) = Join(BE16(CodeOf(r)), RestOf(r))
         /\ RestOf(r) \in Seq(Symbol)
         /\ Size(RestOf(r)) = CASE r.code = "read" -> 6
                                [] r.code = "write" -> 6 + Size(r.data)
                                [] r.code = "clock" -> 0
  <1> DEFINE m == r.memory
             n == r.count
             d == r.data
             cc == BE16(CodeOf(r))
             item6 == ItemPart(m, n)
  <1>1. cc \in Seq(Symbol)
    <2>1. PICK x \in Symbol, y \in Symbol : cc = <<x, y>>
      BY CodesAre
    <2>2. QED
      BY <2>1, Tuples
  <1>2. d \in Seq(Symbol) /\ Size(d) \in Nat
    BY Data, LenProperties DEF Size
  <1>3. /\ encodeMemoryAddress(m) \in Seq(Symbol) /\ BE16(n) \in Seq(Symbol)
        /\ item6 \in Seq(Symbol) /\ Size(item6) = 6
    BY ItemPartIs
  <1>4. \A c \in Seq(Symbol) : (c \o encodeMemoryAddress(m)) \o BE16(n) = Join(c, item6)
    BY <1>3, Associated DEF Join, ItemPart
  <1> HIDE DEF item6, d, n, m, cc
  <1>5. CASE r.code = "read"
    <2>1. CodeOf(r) = CommandCodeMemoryAreaRead /\ RestOf(r) = item6
      BY <1>5 DEF CodeOf, RestOf, item6, m, n
    <2>2. CommandOf(r) = (cc \o encodeMemoryAddress(m)) \o BE16(n)
      BY <1>5, <2>1 DEF CommandOf, readCommand, cc, m, n
    <2>3. CommandOf(r) = Join(cc, item6)
      BY <1>1, <1>4, <2>2
    <2>4. QED
      BY <1>3, <1>5, <2>1, <2>3 DEF cc
  <1>6. CASE r.code = "write"
    <2>1. CodeOf(r) = CommandCodeMemoryAreaWrite /\ RestOf(r) = Join(item6, d)
      BY <1>6 DEF CodeOf, RestOf, item6, d, m, n
    <2>2. CommandOf(r) = Join((cc \o encodeMemoryAddress(m)) \o BE16(n), d)
      BY <1>6, <2>1 DEF CommandOf, writeCommand, Join, cc, d, m, n
    <2>3. CommandOf(r) = Join(Join(cc, item6), d)
      BY <1>1, <1>4, <2>2
    <2>4. CommandOf(r) = Join(cc, Join(item6, d))
      BY <1>1, <1>2, <1>3, <2>3, Associated, Zenon
    <2>5. Join(item6, d) \in Seq(Symbol) /\ Size(Join(item6, d)) = 6 + Size(d)
      BY <1>2, <1>3, Joined
    <2>6. Size(RestOf(r)) = 6 + Size(r.data)
      BY <2>1, <2>5 DEF d
    <2>7. QED
      BY <1>6, <2>1, <2>4, <2>5, <2>6 DEF cc
  <1>7. CASE r.code = "clock"
    <2>1. CodeOf(r) = CommandCodeClockRead /\ RestOf(r) = <<>>
      BY <1>7 DEF CodeOf, RestOf
    <2>2. CommandOf(r) = cc
      BY <1>7, <2>1 DEF CommandOf, clockReadCommand, cc
    <2>3. cc = Join(cc, <<>>)
      BY <1>1, ConcatEmptySeq DEF Join
    <2>4. QED
      BY <1>7, <2>1, <2>2, <2>3, Data DEF cc
  <1>8. QED
    BY <1>5, <1>6, <1>7 DEF Codes

\* What follows the sixth byte is the data of a write, and nothing of a read.
LEMMA RestIsData ==
  ASSUME NEW r, r.code \in {"read", "write"}, r.memory \in MemoryAddress,
         r.count \in 0 .. U16 - 1, r.data \in Seq(Bytes)
  PROVE  /\ \A i \in 1 .. 6 : RestOf(r)[i] = ItemPart(r.memory, r.count)[i]
         /\ From(RestOf(r), 7) = (IF r.code = "write" THEN r.data ELSE <<>>)
  <1> DEFINE six == ItemPart(r.memory, r.count)
  <1>1. six \in Seq(Symbol) /\ Size(six) = 6
    BY ItemPartIs
  <1>2. r.data \in Seq(Symbol)
    BY Data
  <1> HIDE DEF six
  <1>3. CASE r.code = "read"
    <2>1. RestOf(r) = six
      BY <1>3 DEF RestOf, six
    <2>2. From(six, 7) = SubSeq(six, 7, Size(six))
      BY DEF From, Size
    <2>3. SubSeq(six, 7, Size(six)) = <<>>
      BY <1>1, SubSeqEmpty
    <2>4. QED
      BY <1>3, <2>1, <2>2, <2>3 DEF six
  <1>4. CASE r.code = "write"
    <2> DEFINE b == Join(six, r.data)
    <2>1. RestOf(r) = b
      BY <1>4 DEF RestOf, six
    <2>2. /\ Size(b) = Size(six) + Size(r.data)
          /\ \A i \in 1 .. Size(six) : b[i] = six[i]
          /\ Cut(b, Size(six) + 1, Size(six) + Size(r.data)) = r.data
      BY <1>1, <1>2, Joined
    <2>3. From(b, 7) = Cut(b, 7, Size(b))
      BY DEF From, Size, Cut
    <2> HIDE DEF b
    <2>4. Cut(b, 7, Size(b)) = r.data
      BY <1>1, <2>2
    <2>5. \A i \in 1 .. 6 : b[i] = six[i]
      BY <1>1, <2>2
    <2>6. QED
      BY <1>4, <2>1, <2>3, <2>4, <2>5 DEF six
  <1>5. QED
    BY <1>3, <1>4

\* What the server decodes of a request.
LEMMA RequestDecoded ==
  ASSUME NEW r \in RequestAsked
  PROVE  LET q == decodeRequest(RequestBytes(r))
         IN  /\ q.header = defaultCommandHeader(r.src, r.dst, r.sid)
             /\ q.commandCode = CodeOf(r) /\ q.data = RestOf(r)
  <1> DEFINE h == defaultCommandHeader(r.src, r.dst, r.sid)
             b == RequestBytes(r)
  <1>1. /\ r.src \in Address /\ r.dst \in Address /\ r.sid \in Bytes
        /\ r.code \in Codes /\ r.memory \in MemoryAddress /\ r.count \in 0 .. U16 - 1
        /\ r.data \in Seq(Bytes)
    BY DEF RequestAsked
  <1>2. h \in SentHeader /\ decodeHeader(encodeHeader(h)) = h
    BY <1>1, HeadersSent
  <1>3. encodeHeader(h) \in Seq(Symbol) /\ Size(encodeHeader(h)) = 10
    BY <1>2, HeaderBytes
  <1> DEFINE cc == BE16(CodeOf(r))
  <1>4. RestOf(r) \in Seq(Symbol) /\ CommandOf(r) = Join(cc, RestOf(r))
    BY <1>1, CommandParts
  <1>5. PICK x \in Symbol, y \in Symbol : cc = <<x, y>>
    BY <1>1, CodesAre
  <1>6. OfBE16(cc) = CodeOf(r)
    <2>1. CodeOf(r) \in 0 .. U16 - 1
      BY <1>1, CodesAre
    <2>2. \A v \in 0 .. U16 - 1 : OfBE16(BE16(v)) = v
      BY Bytes16
    <2>3. QED
      BY <2>1, <2>2
  <1> HIDE DEF cc
  <1>7. cc \in Seq(Symbol)
    BY <1>5, Tuples
  <1>8. b = Join(encodeHeader(h), Join(cc, RestOf(r)))
    BY <1>4 DEF RequestBytes, Join
  <1> HIDE DEF h, b
  <1>9. b = Join(Join(encodeHeader(h), <<x, y>>), RestOf(r))
    <2>1. Join(Join(encodeHeader(h), cc), RestOf(r)) =
            Join(encodeHeader(h), Join(cc, RestOf(r)))
      BY <1>3, <1>4, <1>7, Associated
    <2>2. QED
      BY <1>5, <1>8, <2>1
  <1>10. /\ Cut(b, 1, 10) = encodeHeader(h) /\ Cut(b, 11, 12) = cc
         /\ Cut(b, 13, Size(b)) = RestOf(r)
    BY <1>3, <1>4, <1>5, <1>9, MessageParts
  <1>11. decodeRequest(b) =
           [header |-> decodeHeader(Cut(b, 1, 10)), commandCode |-> OfBE16(Cut(b, 11, 12)),
            data |-> Cut(b, 13, Size(b))]
    BY DEF decodeRequest, From, Cut, Size
  <1>12. QED
    BY <1>2, <1>6, <1>10, <1>11 DEF b, h

LEMMA RequestOfArrives ==
  ASSUME NEW r \in RequestAsked
  PROVE  LET q == decodeRequest(RequestBytes(r))
         IN  /\ q.header = defaultCommandHeader(r.src, r.dst, r.sid)
             /\ r.code # "clock" =>
                  /\ decodeMemoryAddress(SubSeq(q.data, 1, 4)) = r.memory
                  /\ OfBE16(SubSeq(q.data, 5, 6)) = r.count
                  /\ From(q.data, 7) = (IF r.code = "write" THEN r.data ELSE <<>>)
             /\ q.commandCode = CASE r.code = "read" -> CommandCodeMemoryAreaRead
                                  [] r.code = "write" -> CommandCodeMemoryAreaWrite
                                  [] r.code = "clock" -> CommandCodeClockRead
  <1> DEFINE q == decodeRequest(RequestBytes(r))
  <1>1. /\ q.header = defaultCommandHeader(r.src, r.dst, r.sid)
        /\ q.commandCode = CodeOf(r) /\ q.data = RestOf(r)
    BY RequestDecoded
  <1> HIDE DEF q
  <1>2. ASSUME r.code # "clock"
        PROVE  /\ decodeMemoryAddress(SubSeq(q.data, 1, 4)) = r.memory
               /\ OfBE16(SubSeq(q.data, 5, 6)) = r.count
               /\ From(q.data, 7) = (IF r.code = "write" THEN r.data ELSE <<>>)
    <2>1. /\ r.code \in {"read", "write"} /\ r.code \in Codes /\ r.memory \in MemoryAddress
          /\ r.count \in 0 .. U16 - 1 /\ r.data \in Seq(Bytes)
      BY <1>2 DEF RequestAsked, Codes
    <2>2. RestOf(r) \in Seq(Symbol)
      BY <2>1, CommandParts
    <2>3. /\ \A i \in 1 .. 6 : RestOf(r)[i] = ItemPart(r.memory, r.count)[i]
          /\ From(RestOf(r), 7) = (IF r.code = "write" THEN r.data ELSE <<>>)
      BY <2>1, RestIsData
    <2>4. /\ decodeMemoryAddress(SubSeq(RestOf(r), 1, 4)) = r.memory
          /\ OfBE16(SubSeq(RestOf(r), 5, 6)) = r.count
      BY <2>1, <2>2, <2>3, ItemPartRead
    <2>5. QED
      BY <1>1, <2>3, <2>4
  <1>3. QED
    BY <1>1, <1>2 DEF q, CodeOf

\* The client finds the four parts of a response where the server put them.
LEMMA ResponseDecoded ==
  ASSUME NEW h \in SentHeader, decodeHeader(encodeHeader(h)) = h,
         NEW code \in 0 .. U16 - 1, NEW end \in 0 .. U16 - 1, NEW d \in Seq(Bytes)
  PROVE  LET a == [header |-> h, commandCode |-> code, endCode |-> end, data |-> d]
         IN  decodeResponse(encodeResponse(a)) = a
  <1> DEFINE a == [header |-> h, commandCode |-> code, endCode |-> end, data |-> d]
             hb == encodeHeader(h)
             cc == BE16(code)
             ec == BE16(end)
             rest == Join(ec, d)
             front == Join(Join(hb, cc), ec)
             b == encodeResponse(a)
  <1>1. hb \in Seq(Symbol) /\ Size(hb) = 10
    BY HeaderBytes
  <1>2. OfBE16(cc) = code /\ OfBE16(ec) = end
    <2>1. \A v \in 0 .. U16 - 1 : OfBE16(BE16(v)) = v
      BY Bytes16
    <2>2. QED
      BY <2>1
  <1>3. PICK x \in Symbol, y \in Symbol : cc = <<x, y>>
    BY WordOfSymbols
  <1>4. PICK u \in Symbol, v \in Symbol : ec = <<u, v>>
    BY WordOfSymbols
  <1>5. d \in Seq(Symbol) /\ Size(d) \in Nat
    BY Data, LenProperties DEF Size
  <1>6. b = Join(front, d)
    BY DEF encodeResponse, Join
  <1> HIDE DEF hb, cc, ec
  <1>7. /\ cc \in Seq(Symbol) /\ Size(cc) = 2
        /\ ec \in Seq(Symbol) /\ Size(ec) = 2 /\ ec[1] = u /\ ec[2] = v
    BY <1>3, <1>4, Tuples
  <1>8. Join(hb, cc) \in Seq(Symbol) /\ Size(Join(hb, cc)) = 12
    BY <1>1, <1>7, Joined
  <1>9. b = Join(Join(hb, <<x, y>>), rest)
    <2>1. Join(Join(Join(hb, cc), ec), d) = Join(Join(hb, cc), Join(ec, d))
      BY <1>7, <1>5, <1>8, Associated
    <2>2. QED
      BY <1>6, <1>3, <2>1
  <1>10. rest \in Seq(Symbol) /\ rest[1] = u /\ rest[2] = v /\ Size(rest) = 2 + Size(d)
    <2>1. /\ rest \in Seq(Symbol) /\ Size(rest) = Size(ec) + Size(d)
          /\ \A i \in 1 .. Size(ec) : rest[i] = ec[i]
      BY <1>7, <1>5, Joined
    <2> HIDE DEF rest
    <2>2. QED
      BY <1>7, <2>1
  <1>11. front \in Seq(Symbol) /\ Size(front) = 14
    BY <1>7, <1>8, Joined
  <1>12. Size(b) = 14 + Size(d) /\ Cut(b, 15, Size(b)) = d
    <2>1. /\ Size(Join(front, d)) = Size(front) + Size(d)
          /\ Cut(Join(front, d), Size(front) + 1, Size(front) + Size(d)) = d
      BY <1>5, <1>11, Joined
    <2> HIDE DEF front, b
    <2>2. QED
      BY <1>5, <1>6, <1>11, <2>1
  <1> HIDE DEF rest, front, b
  <1>13. /\ b \in Seq(Symbol) /\ Cut(b, 1, 10) = hb /\ Cut(b, 11, 12) = cc
         /\ b[13] = u /\ b[14] = v
    <2>1. /\ b \in Seq(Symbol) /\ Cut(b, 1, 10) = hb /\ Cut(b, 11, 12) = cc
          /\ \A i \in 1 .. Size(rest) : b[12 + i] = rest[i]
      <3>1. rest \in Seq(Symbol)
        BY <1>10
      <3>2. hb \in Seq(Symbol) /\ Size(hb) = 10
        BY <1>1
      <3>3. b \in Seq(Symbol) /\ Cut(b, 1, 10) = hb /\ Cut(b, 11, 12) = cc
        BY <1>3, <1>9, <3>1, <3>2, MessageParts
      <3>4. \A i \in 1 .. Size(rest) : Join(Join(hb, <<x, y>>), rest)[12 + i] = rest[i]
        BY <3>1, <3>2, MessageParts, Zenon
      <3>5. QED
        BY <1>3, <1>9, <3>3, <3>4
    <2>2. 1 \in 1 .. Size(rest) /\ 2 \in 1 .. Size(rest) /\ 12 + 1 = 13 /\ 12 + 2 = 14
      BY <1>5, <1>10
    <2>3. b[12 + 1] = rest[1] /\ b[12 + 2] = rest[2]
      BY <2>1, <2>2
    <2>4. QED
      BY <1>10, <2>1, <2>2, <2>3
  <1>14. Cut(b, 13, 14) = ec
    <2>1. 13 \in Nat /\ 1 <= 13 /\ 13 + 1 = 14
      OBVIOUS
    <2>2. Cut(b, 13, 13 + 1) = <<u, v>>
      BY <1>13, <2>1, Cuts
    <2>3. QED
      BY <1>4, <2>1, <2>2
  <1>15. decodeResponse(b) =
           [header |-> decodeHeader(Cut(b, 1, 10)), commandCode |-> OfBE16(Cut(b, 11, 12)),
            endCode |-> OfBE16(Cut(b, 13, 14)), data |-> Cut(b, 15, Size(b))]
    BY DEF decodeResponse, From, Cut, Size
  <1>16. decodeResponse(b) = [header |-> h, commandCode |-> code, endCode |-> end, data |-> d]
    BY <1>2, <1>12, <1>13, <1>14, <1>15 DEF hb
  <1>17. QED
    BY <1>16 DEF b

LEMMA AnswerToReturns ==
  ASSUME NEW r \in RequestAsked
  PROVE  LET q == decodeRequest(RequestBytes(r))
             a == [header |-> defaultResponseHeader(q.header), commandCode |-> q.commandCode,
                   endCode |-> r.end, data |-> r.data]
             got == decodeResponse(encodeResponse(a))
         IN  /\ got = a
             /\ got.header.dst = r.src /\ got.header.src = r.dst
             /\ got.header.serviceID = r.sid
  <1> DEFINE q == decodeRequest(RequestBytes(r))
             g == defaultCommandHeader(r.src, r.dst, r.sid)
             h == defaultResponseHeader(g)
             a == [header |-> h, commandCode |-> CodeOf(r), endCode |-> r.end, data |-> r.data]
  <1>1. /\ r.src \in Address /\ r.dst \in Address /\ r.sid \in Bytes /\ r.code \in Codes
        /\ r.data \in Seq(Bytes) /\ r.end \in 0 .. U16 - 1
    BY DEF RequestAsked
  <1>2. q.header = g /\ q.commandCode = CodeOf(r)
    BY RequestDecoded
  <1>3. h \in SentHeader /\ decodeHeader(encodeHeader(h)) = h
    BY <1>1, HeadersSent
  <1>4. h.dst = r.src /\ h.src = r.dst /\ h.serviceID = r.sid
    BY DEF defaultResponseHeader, defaultCommandHeader, defaultHeader
  <1>5. CodeOf(r) \in 0 .. U16 - 1
    BY <1>1, CodesAre
  <1>6. [header |-> defaultResponseHeader(q.header), commandCode |-> q.commandCode,
         endCode |-> r.end, data |-> r.data] = a
    BY <1>2
  <1> HIDE DEF q, g, h
  <1>7. decodeResponse(encodeResponse(a)) = a
    BY <1>1, <1>3, <1>5, ResponseDecoded
  <1>8. a.header = h
    OBVIOUS
  <1> HIDE DEF a
  <1>9. QED
    BY <1>4, <1>6, <1>7, <1>8 DEF q

LEMMA FrameLengths ==
  ASSUME NEW asked \in FrameAsked
  PROVE  LET f == FrameWritten(asked)
         IN  /\ LengthError(f) <=> asked.code = "write"
             /\ asked.code \in {"handshake", "read"} => f.length + 8 = Total(f)
             /\ asked.code = "clock" => f.length + 8 = Total(f) + 6
  <1> DEFINE f == FrameWritten(asked)
             hb == encodeHeader(asked.header)
             payload == Join(hb, CommandOf(asked))
  <1>1. asked.code \in {"read", "write", "clock", "handshake"}
    BY DEF FrameAsked, Codes
  <1>2. CASE asked.code = "handshake"
    <2>1. f = [length |-> 12, command |-> 0, payload |-> <<0, 0, 0, 1>>]
      BY <1>2 DEF FrameWritten, handShakeFrame, TcpFrame
    <2>2. f.length = 12 /\ Len(f.payload) = 4
      BY <2>1
    <2> HIDE DEF f
    <2>3. Total(f) = 20
      BY <2>2 DEF Total
    <2>4. QED
      BY <1>2, <2>2, <2>3 DEF LengthError, f
  <1>3. CASE asked.code # "handshake"
    <2>1. /\ asked.code \in Codes /\ asked.memory \in MemoryAddress
          /\ asked.count \in 0 .. U16 - 1 /\ asked.data \in Seq(Bytes)
          /\ asked.header \in SentHeader
      BY <1>1, <1>3, HeadersSent DEF FrameAsked, Codes
    <2>2. hb \in Seq(Symbol) /\ Size(hb) = 10
      BY <2>1, HeaderBytes
    <2>3. Size(BE16(CodeOf(asked))) = 2 /\ BE16(CodeOf(asked)) \in Seq(Symbol)
      BY <2>1, CodesAre, Tuples
    <2>4. /\ RestOf(asked) \in Seq(Symbol)
          /\ CommandOf(asked) = Join(BE16(CodeOf(asked)), RestOf(asked))
      BY <2>1, CommandParts
    <2>5. CommandOf(asked) \in Seq(Symbol) /\ Size(CommandOf(asked)) = 2 + Size(RestOf(asked))
      BY <2>3, <2>4, Joined
    <2>6. Size(payload) = 12 + Size(RestOf(asked)) /\ Size(RestOf(asked)) \in Nat
      <3>1. Size(RestOf(asked)) \in Nat
        BY <2>4, Joined
      <3>2. Size(payload) = Size(hb) + Size(CommandOf(asked))
        BY <2>2, <2>5, Joined
      <3>3. QED
        BY <2>2, <2>5, <3>1, <3>2
    <2>7. f = IF asked.code = "write" THEN [length |-> Size(payload), command |-> 2, payload |-> payload]
              ELSE [length |-> 26, command |-> 2, payload |-> payload]
      BY <1>3 DEF FrameWritten, FrameOf, packTcpReadCommand, packTcpWriteCommand, TcpFrame, Join, Size
    <2> HIDE DEF f, payload
    <2>8. f.payload = payload /\ f.length = IF asked.code = "write" THEN Size(payload) ELSE 26
      BY <2>7
    <2>9. Total(f) = 16 + Size(payload)
      BY <2>8 DEF Total, Size
    <2>10. CASE asked.code = "write"
      BY <2>6, <2>8, <2>9, <2>10 DEF LengthError, f
    <2>11. CASE asked.code = "read"
      <3>1. Size(RestOf(asked)) = 6
        BY <2>1, <2>11, CommandParts
      <3>2. QED
        BY <2>6, <2>8, <2>9, <2>11, <3>1 DEF LengthError, f
    <2>12. CASE asked.code = "clock"
      <3>1. Size(RestOf(asked)) = 0
        BY <2>1, <2>12, CommandParts
      <3>2. QED
        BY <2>6, <2>8, <2>9, <2>12, <3>1 DEF LengthError, f
    <2>13. QED
      BY <1>1, <1>3, <2>10, <2>11, <2>12
  <1>4. QED
    BY <1>2, <1>3

-----------------------------------------------------------------------------
(* One digit more *)

\* An even width has a half.
LEMMA HalfOfWide == Wide \in Nat /\ Wide \div 2 \in Nat /\ 2 * (Wide \div 2) = Wide /\ Wide > 18
  BY WideAssumption

(***************************************************************************)
(* As long as the true result 10 * x + d is below twice the width, the     *)
(* check catches every overflow and refuses nothing else (driver.go:167).  *)
(***************************************************************************)
THEOREM OverflowIsCaughtBelowTwiceTheWidth ==
  ASSUME NEW x \in 0 .. Wide - 1, NEW d \in 0 .. 9, 10 * x + d < 2 * Wide
  PROVE  timesTenPlusCatchingOverflow(x, d) =
           IF 10 * x + d < Wide THEN 10 * x + d ELSE Refused
  <1>1. 5 * x < Wide /\ Truncated(5 * x) = 5 * x
    BY HalfOfWide DEF Truncated
  <1>2. CASE 5 * x >= Wide \div 2
    <2>1. 10 * x + d >= Wide
      BY <1>2, HalfOfWide
    <2>2. timesTenPlusCatchingOverflow(x, d) = Refused
      BY <1>1, <1>2 DEF timesTenPlusCatchingOverflow
    <2>3. ~(10 * x + d < Wide)
      BY <2>1, HalfOfWide
    <2>4. QED
      BY <2>2, <2>3
  <1>3. CASE 5 * x < Wide \div 2
    BY <1>1, <1>3, HalfOfWide DEF timesTenPlusCatchingOverflow
  <1>4. QED
    BY <1>2, <1>3, HalfOfWide

(***************************************************************************)
(* Beyond that the product of five wraps once more and the check can miss  *)
(* it: what is returned then is the result less a multiple of twice the    *)
(* width, a number that looks as good as any other.                        *)
(***************************************************************************)
THEOREM MissedOverflowLosesTwiceTheWidth ==
  ASSUME NEW x \in 0 .. Wide - 1, NEW d \in 0 .. 9,
         timesTenPlusCatchingOverflow(x, d) # Refused
  PROVE  /\ timesTenPlusCatchingOverflow(x, d) \in 0 .. Wide - 1
         /\ \E k \in 0 .. 4 :
              timesTenPlusCatchingOverflow(x, d) = 10 * x + d - k * (2 * Wide)
  <1>1. PICK k \in 0 .. 4 : Truncated(5 * x) = 5 * x - k * Wide /\ Truncated(5 * x) \in Nat
    <2>1. CASE 5 * x < Wide
      BY <2>1, HalfOfWide DEF Truncated
    <2>2. CASE ~(5 * x < Wide)
      <3>1. Truncated(5 * x) = (5 * x) % Wide
        BY <2>2 DEF Truncated
      <3>2. (5 * x) % Wide \in Nat
        BY HalfOfWide
      <3>3. \E k \in 0 .. 4 : (5 * x) % Wide = 5 * x - k * Wide
        BY HalfOfWide
      <3>4. QED
        BY <3>1, <3>2, <3>3
    <2>3. QED
      BY <2>1, <2>2
  <1>2. timesTenPlusCatchingOverflow(x, d) = 2 * Truncated(5 * x) + d
    BY DEF timesTenPlusCatchingOverflow
  <1>3. ~(2 * Truncated(5 * x) > Wide - 1 - d)
    BY DEF timesTenPlusCatchingOverflow
  <1>4. 2 * Truncated(5 * x) + d = 10 * x + d - k * (2 * Wide)
    BY <1>1, HalfOfWide
  <1>5. QED
    BY <1>1, <1>2, <1>3, <1>4, HalfOfWide

-----------------------------------------------------------------------------
(* Loops *)

\* What a loop does in its i-th step with what it has got so far.
Bodies(S) == [Nat -> [S -> S]]

\* What it gets in n steps from z.
IsRun(g, S, z, step, n) ==
  g \in [0 .. n -> S] /\ g[0] = z /\ \A i \in 1 .. n : g[i] = step[i][g[i - 1]]

\* A loop of n steps from z has a run.
LEMMA Iteration ==
  ASSUME NEW S, NEW z \in S, NEW step \in Bodies(S), NEW n \in Nat
  PROVE  \E g : IsRun(g, S, z, step, n)
  <1> DEFINE Run(g, m) == /\ g \in [0 .. m -> S]
                          /\ \A i \in 0 .. m : g[i] = IF i = 0 THEN z ELSE step[i][g[i - 1]]
             Reached == {m \in Nat : \E g : Run(g, m)}
  <1>1. 0 \in Reached
    <2>1. Run([i \in 0 .. 0 |-> z], 0)
      OBVIOUS
    <2> HIDE DEF Run
    <2>2. QED
      BY <2>1
  <1>2. ASSUME NEW m \in Nat, m \in Reached
        PROVE  m + 1 \in Reached
    <2>1. PICK g : Run(g, m)
      BY <1>2
    <2> DEFINE new == step[m + 1][g[m]]
               h == [i \in 0 .. m + 1 |-> IF i <= m THEN g[i] ELSE new]
    <2>2. g \in [0 .. m -> S] /\ m \in 0 .. m /\ new \in S
      BY <2>1 DEF Bodies
    <2> HIDE DEF new
    <2>3. h \in [0 .. m + 1 -> S]
      <3>1. \A i \in 0 .. m + 1 : i <= m => i \in 0 .. m
        OBVIOUS
      <3>2. QED
        BY <2>2, <3>1
    <2>4. ASSUME NEW i \in 0 .. m + 1
          PROVE  h[i] = IF i = 0 THEN z ELSE step[i][h[i - 1]]
      <3>1. CASE i <= m
        <4>1. i \in 0 .. m /\ h[i] = g[i] /\ g[i] = IF i = 0 THEN z ELSE step[i][g[i - 1]]
          BY <2>1, <3>1
        <4>2. CASE i = 0
          BY <4>1, <4>2
        <4>3. CASE i # 0
          <5>1. i - 1 \in 0 .. m + 1 /\ i - 1 <= m
            BY <3>1, <4>3
          <5>2. h[i - 1] = g[i - 1]
            BY <5>1
          <5>3. QED
            BY <4>1, <4>3, <5>2
        <4>4. QED
          BY <4>2, <4>3
      <3>2. CASE ~(i <= m)
        <4>1. i = m + 1 /\ i # 0 /\ i - 1 = m /\ m \in 0 .. m + 1 /\ m <= m
          BY <3>2
        <4>2. h[i] = new /\ h[m] = g[m]
          BY <3>2, <4>1
        <4>3. QED
          BY <4>1, <4>2 DEF new
      <3>3. QED
        BY <3>1, <3>2
    <2> HIDE DEF h
    <2>5. Run(h, m + 1)
      BY <2>3, <2>4
    <2> HIDE DEF Run
    <2>6. QED
      BY <2>5
  <1> HIDE DEF Reached
  <1>3. Nat \subseteq Reached
    BY <1>1, <1>2, SetInduction
  <1>4. PICK g : Run(g, n)
    BY <1>3 DEF Reached
  <1>5. \A i \in 1 .. n : g[i] = step[i][g[i - 1]]
    <2>1. \A i \in 1 .. n : i \in 0 .. n /\ i # 0
      OBVIOUS
    <2>2. QED
      BY <1>4, <2>1
  <1>6. g[0] = z /\ g \in [0 .. n -> S]
    <2>1. 0 \in 0 .. n
      OBVIOUS
    <2>2. QED
      BY <1>4, <2>1
  <1>7. QED
    BY <1>5, <1>6 DEF IsRun

\* One byte more of decodeBCD.
ByteStep(bcd, x, i) ==
  LET hi == Digit(x, bcd[i][1])
  IN  IF bcd[i][2] = Filler /\ i = Len(bcd) THEN hi ELSE Digit(hi, bcd[i][2])

\* What is decoded is refused or fits.
Decodable == {Refused} \cup 0 .. Wide - 1

LEMMA DigitIs ==
  ASSUME NEW x \in Decodable, NEW d \in 0 .. 15
  PROVE  /\ Digit(x, d) \in Decodable
         /\ d > 9 \/ x = Refused => Digit(x, d) = Refused
  <1>1. CASE x = Refused \/ d > 9
    BY <1>1 DEF Digit, Decodable
  <1>2. CASE ~(x = Refused \/ d > 9)
    <2>1. x \in 0 .. Wide - 1 /\ d \in 0 .. 9
      BY <1>2 DEF Decodable
    <2>2. Digit(x, d) = timesTenPlusCatchingOverflow(x, d)
      BY <1>2 DEF Digit
    <2>3. CASE timesTenPlusCatchingOverflow(x, d) = Refused
      BY <1>2, <2>2, <2>3 DEF Decodable
    <2>4. CASE timesTenPlusCatchingOverflow(x, d) # Refused
      BY <1>2, <2>1, <2>2, <2>4, MissedOverflowLosesTwiceTheWidth DEF Decodable
    <2>5. QED
      BY <2>3, <2>4
  <1>3. QED
    BY <1>1, <1>2

LEMMA BcdBytes ==
  ASSUME NEW bcd \in Seq(BcdByte), NEW i \in 1 .. Len(bcd)
  PROVE  bcd[i][1] \in 0 .. 15 /\ bcd[i][2] \in 0 .. 15 /\ bcd[i] = <<bcd[i][1], bcd[i][2]>>
  <1>1. bcd[i] \in (0 .. 15) \X (0 .. 15)
    BY DEF BcdByte
  <1>2. QED
    BY <1>1

LEMMA ByteStepIs ==
  ASSUME NEW bcd \in Seq(BcdByte), NEW x \in Decodable, NEW i \in 1 .. Len(bcd)
  PROVE  ByteStep(bcd, x, i) \in Decodable
  <1>1. bcd[i][1] \in 0 .. 15 /\ bcd[i][2] \in 0 .. 15
    BY BcdBytes
  <1>2. Digit(x, bcd[i][1]) \in Decodable
    BY <1>1, DigitIs
  <1>3. Digit(Digit(x, bcd[i][1]), bcd[i][2]) \in Decodable
    BY <1>1, <1>2, DigitIs
  <1>4. QED
    BY <1>2, <1>3 DEF ByteStep

\* decodeBCD goes through the bytes from left to right.
LEMMA DecodeIs ==
  ASSUME NEW bcd \in Seq(BcdByte)
  PROVE  \E v \in [0 .. Len(bcd) -> Decodable] :
           /\ v[0] = 0 /\ decodeBCD(bcd) = v[Len(bcd)]
           /\ \A i \in 1 .. Len(bcd) : v[i] = ByteStep(bcd, v[i - 1], i)
  <1> DEFINE n == Len(bcd)
             step == [i \in Nat |-> [x \in Decodable |->
                        IF i \in 1 .. n THEN ByteStep(bcd, x, i) ELSE 0]]
             upTo[i \in 0 .. n] ==
               IF i = 0 THEN 0
               ELSE LET hi == Digit(upTo[i - 1], bcd[i][1])
                    IN  IF bcd[i][2] = Filler /\ i = n THEN hi ELSE Digit(hi, bcd[i][2])
  <1>1. n \in Nat /\ 0 \in Decodable
    BY LenProperties, HalfOfWide DEF Decodable
  <1>2. decodeBCD(bcd) = upTo[n]
    BY DEF decodeBCD
  <1>3. step \in Bodies(Decodable)
    <2>1. \A i \in Nat, x \in Decodable :
            (IF i \in 1 .. n THEN ByteStep(bcd, x, i) ELSE 0) \in Decodable
      BY <1>1, ByteStepIs
    <2>2. QED
      BY <2>1 DEF Bodies
  <1>4. \A x \in Decodable, i \in 1 .. n : step[i][x] = ByteStep(bcd, x, i)
    BY <1>1
  <1> HIDE DEF step
  <1>5. PICK g \in [0 .. n -> Decodable] :
          g[0] = 0 /\ \A i \in 1 .. n : g[i] = step[i][g[i - 1]]
    <2>1. \A z \in Decodable, m \in Nat : \E g : IsRun(g, Decodable, z, step, m)
      BY <1>3, Iteration
    <2>2. PICK g : IsRun(g, Decodable, 0, step, n)
      BY <1>1, <2>1
    <2>3. QED
      BY <2>2 DEF IsRun
  <1>6. g[0] = 0 /\ \A i \in 1 .. n : g[i] = ByteStep(bcd, g[i - 1], i)
    <2>1. ASSUME NEW i \in 1 .. n
          PROVE  g[i] = ByteStep(bcd, g[i - 1], i)
      <3>1. i - 1 \in 0 .. n
        BY <1>1
      <3>2. g[i] = step[i][g[i - 1]] /\ g[i - 1] \in Decodable
        BY <1>5, <3>1
      <3>3. QED
        BY <1>4, <3>2
    <2>2. QED
      BY <1>5, <2>1
  <1>7. g = [i \in 0 .. n |->
               IF i = 0 THEN 0
               ELSE LET hi == Digit(g[i - 1], bcd[i][1])
                    IN  IF bcd[i][2] = Filler /\ i = n THEN hi ELSE Digit(hi, bcd[i][2])]
    <2>1. g \in [0 .. n -> Decodable]
      BY <1>5
    <2>2. ASSUME NEW i \in 0 .. n
          PROVE  g[i] = IF i = 0 THEN 0
                        ELSE LET hi == Digit(g[i - 1], bcd[i][1])
                             IN  IF bcd[i][2] = Filler /\ i = n THEN hi ELSE Digit(hi, bcd[i][2])
      <3>1. i = 0 \/ i \in 1 .. n
        BY <1>1
      <3>2. QED
        BY <1>6, <3>1 DEF ByteStep
    <2>3. QED
      BY <2>1, <2>2
  <1>8. \E f : f = [i \in 0 .. n |->
               IF i = 0 THEN 0
               ELSE LET hi == Digit(f[i - 1], bcd[i][1])
                    IN  IF bcd[i][2] = Filler /\ i = n THEN hi ELSE Digit(hi, bcd[i][2])]
    BY <1>7
  <1>9. upTo = [i \in 0 .. n |->
               IF i = 0 THEN 0
               ELSE LET hi == Digit(upTo[i - 1], bcd[i][1])
                    IN  IF bcd[i][2] = Filler /\ i = n THEN hi ELSE Digit(hi, bcd[i][2])]
    BY <1>8, Zenon
  <1> HIDE DEF upTo
  <1>10. \A i \in 0 .. n : upTo[i] = g[i]
    <2> DEFINE Same == {i \in Nat : i <= n => upTo[i] = g[i]}
    <2>1. 0 \in Same
      BY <1>1, <1>6, <1>9
    <2>2. ASSUME NEW i \in Nat, i \in Same
          PROVE  i + 1 \in Same
      <3> SUFFICES ASSUME i + 1 <= n
                   PROVE  upTo[i + 1] = g[i + 1]
        OBVIOUS
      <3>1. i + 1 \in 0 .. n /\ i + 1 # 0 /\ (i + 1) - 1 = i /\ i + 1 \in 1 .. n /\ i <= n
        BY <1>1
      <3>2. upTo[i + 1] = ByteStep(bcd, upTo[i], i + 1)
        BY <1>9, <3>1 DEF ByteStep
      <3>3. g[i + 1] = ByteStep(bcd, g[i], i + 1)
        BY <1>6, <3>1
      <3>4. upTo[i] = g[i]
        BY <2>2, <3>1
      <3>5. QED
        BY <3>2, <3>3, <3>4
    <2> HIDE DEF Same
    <2>3. Nat \subseteq Same
      BY <2>1, <2>2, SetInduction
    <2>4. QED
      BY <1>1, <2>3 DEF Same
  <1>11. decodeBCD(bcd) = g[n]
    BY <1>1, <1>2, <1>10
  <1> HIDE DEF n
  <1>12. QED
    BY <1>5, <1>6, <1>11 DEF n

-----------------------------------------------------------------------------
(* Digits and their number, in any base *)

\* The numbers of the first digits of d.
NumbersUpTo(h, base, d) ==
  h \in [0 .. Len(d) -> Nat] /\ h[0] = 0 /\ \A j \in 1 .. Len(d) : h[j] = base * h[j - 1] + d[j]

LEMMA OfDigitsIs ==
  ASSUME NEW base \in Nat, NEW d \in Seq(Nat)
  PROVE  \E h : NumbersUpTo(h, base, d) /\ OfDigits(base, d) = h[Len(d)]
  <1> DEFINE n == Len(d)
             step == [i \in Nat |-> [x \in Nat |-> IF i \in 1 .. n THEN base * x + d[i] ELSE 0]]
             upTo[j \in 0 .. n] == IF j = 0 THEN 0 ELSE base * upTo[j - 1] + d[j]
  <1>1. n \in Nat
    BY LenProperties
  <1>2. \A i \in 1 .. n : d[i] \in Nat
    OBVIOUS
  <1>3. OfDigits(base, d) = upTo[n]
    BY DEF OfDigits
  <1>4. step \in Bodies(Nat)
    <2>1. \A i \in Nat, x \in Nat : (IF i \in 1 .. n THEN base * x + d[i] ELSE 0) \in Nat
      BY <1>2
    <2>2. QED
      BY <2>1 DEF Bodies
  <1>5. \A x \in Nat, i \in 1 .. n : step[i][x] = base * x + d[i]
    BY <1>1
  <1> HIDE DEF step, n
  <1>6. PICK g \in [0 .. n -> Nat] :
          g[0] = 0 /\ \A i \in 1 .. n : g[i] = step[i][g[i - 1]]
    <2>1. \A z \in Nat, m \in Nat : \E g : IsRun(g, Nat, z, step, m)
      BY <1>4, Iteration
    <2>2. PICK g : IsRun(g, Nat, 0, step, n)
      BY <1>1, <2>1
    <2>3. QED
      BY <2>2 DEF IsRun
  <1>7. \A i \in 1 .. n : g[i] = base * g[i - 1] + d[i]
    <2> TAKE i \in 1 .. n
    <2>1. g[i - 1] \in Nat
      BY <1>1, <1>6
    <2>2. QED
      BY <1>5, <1>6, <2>1
  <1>8. g = [j \in 0 .. n |-> IF j = 0 THEN 0 ELSE base * g[j - 1] + d[j]]
    <2>1. \A j \in 0 .. n : g[j] = IF j = 0 THEN 0 ELSE base * g[j - 1] + d[j]
      <3>1. \A j \in 0 .. n : j = 0 \/ j \in 1 .. n
        BY <1>1
      <3>2. QED
        BY <1>6, <1>7, <3>1
    <2>2. g \in [0 .. n -> Nat]
      BY <1>6
    <2>3. QED
      BY <2>1, <2>2
  <1>9. \E f : f = [j \in 0 .. n |-> IF j = 0 THEN 0 ELSE base * f[j - 1] + d[j]]
    BY <1>8
  <1>10. upTo = [j \in 0 .. n |-> IF j = 0 THEN 0 ELSE base * upTo[j - 1] + d[j]]
    BY <1>9, Zenon
  <1> HIDE DEF upTo
  <1>11. \A i \in 0 .. n : upTo[i] = g[i]
    <2> DEFINE Same == {i \in Nat : i <= n => upTo[i] = g[i]}
    <2>1. 0 \in Same
      BY <1>1, <1>6, <1>10
    <2>2. ASSUME NEW i \in Nat, i \in Same
          PROVE  i + 1 \in Same
      <3> SUFFICES ASSUME i + 1 <= n
                   PROVE  upTo[i + 1] = g[i + 1]
        OBVIOUS
      <3>1. i + 1 \in 0 .. n /\ i + 1 # 0 /\ (i + 1) - 1 = i /\ i + 1 \in 1 .. n /\ i <= n
        BY <1>1
      <3>2. upTo[i + 1] = base * upTo[i] + d[i + 1]
        BY <1>10, <3>1
      <3>3. g[i + 1] = base * g[i] + d[i + 1]
        BY <1>7, <3>1
      <3>4. upTo[i] = g[i]
        BY <2>2, <3>1
      <3>5. QED
        BY <3>2, <3>3, <3>4
    <2> HIDE DEF Same
    <2>3. Nat \subseteq Same
      BY <2>1, <2>2, SetInduction
    <2>4. QED
      BY <1>1, <2>3 DEF Same
  <1>12. OfDigits(base, d) = g[n]
    BY <1>1, <1>3, <1>11
  <1>13. NumbersUpTo(g, base, d)
    BY <1>6, <1>7 DEF NumbersUpTo, n
  <1>14. QED
    BY <1>12, <1>13 DEF n

-----------------------------------------------------------------------------
(* Digits decoded *)

\* What decodeBCD makes of the first digits of d.
DecodedUpTo(w, d) ==
  w \in [0 .. Len(d) -> Decodable] /\ w[0] = 0
    /\ \A j \in 1 .. Len(d) : w[j] = Digit(w[j - 1], d[j])

LEMMA DecodedIs ==
  ASSUME NEW d \in Seq(0 .. 15)
  PROVE  \E w : DecodedUpTo(w, d)
  <1> DEFINE n == Len(d)
             step == [i \in Nat |-> [x \in Decodable |-> IF i \in 1 .. n THEN Digit(x, d[i]) ELSE 0]]
  <1>1. n \in Nat /\ 0 \in Decodable
    BY LenProperties, HalfOfWide DEF Decodable
  <1>2. \A i \in 1 .. n : d[i] \in 0 .. 15
    OBVIOUS
  <1>3. step \in Bodies(Decodable)
    <2>1. \A i \in Nat, x \in Decodable : (IF i \in 1 .. n THEN Digit(x, d[i]) ELSE 0) \in Decodable
      BY <1>1, <1>2, DigitIs
    <2>2. QED
      BY <2>1 DEF Bodies
  <1>4. \A x \in Decodable, i \in 1 .. n : step[i][x] = Digit(x, d[i])
    BY <1>1
  <1> HIDE DEF step, n
  <1>5. \A z \in Decodable, m \in Nat : \E g : IsRun(g, Decodable, z, step, m)
    BY <1>3, Iteration
  <1>6. PICK g : IsRun(g, Decodable, 0, step, n)
    BY <1>1, <1>5
  <1>7. g \in [0 .. n -> Decodable] /\ g[0] = 0 /\ \A i \in 1 .. n : g[i] = step[i][g[i - 1]]
    BY <1>6 DEF IsRun
  <1>8. \A i \in 1 .. n : g[i] = Digit(g[i - 1], d[i])
    <2> TAKE i \in 1 .. n
    <2>1. g[i - 1] \in Decodable
      BY <1>1, <1>7
    <2>2. QED
      BY <1>4, <1>7, <2>1
  <1>9. QED
    BY <1>7, <1>8 DEF DecodedUpTo, n

(***************************************************************************)
(* decodeBCD digit by digit: what was decoded is refused once a digit is   *)
(* none, and is what the digits mean as long as that is below twice the    *)
(* width.                                                                  *)
(***************************************************************************)
LEMMA DecodedAgrees ==
  ASSUME NEW d \in Seq(0 .. 15), NEW w, DecodedUpTo(w, d), NEW h, NumbersUpTo(h, 10, d)
  PROVE  \A j \in 0 .. Len(d) :
           /\ (\E k \in 1 .. j : d[k] > 9) => w[j] = Refused
           /\ (\A k \in 1 .. j : d[k] <= 9) /\ h[j] < 2 * Wide
                => w[j] = IF h[j] < Wide THEN h[j] ELSE Refused
  <1> DEFINE n == Len(d)
             Bad(j) == (\E k \in 1 .. j : d[k] > 9) => w[j] = Refused
             Good(j) == (\A k \in 1 .. j : d[k] <= 9) /\ h[j] < 2 * Wide
                          => w[j] = IF h[j] < Wide THEN h[j] ELSE Refused
             Agreed == {j \in Nat : j <= n => Bad(j) /\ Good(j)}
  <1>1. /\ n \in Nat /\ w \in [0 .. n -> Decodable] /\ h \in [0 .. n -> Nat]
        /\ w[0] = 0 /\ h[0] = 0
        /\ \A j \in 1 .. n : d[j] \in 0 .. 15 /\ w[j] = Digit(w[j - 1], d[j])
                             /\ h[j] = 10 * h[j - 1] + d[j]
    BY LenProperties DEF DecodedUpTo, NumbersUpTo
  <1> HIDE DEF n
  <1>2. 0 \in Agreed
    <2>1. 0 < Wide /\ ~\E k \in 1 .. 0 : d[k] > 9
      BY HalfOfWide
    <2>2. QED
      BY <1>1, <2>1
  <1>3. ASSUME NEW i \in Nat, i \in Agreed
        PROVE  i + 1 \in Agreed
    <2> SUFFICES ASSUME i + 1 <= n
                 PROVE  Bad(i + 1) /\ Good(i + 1)
      OBVIOUS
    <2>1. i + 1 \in 1 .. n /\ (i + 1) - 1 = i /\ i \in 0 .. n /\ i <= n /\ i + 1 \in 1 .. i + 1
      BY <1>1
    <2>2. \A k \in 1 .. i + 1 : k \in 1 .. i \/ k = i + 1
      OBVIOUS
    <2>3. \A k \in 1 .. i : k \in 1 .. i + 1
      OBVIOUS
    <2>4. Bad(i) /\ Good(i)
      BY <1>3, <2>1
    <2>5. d[i + 1] \in 0 .. 15 /\ w[i] \in Decodable /\ h[i] \in Nat
      BY <1>1, <2>1
    <2>6. w[i + 1] = Digit(w[i], d[i + 1])
      BY <1>1, <2>1
    <2>7. h[i + 1] = 10 * h[i] + d[i + 1]
      BY <1>1, <2>1
    <2>8. PICK e \in 0 .. 15, x \in Decodable, y \in Nat :
            /\ e = d[i + 1] /\ x = w[i] /\ y = h[i]
            /\ w[i + 1] = Digit(x, e) /\ h[i + 1] = 10 * y + e
      BY <2>5, <2>6, <2>7, Zenon
    <2>9. Bad(i + 1)
      <3> SUFFICES ASSUME NEW k \in 1 .. i + 1, d[k] > 9
                   PROVE  w[i + 1] = Refused
        OBVIOUS
      <3>1. e > 9 \/ x = Refused
        BY <2>2, <2>4, <2>8
      <3>2. QED
        BY <2>8, <3>1, DigitIs
    <2>10. Good(i + 1)
      <3> SUFFICES ASSUME \A k \in 1 .. i + 1 : d[k] <= 9, 10 * y + e < 2 * Wide
                   PROVE  w[i + 1] = IF 10 * y + e < Wide THEN 10 * y + e ELSE Refused
        BY <2>8
      <3>1. e <= 9
        BY <2>1, <2>8
      <3>2. e \in 0 .. 9 /\ \A k \in 1 .. i : d[k] <= 9
        BY <2>3, <3>1
      <3>3. y < 2 * Wide
        BY HalfOfWide
      <3>4. x = IF y < Wide THEN y ELSE Refused
        BY <2>4, <2>8, <3>2, <3>3
      <3>5. CASE y < Wide
        <4>1. x = y /\ y \in 0 .. Wide - 1 /\ x # Refused
          BY <3>4, <3>5, HalfOfWide DEF Refused
        <4>2. Digit(x, e) = timesTenPlusCatchingOverflow(y, e)
          BY <3>2, <4>1 DEF Digit
        <4>3. QED
          BY <2>8, <3>2, <4>1, <4>2, OverflowIsCaughtBelowTwiceTheWidth
      <3>6. CASE ~(y < Wide)
        <4>1. x = Refused /\ ~(10 * y + e < Wide)
          BY <3>4, <3>6, HalfOfWide
        <4>2. QED
          BY <2>8, <4>1, DigitIs
      <3>7. QED
        BY <3>5, <3>6
    <2>11. QED
      BY <2>9, <2>10
  <1> HIDE DEF Agreed
  <1>4. Nat \subseteq Agreed
    BY <1>2, <1>3, SetInduction
  <1>5. \A j \in 0 .. n : Bad(j) /\ Good(j)
    <2> HIDE DEF Bad, Good
    <2> TAKE j \in 0 .. n
    <2>1. j \in Nat /\ j <= n
      BY <1>1
    <2>2. j \in Agreed
      BY <1>4, <2>1
    <2>3. QED
      BY <2>1, <2>2 DEF Agreed
  <1>6. QED
    BY <1>5 DEF n

-----------------------------------------------------------------------------
(* The nibbles of bytes *)

LEMMA NibblesAre ==
  ASSUME NEW bcd \in Seq(BcdByte)
  PROVE  LET n == Len(bcd)
             d == Nibbles(bcd)
         IN  /\ d \in Seq(0 .. 15)
             /\ Len(d) = IF bcd # <<>> /\ bcd[n][2] = Filler THEN 2 * n - 1 ELSE 2 * n
             /\ \A i \in 1 .. n : d[2 * i - 1] = bcd[i][1]
             /\ \A i \in 1 .. n : 2 * i <= Len(d) => d[2 * i] = bcd[i][2]
  <1> DEFINE n == Len(bcd)
             d == Nibbles(bcd)
             all == [j \in 1 .. 2 * n |-> bcd[(j + 1) \div 2][2 - (j % 2)]]
             m == IF bcd # <<>> /\ bcd[n][2] = Filler THEN 2 * n - 1 ELSE 2 * n
  <1>1. n \in Nat /\ 2 * n \in Nat /\ (bcd # <<>> => n > 0)
    BY LenProperties, EmptySeq
  <1>2. \A i \in 1 .. n : bcd[i][1] \in 0 .. 15 /\ bcd[i][2] \in 0 .. 15
    BY BcdBytes
  <1>3. d = IF bcd # <<>> /\ bcd[n][2] = Filler THEN SubSeq(all, 1, Len(all) - 1) ELSE all
    BY DEF Nibbles, Front
  <1> HIDE DEF d
  <1>4. \A j \in 1 .. 2 * n : all[j] = bcd[(j + 1) \div 2][2 - (j % 2)]
    OBVIOUS
  <1>5. \A i \in 1 .. n : all[2 * i - 1] = bcd[i][1] /\ all[2 * i] = bcd[i][2]
    <2> TAKE i \in 1 .. n
    <2>1. i \in Nat /\ 2 * i - 1 \in 1 .. 2 * n /\ 2 * i \in 1 .. 2 * n
      BY <1>1
    <2>2. ((2 * i - 1) + 1) \div 2 = i /\ 2 - ((2 * i - 1) % 2) = 1
      BY <2>1
    <2>3. (2 * i + 1) \div 2 = i /\ 2 - ((2 * i) % 2) = 2
      BY <2>1
    <2> HIDE DEF all
    <2>4. QED
      BY <1>4, <2>1, <2>2, <2>3
  <1>6. \A j \in 1 .. 2 * n : all[j] \in 0 .. 15
    <2> TAKE j \in 1 .. 2 * n
    <2>1. (j + 1) \div 2 \in 1 .. n /\ (2 - (j % 2) = 1 \/ 2 - (j % 2) = 2)
      BY <1>1
    <2> HIDE DEF all
    <2>2. QED
      BY <1>2, <1>4, <2>1
  <1>7. all \in Seq(0 .. 15) /\ Len(all) = 2 * n
    <2>1. all \in [1 .. 2 * n -> 0 .. 15]
      BY <1>6
    <2> HIDE DEF all
    <2>2. PICK k \in Nat : k = 2 * n
      BY <1>1
    <2>3. all \in [1 .. k -> 0 .. 15]
      BY <2>1, <2>2
    <2>4. all \in Seq(0 .. 15) /\ Len(all) = k
      BY <2>3
    <2>5. QED
      BY <2>2, <2>4
  <1> HIDE DEF all
  <1>8. d \in Seq(0 .. 15) /\ Len(d) = m /\ \A j \in 1 .. m : d[j] = all[j]
    <2>1. CASE bcd # <<>> /\ bcd[n][2] = Filler
      <3>1. d = SubSeq(all, 1, 2 * n - 1) /\ m = 2 * n - 1 /\ 2 * n - 1 \in 0 .. 2 * n
        BY <1>1, <1>3, <1>7, <2>1
      <3>2. PICK k \in Nat : k = 2 * n - 1 /\ k <= Len(all)
        <4>1. 2 * n - 1 \in Nat /\ 2 * n - 1 <= 2 * n
          BY <1>1, <2>1
        <4>2. QED
          BY <1>7, <4>1
      <3>3. d = SubSeq(all, 1, k) /\ m = k
        BY <3>1, <3>2
      <3>4. \A j \in 1 .. k : all[j] \in 0 .. 15
        <4>1. \A j \in 1 .. k : j \in 1 .. 2 * n
          BY <1>1, <1>7, <3>2
        <4>2. QED
          BY <1>6, <4>1
      <3>5. /\ SubSeq(all, 1, k) \in Seq(0 .. 15) /\ Len(SubSeq(all, 1, k)) = k
            /\ \A j \in 1 .. k : SubSeq(all, 1, k)[j] = all[j]
        BY <3>2, <3>4
      <3>6. QED
        BY <3>3, <3>5
    <2>2. CASE ~(bcd # <<>> /\ bcd[n][2] = Filler)
      BY <1>3, <1>7, <2>2
    <2>3. QED
      BY <2>1, <2>2
  <1>9. \A i \in 1 .. n : 2 * i - 1 \in 1 .. m
    BY <1>1
  <1>10. \A i \in 1 .. n : 2 * i <= m => 2 * i \in 1 .. m
    BY <1>1
  <1> HIDE DEF m, n
  <1>11. \A i \in 1 .. n : d[2 * i - 1] = bcd[i][1]
    BY <1>5, <1>8, <1>9
  <1>12. \A i \in 1 .. n : 2 * i <= Len(d) => d[2 * i] = bcd[i][2]
    BY <1>5, <1>8, <1>10
  <1>13. QED
    BY <1>8, <1>11, <1>12 DEF d, m, n

(***************************************************************************)
(* decodeBCD goes from byte to byte as if it went from nibble to nibble    *)
(* and never saw the filler.                                               *)
(***************************************************************************)
LEMMA DecodedByNibbles ==
  ASSUME NEW bcd \in Seq(BcdByte), NEW w, DecodedUpTo(w, Nibbles(bcd))
  PROVE  decodeBCD(bcd) = w[Len(Nibbles(bcd))]
  <1> PICK v \in [0 .. Len(bcd) -> Decodable] :
        /\ v[0] = 0 /\ decodeBCD(bcd) = v[Len(bcd)]
        /\ \A i \in 1 .. Len(bcd) : v[i] = ByteStep(bcd, v[i - 1], i)
    BY DecodeIs
  <1> DEFINE n == Len(bcd)
             d == Nibbles(bcd)
             m == Len(d)
             At(i) == IF 2 * i <= m THEN 2 * i ELSE m
             Same == {i \in Nat : i <= n => v[i] = w[At(i)]}
  <1>1. /\ n \in Nat /\ m \in Nat
        /\ m = 2 * n \/ (m = 2 * n - 1 /\ n > 0)
        /\ n > 0 => (m = 2 * n - 1 <=> bcd[n][2] = Filler)
        /\ \A i \in 1 .. n : d[2 * i - 1] = bcd[i][1]
        /\ \A i \in 1 .. n : 2 * i <= m => d[2 * i] = bcd[i][2]
    <2>1. n \in Nat /\ (bcd # <<>> <=> n > 0)
      BY LenProperties, EmptySeq
    <2>2. m = IF bcd # <<>> /\ bcd[n][2] = Filler THEN 2 * n - 1 ELSE 2 * n
      BY NibblesAre
    <2>3. /\ \A i \in 1 .. n : d[2 * i - 1] = bcd[i][1]
          /\ \A i \in 1 .. n : 2 * i <= m => d[2 * i] = bcd[i][2]
      BY NibblesAre
    <2> HIDE DEF d, m, n
    <2>4. QED
      BY <2>1, <2>2, <2>3
  <1>2. w[0] = 0 /\ \A j \in 1 .. m : w[j] = Digit(w[j - 1], d[j])
    BY DEF DecodedUpTo
  <1>3. v[0] = 0 /\ decodeBCD(bcd) = v[n] /\ \A i \in 1 .. n : v[i] = ByteStep(bcd, v[i - 1], i)
    OBVIOUS
  <1> HIDE DEF d, m
  <1>4. 0 \in Same
    BY <1>1, <1>2, <1>3
  <1>5. ASSUME NEW i \in Nat, i \in Same
        PROVE  i + 1 \in Same
    <2> SUFFICES ASSUME i + 1 <= n
                 PROVE  v[i + 1] = w[At(i + 1)]
      OBVIOUS
    <2>1. /\ i <= n /\ i + 1 \in 1 .. n /\ (i + 1) - 1 = i
          /\ 2 * i <= m /\ 2 * i + 1 \in 1 .. m /\ (2 * i + 1) - 1 = 2 * i
          /\ 2 * (i + 1) - 1 = 2 * i + 1
      BY <1>1
    <2>2. v[i] = w[2 * i]
      BY <1>5, <2>1
    <2>3. w[2 * i + 1] = Digit(v[i], bcd[i + 1][1])
      BY <1>1, <1>2, <2>1, <2>2
    <2>4. v[i + 1] = ByteStep(bcd, v[i], i + 1)
      BY <1>3, <2>1
    <2>5. CASE 2 * (i + 1) <= m
      <3>1. 2 * (i + 1) \in 1 .. m /\ 2 * (i + 1) - 1 = 2 * i + 1
        BY <1>1, <2>1, <2>5
      <3>2. w[2 * (i + 1)] = Digit(w[2 * i + 1], bcd[i + 1][2])
        BY <1>1, <1>2, <2>1, <2>5, <3>1
      <3>3. ~(bcd[i + 1][2] = Filler /\ i + 1 = n)
        <4>1. i + 1 = n => m # 2 * n - 1 /\ n > 0
          BY <1>1, <2>5
        <4>2. QED
          BY <1>1, <4>1
      <3>4. QED
        BY <2>3, <2>4, <2>5, <3>2, <3>3 DEF ByteStep, n
    <2>6. CASE ~(2 * (i + 1) <= m)
      <3>1. m = 2 * i + 1 /\ i + 1 = n /\ bcd[i + 1][2] = Filler
        BY <1>1, <2>1, <2>6
      <3>2. QED
        BY <2>3, <2>4, <2>6, <3>1 DEF ByteStep, n
    <2>7. QED
      BY <2>5, <2>6
  <1> HIDE DEF Same
  <1>6. Nat \subseteq Same
    BY <1>4, <1>5, SetInduction
  <1>7. v[n] = w[At(n)]
    BY <1>1, <1>6 DEF Same
  <1>8. At(n) = m
    BY <1>1
  <1>9. QED
    BY <1>3, <1>7, <1>8 DEF d, m

(***************************************************************************)
(* What decodeBCD makes of bytes that are no number, of those that say one *)
(* that fits, and of those that say one that does not.                     *)
(***************************************************************************)
LEMMA DecodedIsMeant ==
  ASSUME NEW bcd \in Seq(BcdByte)
  PROVE  LET d == Nibbles(bcd)
             x == decodeBCD(bcd)
         IN  /\ (\E j \in DOMAIN d : d[j] > 9) => x = Refused
             /\ (\A j \in DOMAIN d : d[j] <= 9) /\ Meant(d) < 2 * Wide
                  => x = IF Meant(d) < Wide THEN Meant(d) ELSE Refused
  <1> DEFINE d == Nibbles(bcd)
  <1>1. d \in Seq(0 .. 15)
    BY NibblesAre
  <1>2. d \in Seq(Nat) /\ Len(d) \in Nat /\ DOMAIN d = 1 .. Len(d)
    <2> HIDE DEF d
    <2>1. QED
      BY <1>1, LenProperties
  <1>3. PICK w : DecodedUpTo(w, d)
    BY <1>1, DecodedIs
  <1>4. PICK h : NumbersUpTo(h, 10, d) /\ Meant(d) = h[Len(d)]
    BY <1>2, OfDigitsIs DEF Meant
  <1>5. decodeBCD(bcd) = w[Len(d)]
    BY <1>3, DecodedByNibbles
  <1> HIDE DEF d
  <1>6. /\ (\E k \in 1 .. Len(d) : d[k] > 9) => w[Len(d)] = Refused
        /\ (\A k \in 1 .. Len(d) : d[k] <= 9) /\ h[Len(d)] < 2 * Wide
             => w[Len(d)] = IF h[Len(d)] < Wide THEN h[Len(d)] ELSE Refused
    <2>1. Len(d) \in 0 .. Len(d)
      BY <1>2
    <2>2. QED
      BY <1>1, <1>3, <1>4, <2>1, DecodedAgrees
  <1>7. QED
    BY <1>2, <1>4, <1>5, <1>6 DEF d
-----------------------------------------------------------------------------
(* The digits of a number *)

\* The digits of one sequence mean the same at the beginning of another.
LEMMA NumbersAgree ==
  ASSUME NEW d \in Seq(Nat), NEW e \in Seq(Nat), NEW h, NumbersUpTo(h, 10, d), NEW g, NumbersUpTo(g, 10, e),
         Len(d) <= Len(e), \A j \in 1 .. Len(d) : d[j] = e[j]
  PROVE  h[Len(d)] = g[Len(d)]
  <1> DEFINE n == Len(d)
             m == Len(e)
             Same == {i \in Nat : i <= n => h[i] = g[i]}
  <1>1. /\ n \in Nat /\ m \in Nat /\ n <= m /\ h[0] = 0 /\ g[0] = 0
        /\ \A j \in 1 .. n : h[j] = 10 * h[j - 1] + d[j] /\ d[j] = e[j]
        /\ \A j \in 1 .. m : g[j] = 10 * g[j - 1] + e[j]
    BY LenProperties DEF NumbersUpTo
  <1> HIDE DEF n, m
  <1>2. 0 \in Same
    BY <1>1
  <1>3. ASSUME NEW i \in Nat, i \in Same
        PROVE  i + 1 \in Same
    <2> SUFFICES ASSUME i + 1 <= n
                 PROVE  h[i + 1] = g[i + 1]
      OBVIOUS
    <2>1. i + 1 \in 1 .. n /\ i + 1 \in 1 .. m /\ (i + 1) - 1 = i /\ i <= n
      BY <1>1
    <2>2. h[i] = g[i]
      BY <1>3, <2>1
    <2>3. h[i + 1] = 10 * h[i] + d[i + 1] /\ d[i + 1] = e[i + 1]
      BY <1>1, <2>1
    <2>4. g[i + 1] = 10 * g[i] + e[i + 1]
      BY <1>1, <2>1
    <2>5. QED
      BY <2>2, <2>3, <2>4
  <1> HIDE DEF Same
  <1>4. Nat \subseteq Same
    BY <1>2, <1>3, SetInduction
  <1>5. QED
    BY <1>1, <1>4 DEF Same, n

LEMMA MeantIs == \A d \in Seq(Nat) : \E h : NumbersUpTo(h, 10, d) /\ Meant(d) = h[Len(d)]
  <1>1. \A d \in Seq(Nat) : \E h : NumbersUpTo(h, 10, d) /\ OfDigits(10, d) = h[Len(d)]
    <2>1. 10 \in Nat
      OBVIOUS
    <2>2. QED
      BY <2>1, OfDigitsIs, Zenon
  <1>2. QED
    BY <1>1 DEF Meant

\* One digit more is ten times as much and the digit.
LEMMA MeantOfAppend ==
  ASSUME NEW d \in Seq(Nat), NEW k \in Nat
  PROVE  Meant(Append(d, k)) = 10 * Meant(d) + k
  <1> DEFINE e == Append(d, k)
             n == Len(d)
  <1>1. e \in Seq(Nat) /\ Len(e) = n + 1 /\ n \in Nat /\ e[n + 1] = k
        /\ \A j \in 1 .. n : e[j] = d[j]
    BY AppendProperties, LenProperties
  <1> HIDE DEF e, n
  <1>2. PICK h : NumbersUpTo(h, 10, d) /\ Meant(d) = h[n]
    BY MeantIs DEF n
  <1>3. PICK g : NumbersUpTo(g, 10, e) /\ Meant(e) = g[n + 1]
    BY <1>1, MeantIs
  <1>4. h[n] = g[n]
    <2>1. Len(d) <= Len(e) /\ \A j \in 1 .. Len(d) : d[j] = e[j]
      BY <1>1 DEF n
    <2>2. QED
      BY <1>1, <1>2, <1>3, <2>1, NumbersAgree DEF n
  <1>5. g[n + 1] = 10 * g[n] + k
    <2>1. n + 1 \in 1 .. n + 1 /\ (n + 1) - 1 = n
      BY <1>1
    <2>2. \A j \in 1 .. n + 1 : g[j] = 10 * g[j - 1] + e[j]
      BY <1>1, <1>3 DEF NumbersUpTo
    <2>3. QED
      BY <1>1, <2>1, <2>2
  <1>6. QED
    BY <1>2, <1>3, <1>4, <1>5 DEF e

LEMMA MeantOfOne ==
  ASSUME NEW k \in Nat
  PROVE  Meant(<<k>>) = k
  <1>1. PICK h : NumbersUpTo(h, 10, <<>>) /\ Meant(<<>>) = h[Len(<<>>)]
    <2>1. <<>> \in Seq(Nat)
      OBVIOUS
    <2>2. QED
      BY <2>1, MeantIs, Zenon
  <1>2. Meant(<<>>) = 0
    BY <1>1 DEF NumbersUpTo
  <1>3. Meant(Append(<<>>, k)) = 10 * Meant(<<>>) + k
    <2>1. <<>> \in Seq(Nat)
      OBVIOUS
    <2>2. QED
      BY <2>1, MeantOfAppend
  <1>4. Append(<<>>, k) = <<k>>
    OBVIOUS
  <1>5. QED
    BY <1>2, <1>3, <1>4

\* One digit at least.
Numeral == {d \in Seq(0 .. 9) : Len(d) > 0}

LEMMA Numerals ==
  /\ \A k \in 0 .. 9 : <<k>> \in Numeral
  /\ \A d \in Numeral, k \in 0 .. 9 : Append(d, k) \in Numeral
  /\ \A d \in Numeral : d \in Seq(0 .. 9) /\ d \in Seq(Nat) /\ Len(d) \in Nat \ {0}
  <1>1. ASSUME NEW k \in 0 .. 9
        PROVE  <<k>> \in Numeral
    <2>1. <<k>> \in Seq(0 .. 9) /\ Len(<<k>>) = 1
      OBVIOUS
    <2>2. QED
      BY <2>1 DEF Numeral
  <1>2. ASSUME NEW d \in Numeral, NEW k \in 0 .. 9
        PROVE  Append(d, k) \in Numeral
    <2>1. d \in Seq(0 .. 9) /\ Len(d) \in Nat
      BY LenProperties DEF Numeral
    <2>2. Append(d, k) \in Seq(0 .. 9) /\ Len(Append(d, k)) = Len(d) + 1
      BY <2>1, AppendProperties
    <2>3. QED
      BY <2>1, <2>2 DEF Numeral
  <1>3. ASSUME NEW d \in Numeral
        PROVE  d \in Seq(0 .. 9) /\ d \in Seq(Nat) /\ Len(d) \in Nat \ {0}
    <2>1. d \in Seq(0 .. 9) /\ Len(d) > 0
      BY DEF Numeral
    <2>2. QED
      BY <2>1, LenProperties
  <1>4. QED
    BY <1>1, <1>2, <1>3

\* The digits of y, if f gives those of the smaller numbers.
DigitsFrom(f, y) == IF y < 10 THEN <<y>> ELSE Append(f[y \div 10], y % 10)

LEMMA DigitsExist ==
  ASSUME NEW x \in Nat
  PROVE  \E f : f = [y \in 0 .. x |-> DigitsFrom(f, y)]
  <1> DEFINE Run(f, m) == f = [y \in 0 .. m |-> f[y]] /\ \A y \in 0 .. m : f[y] = DigitsFrom(f, y)
             Reached == {m \in Nat : \E f : Run(f, m)}
  <1>1. 0 \in Reached
    <2> DEFINE f == [y \in 0 .. 0 |-> <<0>>]
    <2>1. f = [y \in 0 .. 0 |-> f[y]]
      OBVIOUS
    <2>2. \A y \in 0 .. 0 : f[y] = DigitsFrom(f, y)
      <3>1. \A y \in 0 .. 0 : y = 0 /\ f[y] = <<0>>
        OBVIOUS
      <3>2. QED
        BY <3>1 DEF DigitsFrom
    <2> HIDE DEF f
    <2>3. QED
      BY <2>1, <2>2
  <1>2. ASSUME NEW m \in Nat, m \in Reached
        PROVE  m + 1 \in Reached
    <2>1. PICK f : Run(f, m)
      BY <1>2
    <2> DEFINE new == DigitsFrom(f, m + 1)
               g == [y \in 0 .. m + 1 |-> IF y <= m THEN f[y] ELSE new]
    <2>2. g = [y \in 0 .. m + 1 |-> g[y]]
      OBVIOUS
    <2>3. ASSUME NEW y \in 0 .. m + 1
          PROVE  g[y] = DigitsFrom(g, y)
      <3>1. DigitsFrom(g, y) = DigitsFrom(f, y)
        <4>1. y >= 10 => y \div 10 \in 0 .. m + 1 /\ y \div 10 <= m
          OBVIOUS
        <4>2. y >= 10 => g[y \div 10] = f[y \div 10]
          BY <4>1
        <4> HIDE DEF g
        <4>3. QED
          BY <4>2 DEF DigitsFrom
      <3>2. CASE y <= m
        <4>1. y \in 0 .. m /\ g[y] = f[y]
          BY <3>2
        <4> HIDE DEF g
        <4>2. QED
          BY <2>1, <3>1, <4>1
      <3>3. CASE ~(y <= m)
        <4>1. y = m + 1 /\ g[y] = new
          BY <3>3
        <4> HIDE DEF g
        <4>2. QED
          BY <3>1, <4>1
      <3>4. QED
        BY <3>2, <3>3
    <2> HIDE DEF g
    <2>4. QED
      BY <2>2, <2>3
  <1> HIDE DEF Reached
  <1>3. Nat \subseteq Reached
    BY <1>1, <1>2, SetInduction
  <1>4. PICK f : Run(f, x)
    BY <1>3 DEF Reached
  <1>5. f = [y \in 0 .. x |-> DigitsFrom(f, y)]
    BY <1>4
  <1>6. QED
    BY <1>5

(***************************************************************************)
(* The remainders by ten are digits, there is one, and they mean the       *)
(* number.                                                                 *)
(***************************************************************************)
LEMMA DigitsAre ==
  ASSUME NEW x \in Nat
  PROVE  DigitsOf(x) \in Numeral /\ Meant(DigitsOf(x)) = x
  <1> DEFINE of[y \in 0 .. x] == IF y < 10 THEN <<y>> ELSE Append(of[y \div 10], y % 10)
             Right == {m \in Nat : \A y \in 0 .. m : y <= x => of[y] \in Numeral /\ Meant(of[y]) = y}
  <1>1. DigitsOf(x) = of[x]
    BY DEF DigitsOf
  <1>2. \E f : f = [y \in 0 .. x |-> IF y < 10 THEN <<y>> ELSE Append(f[y \div 10], y % 10)]
    BY DigitsExist DEF DigitsFrom
  <1>3. of = [y \in 0 .. x |-> IF y < 10 THEN <<y>> ELSE Append(of[y \div 10], y % 10)]
    BY <1>2, Zenon
  <1> HIDE DEF of
  <1>4. \A y \in 0 .. x : of[y] = IF y < 10 THEN <<y>> ELSE Append(of[y \div 10], y % 10)
    BY <1>3
  <1>5. ASSUME NEW y \in 0 .. x, y < 10
        PROVE  of[y] \in Numeral /\ Meant(of[y]) = y
    <2>1. y \in 0 .. 9 /\ y \in Nat
      BY <1>5
    <2>2. of[y] = <<y>>
      BY <1>4, <1>5, Zenon
    <2>3. QED
      BY <2>1, <2>2, Numerals, MeantOfOne
  <1>6. ASSUME NEW y \in 0 .. x, y >= 10, of[y \div 10] \in Numeral, Meant(of[y \div 10]) = y \div 10
        PROVE  of[y] \in Numeral /\ Meant(of[y]) = y
    <2>1. y % 10 \in 0 .. 9 /\ y % 10 \in Nat /\ ~(y < 10) /\ 10 * (y \div 10) + (y % 10) = y
      BY <1>6
    <2>2. of[y] = Append(of[y \div 10], y % 10)
      BY <1>4, <2>1
    <2>3. of[y] \in Numeral
      BY <1>6, <2>1, <2>2, Numerals
    <2>4. Meant(of[y]) = 10 * Meant(of[y \div 10]) + (y % 10)
      BY <1>6, <2>1, <2>2, Numerals, MeantOfAppend
    <2>5. QED
      BY <1>6, <2>1, <2>3, <2>4
  <1>7. 0 \in Right
    <2>1. \A y \in 0 .. 0 : y \in 0 .. x /\ y < 10
      OBVIOUS
    <2>2. QED
      BY <1>5, <2>1
  <1>8. ASSUME NEW m \in Nat, m \in Right
        PROVE  m + 1 \in Right
    <2>1. ASSUME NEW y \in 0 .. m + 1, y <= x
          PROVE  of[y] \in Numeral /\ Meant(of[y]) = y
      <3>1. y \in 0 .. x
        BY <2>1
      <3>2. CASE y < 10
        BY <1>5, <3>1, <3>2
      <3>3. CASE ~(y < 10)
        <4>1. y >= 10 /\ y \div 10 \in 0 .. m /\ y \div 10 <= x
          BY <2>1, <3>3
        <4>2. of[y \div 10] \in Numeral /\ Meant(of[y \div 10]) = y \div 10
          BY <1>8, <4>1
        <4>3. QED
          BY <1>6, <3>1, <4>1, <4>2
      <3>4. QED
        BY <3>2, <3>3
    <2>2. QED
      BY <2>1
  <1> HIDE DEF Right
  <1>9. Nat \subseteq Right
    BY <1>7, <1>8, SetInduction
  <1>10. QED
    BY <1>1, <1>9 DEF Right

(***************************************************************************)
(* The nibbles of an encoded number are its digits.                        *)
(***************************************************************************)
LEMMA EncodedNibbles ==
  ASSUME NEW x \in Nat
  PROVE  encodeBCD(x) \in Seq(BcdByte) /\ Nibbles(encodeBCD(x)) = DigitsOf(x)
  <1> DEFINE d == DigitsOf(x)
             e == encodeBCD(x)
             k == Len(d)
             n == (k + 1) \div 2
             At(j) == IF j <= k THEN d[j] ELSE Filler
             b == Nibbles(e)
  <1>1. d \in Seq(0 .. 9) /\ k \in Nat /\ k > 0
    <2>1. d \in Numeral
      BY DigitsAre
    <2> HIDE DEF d
    <2>2. QED
      BY <2>1, Numerals
  <1>2. e = [i \in 1 .. n |-> <<At(2 * i - 1), At(2 * i)>>]
    BY DEF encodeBCD
  <1>3. \A j \in 1 .. k : d[j] \in 0 .. 9
    BY <1>1
  <1> HIDE DEF d, e, k
  <1>4. n \in Nat /\ n > 0 /\ (k = 2 * n - 1 \/ k = 2 * n)
    BY <1>1
  <1> HIDE DEF n
  <1>5. \A i \in 1 .. n : At(2 * i - 1) \in 0 .. 15 /\ At(2 * i) \in 0 .. 15
    <2>1. \A j \in Nat \ {0} : At(j) \in 0 .. 15
      BY <1>1, <1>3 DEF Filler
    <2>2. \A i \in 1 .. n : 2 * i - 1 \in Nat \ {0} /\ 2 * i \in Nat \ {0}
      BY <1>4
    <2> HIDE DEF At
    <2>3. QED
      BY <2>1, <2>2
  <1>6. /\ \A i \in 1 .. n : 2 * i - 1 <= k /\ At(2 * i - 1) = d[2 * i - 1]
        /\ \A i \in 1 .. n : 2 * i <= k => At(2 * i) = d[2 * i]
        /\ At(2 * n) = Filler <=> k = 2 * n - 1
    <2>1. \A i \in 1 .. n : 2 * i - 1 <= k
      BY <1>1, <1>4
    <2>2. k = 2 * n => d[2 * n] # Filler
      BY <1>1, <1>3, <1>4 DEF Filler
    <2>3. QED
      BY <1>1, <1>4, <2>1, <2>2
  <1> HIDE DEF At
  <1>7. e \in Seq(BcdByte) /\ Len(e) = n /\ \A i \in 1 .. n : e[i][1] = At(2 * i - 1) /\ e[i][2] = At(2 * i)
    <2>1. e \in [1 .. n -> BcdByte]
      <3>1. \A i \in 1 .. n : <<At(2 * i - 1), At(2 * i)>> \in BcdByte
        BY <1>5 DEF BcdByte
      <3>2. QED
        BY <1>2, <3>1
    <2>2. \A i \in 1 .. n : e[i] = <<At(2 * i - 1), At(2 * i)>>
      BY <1>2
    <2>3. e \in Seq(BcdByte) /\ Len(e) = n
      BY <1>4, <2>1
    <2>4. QED
      BY <2>2, <2>3
  <1>8. e # <<>>
    BY <1>4, <1>7, EmptySeq
  <1>9. /\ b \in Seq(0 .. 15) /\ Len(b) = (IF e[n][2] = Filler THEN 2 * n - 1 ELSE 2 * n)
        /\ \A i \in 1 .. n : b[2 * i - 1] = e[i][1]
        /\ \A i \in 1 .. n : 2 * i <= Len(b) => b[2 * i] = e[i][2]
    BY <1>7, <1>8, NibblesAre
  <1> HIDE DEF b
  <1>10. Len(b) = k
    <2>1. e[n][2] = At(2 * n)
      BY <1>4, <1>7
    <2>2. QED
      BY <1>4, <1>6, <1>9, <2>1
  <1>11. ASSUME NEW j \in 1 .. k
         PROVE  b[j] = d[j]
    <2>1. PICK i \in 1 .. n : j = 2 * i - 1 \/ j = 2 * i
      <3>1. (j + 1) \div 2 \in 1 .. n /\ (j = 2 * ((j + 1) \div 2) - 1 \/ j = 2 * ((j + 1) \div 2))
        BY <1>1, <1>4
      <3>2. QED
        BY <3>1
    <2>2. CASE j = 2 * i - 1
      BY <1>6, <1>7, <1>9, <2>2
    <2>3. CASE j = 2 * i
      <3>1. 2 * i <= k
        BY <2>3
      <3>2. QED
        BY <1>6, <1>7, <1>9, <1>10, <2>3, <3>1
    <2>4. QED
      BY <2>1, <2>2, <2>3
  <1>12. b = d
    BY <1>1, <1>9, <1>10, <1>11, SeqEqual DEF k
  <1>13. QED
    BY <1>7, <1>12 DEF b, d, e
-----------------------------------------------------------------------------
(* The clock *)

\* A byte of two digits says its number; one with a digit that is none, 0.
LEMMA TwoDigitsDecoded ==
  ASSUME NEW t \in 0 .. 99
  PROVE  decodeBCD(<<TwoDigits(t)>>) = t
  <1> DEFINE hi == t \div 10
             lo == t % 10
             bcd == <<TwoDigits(t)>>
  <1>1. hi \in 0 .. 9 /\ lo \in 0 .. 9 /\ 10 * hi + lo = t /\ t < Wide /\ hi < Wide
    <2>1. Wide >= 100
      BY CodecAssumption
    <2>2. hi \in 0 .. 9 /\ lo \in 0 .. 9 /\ 10 * hi + lo = t
      OBVIOUS
    <2> HIDE DEF hi, lo
    <2>3. QED
      BY <2>1, <2>2, HalfOfWide
  <1>2. bcd[1] = TwoDigits(t) /\ TwoDigits(t)[1] = hi /\ TwoDigits(t)[2] = lo /\ Len(bcd) = 1
    BY DEF TwoDigits
  <1>3. bcd \in Seq(BcdByte)
    <2>1. TwoDigits(t) \in BcdByte
      BY <1>1 DEF TwoDigits, BcdByte
    <2>2. QED
      BY <2>1
  <1> HIDE DEF hi, lo, bcd
  <1>4. PICK v \in [0 .. Len(bcd) -> Decodable] :
          /\ v[0] = 0 /\ decodeBCD(bcd) = v[Len(bcd)]
          /\ \A i \in 1 .. Len(bcd) : v[i] = ByteStep(bcd, v[i - 1], i)
    BY <1>3, DecodeIs
  <1>5. decodeBCD(bcd) = ByteStep(bcd, 0, 1)
    <2>1. 1 \in 1 .. 1 /\ 1 - 1 = 0
      OBVIOUS
    <2>2. QED
      BY <1>2, <1>4, <2>1
  <1>6. ByteStep(bcd, 0, 1) = Digit(Digit(0, hi), lo)
    BY <1>1, <1>2 DEF ByteStep, Filler
  <1>7. Digit(0, hi) = hi
    <2>1. Digit(0, hi) = timesTenPlusCatchingOverflow(0, hi)
      BY <1>1 DEF Digit, Refused
    <2>2. 0 \in 0 .. Wide - 1 /\ 10 * 0 + hi = hi /\ hi < 2 * Wide
      BY <1>1, HalfOfWide
    <2>3. QED
      BY <1>1, <2>1, <2>2, OverflowIsCaughtBelowTwiceTheWidth
  <1>8. Digit(hi, lo) = t
    <2>1. Digit(hi, lo) = timesTenPlusCatchingOverflow(hi, lo)
      BY <1>1 DEF Digit, Refused
    <2>2. hi \in 0 .. Wide - 1 /\ 10 * hi + lo < 2 * Wide
      BY <1>1, HalfOfWide
    <2>3. QED
      BY <1>1, <2>1, <2>2, OverflowIsCaughtBelowTwiceTheWidth
  <1>9. QED
    BY <1>5, <1>6, <1>7, <1>8 DEF bcd

LEMMA NoDigitDecoded == decodeBCD(<< <<10, 0>> >>) = Refused
  <1> DEFINE bcd == << <<10, 0>> >>
  <1>1. bcd[1] = <<10, 0>> /\ <<10, 0>>[1] = 10 /\ <<10, 0>>[2] = 0 /\ Len(bcd) = 1
    OBVIOUS
  <1>2. bcd \in Seq(BcdByte)
    <2>1. <<10, 0>> \in BcdByte
      BY DEF BcdByte
    <2>2. QED
      BY <2>1
  <1> HIDE DEF bcd
  <1>3. PICK v \in [0 .. Len(bcd) -> Decodable] :
          /\ v[0] = 0 /\ decodeBCD(bcd) = v[Len(bcd)]
          /\ \A i \in 1 .. Len(bcd) : v[i] = ByteStep(bcd, v[i - 1], i)
    BY <1>2, DecodeIs
  <1>4. decodeBCD(bcd) = ByteStep(bcd, 0, 1)
    <2>1. 1 \in 1 .. 1 /\ 1 - 1 = 0
      OBVIOUS
    <2>2. QED
      BY <1>1, <1>3, <2>1
  <1>5. ByteStep(bcd, 0, 1) = Digit(Digit(0, 10), 0)
    BY <1>1 DEF ByteStep, Filler
  <1>6. Digit(Digit(0, 10), 0) = Refused
    BY DEF Digit
  <1>7. QED
    BY <1>4, <1>5, <1>6 DEF bcd

\* A field shows its two digits.
LEMMA FieldIs ==
  ASSUME NEW bcd, NEW i \in 1 .. 6
  PROVE  /\ \A t \in 0 .. 99 : bcd[i] = TwoDigits(t) => Field(bcd, i) = t
         /\ bcd[i] = <<10, 0>> => Field(bcd, i) = 0
  <1>1. ASSUME NEW t \in 0 .. 99, bcd[i] = TwoDigits(t)
        PROVE  Field(bcd, i) = t
    <2>1. decodeBCD(<<bcd[i]>>) = t
      BY <1>1, TwoDigitsDecoded
    <2>2. t # Refused
      BY DEF Refused
    <2>3. QED
      BY <2>1, <2>2 DEF Field
  <1>2. ASSUME bcd[i] = <<10, 0>>
        PROVE  Field(bcd, i) = 0
    <2>1. decodeBCD(<<bcd[i]>>) = Refused
      BY <1>2, NoDigitDecoded
    <2>2. QED
      BY <2>1 DEF Field
  <1>3. QED
    BY <1>1, <1>2

\* The two digits of a year, within the window, are the year's.
LEMMA YearIs == \A y \in 1950 .. 2049 : y % 100 \in 0 .. 99 /\ Year(y % 100) = y
  BY DEF Year

LEMMA Dated ==
  ASSUME NEW t \in Date
  PROVE  /\ DOMAIN t = 1 .. 6 /\ t = [i \in 1 .. 6 |-> t[i]]
         /\ t[1] \in 1950 .. 2049 /\ \A i \in 2 .. 6 : t[i] \in 0 .. 99 /\ t[i] % 100 = t[i]
  <1>1. t \in [1 .. 6 -> Nat] /\ t[1] \in 1950 .. 2049 /\ \A i \in 2 .. 6 : t[i] <= 99
    BY DEF Date
  <1>2. DOMAIN t = 1 .. 6 /\ t = [i \in 1 .. 6 |-> t[i]]
    BY <1>1
  <1>3. \A i \in 2 .. 6 : t[i] \in Nat /\ t[i] <= 99
    <2>1. \A i \in 2 .. 6 : i \in 1 .. 6
      OBVIOUS
    <2>2. QED
      BY <1>1, <2>1
  <1>4. \A k \in Nat : k <= 99 => k \in 0 .. 99 /\ k % 100 = k
    OBVIOUS
  <1>5. \A i \in 2 .. 6 : t[i] \in 0 .. 99 /\ t[i] % 100 = t[i]
    BY <1>3, <1>4
  <1>6. QED
    BY <1>1, <1>2, <1>5

(***************************************************************************)
(* Every date of the window is read, whichever of its other bytes are no   *)
(* numbers.                                                                *)
(***************************************************************************)
LEMMA ClockRead ==
  ASSUME NEW t \in Date
  PROVE  LET sent == [i \in 1 .. 6 |-> TwoDigits(t[i] % 100)]
         IN  /\ ReadClock(sent) = t
             /\ \A i \in 2 .. 6 :
                  ReadClock([sent EXCEPT ![i] = <<10, 0>>]) = [t EXCEPT ![i] = 0]
  <1> DEFINE sent == [i \in 1 .. 6 |-> TwoDigits(t[i] % 100)]
  <1>1. \A i \in 1 .. 6 : sent[i] = TwoDigits(t[i] % 100)
    OBVIOUS
  <1>2. \A i \in 1 .. 6 : t[i] % 100 \in 0 .. 99
    <2>1. \A i \in 1 .. 6 : i = 1 \/ i \in 2 .. 6
      OBVIOUS
    <2>2. QED
      BY <2>1, Dated, YearIs
  <1>3. ASSUME NEW s, \A i \in 1 .. 6 : s[i] = sent[i] \/ (i # 1 /\ s[i] = <<10, 0>>)
        PROVE  /\ \A i \in 1 .. 6 : s[i] = sent[i] => ReadClock(s)[i] = t[i]
               /\ \A i \in 2 .. 6 : s[i] = <<10, 0>> => ReadClock(s)[i] = 0
    <2>1. \A i \in 1 .. 6 : s[i] = sent[i] => Field(s, i) = t[i] % 100
      BY <1>1, <1>2, FieldIs
    <2>2. \A i \in 2 .. 6 : s[i] = <<10, 0>> => Field(s, i) = 0
      <3>1. \A i \in 2 .. 6 : i \in 1 .. 6
        OBVIOUS
      <3>2. QED
        BY <3>1, FieldIs
    <2>3. \A i \in 1 .. 6 : ReadClock(s)[i] = IF i = 1 THEN Year(Field(s, 1)) ELSE Field(s, i)
      BY DEF ReadClock
    <2> HIDE DEF sent
    <2>4. ASSUME NEW i \in 1 .. 6, s[i] = sent[i]
          PROVE  ReadClock(s)[i] = t[i]
      <3>1. Field(s, i) = t[i] % 100
        BY <2>1, <2>4
      <3>2. CASE i = 1
        BY <2>3, <3>1, <3>2, Dated, YearIs
      <3>3. CASE i # 1
        <4>1. i \in 2 .. 6
          BY <3>3
        <4>2. QED
          BY <2>3, <3>1, <3>3, <4>1, Dated
      <3>4. QED
        BY <3>2, <3>3
    <2>5. ASSUME NEW i \in 2 .. 6, s[i] = <<10, 0>>
          PROVE  ReadClock(s)[i] = 0
      <3>1. i \in 1 .. 6 /\ i # 1
        OBVIOUS
      <3>2. QED
        BY <2>2, <2>3, <2>5, <3>1
    <2>6. QED
      BY <2>4, <2>5
  <1>4. \A s : ReadClock(s) = [i \in 1 .. 6 |-> ReadClock(s)[i]]
    BY DEF ReadClock
  <1>5. DOMAIN sent = 1 .. 6
    OBVIOUS
  <1> HIDE DEF sent
  <1>6. ReadClock(sent) = t
    <2>1. \A i \in 1 .. 6 : ReadClock(sent)[i] = t[i]
      BY <1>3
    <2>2. QED
      BY <1>4, <2>1, Dated
  <1>7. ASSUME NEW i \in 2 .. 6
        PROVE  ReadClock([sent EXCEPT ![i] = <<10, 0>>]) = [t EXCEPT ![i] = 0]
    <2> DEFINE s == [sent EXCEPT ![i] = <<10, 0>>]
    <2>1. i \in 1 .. 6 /\ i # 1 /\ s[i] = <<10, 0>> /\ \A j \in 1 .. 6 : j # i => s[j] = sent[j]
      BY <1>5
    <2> HIDE DEF s
    <2>2. \A j \in 1 .. 6 : ReadClock(s)[j] = IF j = i THEN 0 ELSE t[j]
      <3>1. \A j \in 1 .. 6 : s[j] = sent[j] \/ (j # 1 /\ s[j] = <<10, 0>>)
        BY <2>1
      <3>2. \A j \in 1 .. 6 : s[j] = sent[j] => ReadClock(s)[j] = t[j]
        BY <1>3, <3>1
      <3>3. \A j \in 2 .. 6 : s[j] = <<10, 0>> => ReadClock(s)[j] = 0
        BY <1>3, <3>1
      <3>4. QED
        BY <2>1, <3>2, <3>3
    <2>3. ReadClock(s) = [t EXCEPT ![i] = 0]
      BY <1>4, <2>1, <2>2, Dated
    <2>4. QED
      BY <2>3 DEF s
  <1>8. QED
    BY <1>6, <1>7 DEF sent
-----------------------------------------------------------------------------
(* Numbers shifted *)

\* What is left of n after each shift, until the k-th.
ShiftsUpTo(g, base, n, k) ==
  g \in [0 .. k -> Nat] /\ g[0] = n /\ \A i \in 1 .. k : g[i] = g[i - 1] \div base

LEMMA ShiftedIs ==
  ASSUME NEW base \in Nat, base >= 2, NEW n \in Nat, NEW k \in Nat
  PROVE  \E g : ShiftsUpTo(g, base, n, k) /\ \A i \in 0 .. k : Shifted(base, n, i) = g[i]
  <1> DEFINE step == [i \in Nat |-> [x \in Nat |-> x \div base]]
  <1>1. step \in Bodies(Nat)
    <2>1. \A x \in Nat : x \div base \in Nat
      OBVIOUS
    <2>2. QED
      BY <2>1 DEF Bodies
  <1>2. \A i \in Nat, x \in Nat : step[i][x] = x \div base
    OBVIOUS
  <1> HIDE DEF step
  <1>3. \A z \in Nat, m \in Nat : \E g : IsRun(g, Nat, z, step, m)
    BY <1>1, Iteration
  <1>4. PICK g : IsRun(g, Nat, n, step, k)
    BY <1>3
  <1>5. g \in [0 .. k -> Nat] /\ g[0] = n /\ \A i \in 1 .. k : g[i] = step[i][g[i - 1]]
    BY <1>4 DEF IsRun
  <1>6. \A i \in 1 .. k : g[i] = g[i - 1] \div base
    <2> TAKE i \in 1 .. k
    <2>1. g[i - 1] \in Nat /\ i \in Nat
      BY <1>5
    <2>2. QED
      BY <1>2, <1>5, <2>1
  <1>7. ASSUME NEW m \in 0 .. k
        PROVE  Shifted(base, n, m) = g[m]
    <2> DEFINE rest[i \in 0 .. m] == IF i = 0 THEN n ELSE rest[i - 1] \div base
               short == [i \in 0 .. m |-> g[i]]
    <2>1. Shifted(base, n, m) = rest[m]
      BY DEF Shifted
    <2>2. short = [i \in 0 .. m |-> IF i = 0 THEN n ELSE short[i - 1] \div base]
      <3>1. \A i \in 0 .. m : i # 0 => i - 1 \in 0 .. m /\ i \in 1 .. k
        OBVIOUS
      <3>2. \A i \in 0 .. m : i # 0 => short[i - 1] = g[i - 1]
        BY <3>1
      <3>3. \A i \in 0 .. m : g[i] = IF i = 0 THEN n ELSE short[i - 1] \div base
        BY <1>5, <1>6, <3>1, <3>2
      <3>4. QED
        BY <3>3
    <2>3. \E f : f = [i \in 0 .. m |-> IF i = 0 THEN n ELSE f[i - 1] \div base]
      BY <2>2
    <2>4. rest = [i \in 0 .. m |-> IF i = 0 THEN n ELSE rest[i - 1] \div base]
      BY <2>3, Zenon
    <2> HIDE DEF rest
    <2> DEFINE Same == {i \in Nat : i <= m => rest[i] = g[i]}
    <2>5. 0 \in Same
      BY <1>5, <2>4
    <2>6. ASSUME NEW i \in Nat, i \in Same
          PROVE  i + 1 \in Same
      <3> SUFFICES ASSUME i + 1 <= m
                   PROVE  rest[i + 1] = g[i + 1]
        OBVIOUS
      <3>1. i + 1 \in 0 .. m /\ i + 1 # 0 /\ (i + 1) - 1 = i /\ i + 1 \in 1 .. k /\ i <= m
        OBVIOUS
      <3>2. rest[i + 1] = rest[i] \div base
        BY <2>4, <3>1
      <3>3. g[i + 1] = g[i] \div base
        BY <1>6, <3>1
      <3>4. rest[i] = g[i]
        BY <2>6, <3>1
      <3>5. QED
        BY <3>2, <3>3, <3>4
    <2> HIDE DEF Same
    <2>7. Nat \subseteq Same
      BY <2>5, <2>6, SetInduction
    <2>8. m \in Nat /\ m <= m
      OBVIOUS
    <2>9. rest[m] = g[m]
      BY <2>7, <2>8 DEF Same
    <2>10. QED
      BY <2>1, <2>9
  <1>8. ShiftsUpTo(g, base, n, k)
    BY <1>5, <1>6 DEF ShiftsUpTo
  <1>9. QED
    BY <1>7, <1>8

\* A number is its quotient and its remainder.
LEMMA Recomposed ==
  ASSUME NEW base \in Nat, base >= 2, NEW x \in Nat
  PROVE  x \div base \in Nat /\ x % base \in 0 .. base - 1 /\ base * (x \div base) + (x % base) = x
  BY Divides

\* And their quotient and remainder are the number's.
LEMMA Decomposed ==
  ASSUME NEW base \in Nat, base >= 2, NEW x \in Nat, NEW y \in 0 .. base - 1
  PROVE  (base * x + y) \div base = x /\ (base * x + y) % base = y
  OBVIOUS

(***************************************************************************)
(* The digits written of a number that fits are the number's.              *)
(***************************************************************************)
LEMMA DigitsOfShifts ==
  ASSUME NEW base \in Nat, base >= 2, NEW n \in Nat, NEW v \in Nat, Shifted(base, v, n) = 0
  PROVE  LET b == [i \in 1 .. n |-> Shifted(base, v, n - i) % base]
         IN  /\ b \in Seq(0 .. base - 1) /\ Len(b) = n
             /\ OfDigits(base, b) = v
  <1> DEFINE b == [i \in 1 .. n |-> Shifted(base, v, n - i) % base]
  <1>1. PICK g : ShiftsUpTo(g, base, v, n) /\ \A i \in 0 .. n : Shifted(base, v, i) = g[i]
    BY ShiftedIs
  <1>2. /\ g \in [0 .. n -> Nat] /\ g[0] = v /\ \A i \in 1 .. n : g[i] = g[i - 1] \div base
        /\ g[n] = 0
    BY <1>1 DEF ShiftsUpTo
  <1>3. \A i \in 1 .. n : n - i \in 0 .. n /\ b[i] = g[n - i] % base
    <2>1. \A i \in 1 .. n : n - i \in 0 .. n /\ b[i] = Shifted(base, v, n - i) % base
      OBVIOUS
    <2> HIDE DEF b
    <2>2. QED
      BY <1>1, <2>1
  <1>4. b \in [1 .. n -> 0 .. base - 1]
    <2>1. \A i \in 1 .. n : Shifted(base, v, n - i) % base \in 0 .. base - 1
      <3> TAKE i \in 1 .. n
      <3>1. n - i \in 0 .. n
        OBVIOUS
      <3>2. Shifted(base, v, n - i) \in Nat
        BY <1>1, <1>2, <3>1
      <3>3. QED
        BY <3>2, Recomposed
    <2>2. QED
      BY <2>1
  <1> HIDE DEF b
  <1>5. b \in Seq(0 .. base - 1) /\ Len(b) = n /\ b \in Seq(Nat)
    BY <1>4
  <1>6. PICK h : NumbersUpTo(h, base, b) /\ OfDigits(base, b) = h[n]
    BY <1>5, OfDigitsIs
  <1>7. h \in [0 .. n -> Nat] /\ h[0] = 0 /\ \A j \in 1 .. n : h[j] = base * h[j - 1] + b[j]
    BY <1>5, <1>6 DEF NumbersUpTo
  <1> DEFINE Same == {i \in Nat : i <= n => h[i] = g[n - i]}
  <1>8. 0 \in Same
    BY <1>2, <1>7
  <1>9. ASSUME NEW i \in Nat, i \in Same
        PROVE  i + 1 \in Same
    <2> SUFFICES ASSUME i + 1 <= n
                 PROVE  h[i + 1] = g[n - (i + 1)]
      OBVIOUS
    <2>1. /\ i + 1 \in 1 .. n /\ (i + 1) - 1 = i /\ i <= n /\ n - i \in 1 .. n
          /\ (n - i) - 1 = n - (i + 1) /\ n - (i + 1) \in 0 .. n
      OBVIOUS
    <2>2. PICK x \in Nat : x = g[n - (i + 1)]
      BY <1>2, <2>1
    <2>3. h[i] = x \div base
      <3>1. h[i] = g[n - i]
        BY <1>9, <2>1
      <3>2. g[n - i] = g[(n - i) - 1] \div base
        BY <1>2, <2>1
      <3>3. QED
        BY <2>1, <2>2, <3>1, <3>2
    <2>4. b[i + 1] = x % base
      BY <1>3, <2>1, <2>2
    <2>5. h[i + 1] = base * h[i] + b[i + 1]
      BY <1>7, <2>1
    <2>6. base * (x \div base) + (x % base) = x
      BY Recomposed
    <2>7. QED
      BY <2>2, <2>3, <2>4, <2>5, <2>6, Zenon
  <1> HIDE DEF Same
  <1>10. Nat \subseteq Same
    BY <1>8, <1>9, SetInduction
  <1>11. h[n] = g[0]
    <2>1. n \in Nat /\ n <= n /\ n - n = 0
      OBVIOUS
    <2>2. QED
      BY <1>10, <2>1 DEF Same
  <1>12. QED
    BY <1>2, <1>5, <1>6, <1>11 DEF b

\* The digits of a number are found again by shifting it.
LEMMA ShiftsOfDigits ==
  ASSUME NEW base \in Nat, base >= 2, NEW d \in Seq(0 .. base - 1)
  PROVE  \A i \in 1 .. Len(d) : Shifted(base, OfDigits(base, d), Len(d) - i) % base = d[i]
  <1> DEFINE n == Len(d)
             v == OfDigits(base, d)
  <1>1. n \in Nat /\ d \in Seq(Nat) /\ \A i \in 1 .. n : d[i] \in 0 .. base - 1
    BY LenProperties
  <1>2. PICK h : NumbersUpTo(h, base, d) /\ v = h[n]
    BY <1>1, OfDigitsIs
  <1>3. h \in [0 .. n -> Nat] /\ h[0] = 0 /\ \A j \in 1 .. n : h[j] = base * h[j - 1] + d[j]
    BY <1>2 DEF NumbersUpTo
  <1> HIDE DEF n, v
  <1>4. v \in Nat
    BY <1>1, <1>2, <1>3
  <1>5. PICK g : ShiftsUpTo(g, base, v, n) /\ \A i \in 0 .. n : Shifted(base, v, i) = g[i]
    BY <1>1, <1>4, ShiftedIs
  <1>6. g \in [0 .. n -> Nat] /\ g[0] = v /\ \A i \in 1 .. n : g[i] = g[i - 1] \div base
    BY <1>5 DEF ShiftsUpTo
  <1> DEFINE Same == {i \in Nat : i <= n => g[i] = h[n - i]}
  <1>7. 0 \in Same
    BY <1>1, <1>2, <1>6
  <1>8. ASSUME NEW i \in Nat, i \in Same
        PROVE  i + 1 \in Same
    <2> SUFFICES ASSUME i + 1 <= n
                 PROVE  g[i + 1] = h[n - (i + 1)]
      OBVIOUS
    <2>1. /\ i + 1 \in 1 .. n /\ (i + 1) - 1 = i /\ i <= n /\ n - i \in 1 .. n
          /\ (n - i) - 1 = n - (i + 1) /\ n - (i + 1) \in 0 .. n
      BY <1>1
    <2>2. PICK x \in Nat, y \in 0 .. base - 1 : x = h[n - (i + 1)] /\ y = d[n - i]
      BY <1>1, <1>3, <2>1
    <2>3. h[n - i] = base * x + y
      <3>1. h[n - i] = base * h[(n - i) - 1] + d[n - i]
        BY <1>3, <2>1
      <3>2. QED
        BY <2>1, <2>2, <3>1
    <2>4. g[i] = h[n - i]
      BY <1>8, <2>1
    <2>5. g[i + 1] = g[i] \div base
      BY <1>6, <2>1
    <2>6. (base * x + y) \div base = x
      BY Decomposed
    <2>7. QED
      BY <2>2, <2>3, <2>4, <2>5, <2>6, Zenon
  <1> HIDE DEF Same
  <1>9. Nat \subseteq Same
    BY <1>7, <1>8, SetInduction
  <1>10. ASSUME NEW i \in 1 .. n
         PROVE  Shifted(base, v, n - i) % base = d[i]
    <2>1. n - i \in 0 .. n /\ n - i \in Nat /\ n - i <= n /\ n - (n - i) = i /\ i - 1 \in 0 .. n
      BY <1>1
    <2>2. g[n - i] = h[i]
      BY <1>9, <2>1 DEF Same
    <2>3. PICK x \in Nat, y \in 0 .. base - 1 : x = h[i - 1] /\ y = d[i]
      BY <1>1, <1>3, <2>1
    <2>4. h[i] = base * x + y
      BY <1>3, <2>3
    <2>5. Shifted(base, v, n - i) = base * x + y
      BY <1>5, <2>1, <2>2, <2>4
    <2>6. (base * x + y) % base = y
      BY Decomposed
    <2>7. QED
      BY <2>3, <2>5, <2>6, Zenon
  <1>11. QED
    BY <1>10 DEF n, v

(***************************************************************************)
(* A number is parsed from the bytes it was written to, in either order.   *)
(***************************************************************************)
LEMMA NumberWritten ==
  ASSUME NEW n \in Nat, NEW v \in Nat, Shifted(Byte, v, n) = 0
  PROVE  /\ ParseUint(UintToBytes(n, v)) = v
         /\ ParseUintLittleEndian(UintToBytesLittleEndian(n, v)) = v
         /\ UintToBytesLittleEndian(n, v) = Reverse(UintToBytes(n, v))
  <1> DEFINE b == UintToBytes(n, v)
             l == UintToBytesLittleEndian(n, v)
  <1>1. Byte \in Nat /\ Byte >= 2
    BY ByteAssumption
  <1>2. b = [i \in 1 .. n |-> Shifted(Byte, v, n - i) % Byte]
    BY DEF UintToBytes
  <1>3. b \in Seq(0 .. Byte - 1) /\ Len(b) = n /\ OfDigits(Byte, b) = v
    <2> DEFINE c == [i \in 1 .. n |-> Shifted(Byte, v, n - i) % Byte]
    <2>1. c \in Seq(0 .. Byte - 1) /\ Len(c) = n /\ OfDigits(Byte, c) = v
      BY <1>1, DigitsOfShifts
    <2>2. QED
      BY <1>2, <2>1
  <1>4. l = [i \in 1 .. n |-> Shifted(Byte, v, i - 1) % Byte]
    BY DEF UintToBytesLittleEndian
  <1> HIDE DEF b, l
  <1>5. \A i \in 1 .. n : (n - i) + 1 \in 1 .. n /\ n - ((n - i) + 1) = i - 1
    OBVIOUS
  <1>6. l = [i \in 1 .. n |-> b[(n - i) + 1]]
    <2>1. \A i \in 1 .. n : b[(n - i) + 1] = Shifted(Byte, v, n - ((n - i) + 1)) % Byte
      BY <1>2, <1>5
    <2>2. \A i \in 1 .. n : b[(n - i) + 1] = Shifted(Byte, v, i - 1) % Byte
      BY <1>5, <2>1
    <2>3. QED
      BY <1>4, <2>2
  <1>7. l = Reverse(b)
    BY <1>3, <1>6 DEF Reverse
  <1>8. Reverse(l) = b
    <2>1. Len(l) = n
      BY <1>6
    <2>2. \A i \in 1 .. n : l[(n - i) + 1] = b[i]
      <3>1. \A i \in 1 .. n : (n - ((n - i) + 1)) + 1 = i
        OBVIOUS
      <3>2. \A i \in 1 .. n : l[(n - i) + 1] = b[(n - ((n - i) + 1)) + 1]
        BY <1>5, <1>6
      <3>3. QED
        BY <3>1, <3>2
    <2>3. Reverse(l) = [i \in 1 .. n |-> l[(n - i) + 1]]
      BY <2>1 DEF Reverse
    <2>4. b = [i \in 1 .. n |-> b[i]]
      BY <1>2
    <2>5. QED
      BY <2>2, <2>3, <2>4
  <1>9. QED
    BY <1>3, <1>7, <1>8 DEF b, l, ParseUint, ParseUintLittleEndian
-----------------------------------------------------------------------------
(* Bits *)

\* The bytes that hold n bits, p in each, are enough and no more than there are bits.
LEMMA Bytesful ==
  ASSUME NEW n \in Nat, NEW p \in Nat \ {0}
  PROVE  LET m == (n + p - 1) \div p
         IN  m \in Nat /\ m <= n /\ n <= p * m
  <1> DEFINE a == n + p - 1
             m == a \div p
  <1>1. a \in Nat /\ m \in Nat /\ a % p \in 0 .. p - 1 /\ p * m + (a % p) = a
    BY Divides
  <1>2. n <= p * m
    BY <1>1
  <1>3. m <= n
    <2> SUFFICES ASSUME m >= n + 1
                 PROVE  FALSE
      BY <1>1
    <2>1. p * m >= p * (n + 1)
      BY <1>1
    <2>2. p * (n + 1) >= n + p
      <3>1. p * (n + 1) = p * n + p /\ p * n >= n
        OBVIOUS
      <3>2. QED
        BY <3>1
    <2> HIDE DEF m
    <2>3. QED
      BY <1>1, <2>1, <2>2
  <1>4. QED
    BY <1>1, <1>2, <1>3

\* The place of the i-th bit, counted from 0: bit k % p of byte k / p.
LEMMA PlaceOfBit ==
  ASSUME NEW n \in Nat, NEW p \in Nat \ {0}, NEW k \in Nat, k < n
  PROVE  /\ 1 + (k \div p) \in 1 .. (n + p - 1) \div p
         /\ k % p \in 0 .. p - 1
         /\ (1 + (k \div p)) * p + 1 - (p - (k % p)) = k + 1
  <1> DEFINE j == k \div p
             r == k % p
  <1>1. j \in Nat /\ r \in 0 .. p - 1 /\ k = p * j + r
    BY Divides
  <1> HIDE DEF j, r
  <1>2. (1 + j) * p + 1 - (p - r) = k + 1
    BY <1>1
  <1>3. (n + p - 1) \div p >= 1 + j
    <2>1. n + p - 1 \in Nat /\ (n + p - 1) \div p \in Nat
          /\ n + p - 1 = p * ((n + p - 1) \div p) + ((n + p - 1) % p) /\ (n + p - 1) % p \in 0 .. p - 1
      BY Divides
    <2>2. n + p - 1 >= p * j + p
      BY <1>1
    <2> DEFINE m == (n + p - 1) \div p
    <2> SUFFICES ASSUME m <= j
                 PROVE  FALSE
      BY <1>1, <2>1
    <2>3. p * m <= p * j
      BY <1>1, <2>1
    <2> HIDE DEF m
    <2>4. QED
      BY <1>1, <2>1, <2>2, <2>3 DEF m
  <1>4. 1 + j \in 1 .. (n + p - 1) \div p
    <2>1. (n + p - 1) \div p \in Nat
      BY Divides
    <2>2. QED
      BY <1>1, <1>3, <2>1
  <1>5. QED
    BY <1>1, <1>2, <1>4 DEF j, r

(***************************************************************************)
(* Every bit is found where ShrinkBool put it.                             *)
(***************************************************************************)
LEMMA BitShrunk ==
  ASSUME NEW b \in Seq({0, 1})
  PROVE  LET s == ShrinkBool(b)
         IN  /\ Len(s) = (Len(b) + PerByte - 1) \div PerByte
             /\ \A i \in 1 .. Len(b) :
                  Bit(s[1 + ((i - 1) \div PerByte)], (i - 1) % PerByte) = b[i]
  <1> DEFINE n == Len(b)
             p == PerByte
             m == (n + p - 1) \div p
             s == ShrinkBool(b)
             bits == [j \in 1 .. m |-> [k \in 1 .. p |->
                       LET i == j * p + 1 - k
                       IN  IF i <= n /\ b[i] > 0 THEN 1 ELSE 0]]
  <1>1. n \in Nat /\ p \in Nat \ {0} /\ m \in Nat /\ \A i \in 1 .. n : b[i] \in {0, 1}
    BY LenProperties, PerByteAssumption, Bytesful
  <1>2. s = [j \in 1 .. m |-> OfDigits(2, bits[j])]
    BY DEF ShrinkBool
  <1>3. \A j \in 1 .. m : bits[j] = [k \in 1 .. p |->
                            LET i == j * p + 1 - k
                            IN  IF i <= n /\ b[i] > 0 THEN 1 ELSE 0]
    OBVIOUS
  <1> HIDE DEF bits, s, m, n, p
  <1>4. Len(s) = m
    BY <1>1, <1>2
  <1>5. ASSUME NEW j \in 1 .. m
        PROVE  /\ bits[j] \in Seq(0 .. 2 - 1) /\ Len(bits[j]) = p
               /\ \A k \in 1 .. p : bits[j][k] =
                    IF j * p + 1 - k <= n /\ b[j * p + 1 - k] > 0 THEN 1 ELSE 0
    <2>1. \A k \in 1 .. p : bits[j][k] =
            IF j * p + 1 - k <= n /\ b[j * p + 1 - k] > 0 THEN 1 ELSE 0
      BY <1>3
    <2>2. bits[j] \in [1 .. p -> 0 .. 2 - 1]
      <3>1. \A k \in 1 .. p : bits[j][k] \in 0 .. 2 - 1
        BY <2>1
      <3>2. QED
        BY <1>3, <3>1
    <2>3. bits[j] \in Seq(0 .. 2 - 1) /\ Len(bits[j]) = p
      BY <1>1, <2>2
    <2>4. QED
      BY <2>1, <2>3
  <1>6. ASSUME NEW i \in 1 .. n
        PROVE  Bit(s[1 + ((i - 1) \div p)], (i - 1) % p) = b[i]
    <2>1. PICK k \in Nat : k = i - 1 /\ k < n /\ i = k + 1
      BY <1>1
    <2>2. PICK j \in 1 .. m, r \in 0 .. p - 1 :
            j = 1 + (k \div p) /\ r = k % p /\ j * p + 1 - (p - r) = k + 1
      <3>1. /\ 1 + (k \div p) \in 1 .. m /\ k % p \in 0 .. p - 1
            /\ (1 + (k \div p)) * p + 1 - (p - (k % p)) = k + 1
        BY <1>1, <2>1, PlaceOfBit DEF m
      <3>2. QED
        BY <3>1, Zenon
    <2>3. s[j] = OfDigits(2, bits[j])
      BY <1>2
    <2>4. p - r \in 1 .. p /\ p - (p - r) = r
      BY <1>1
    <2>5. Shifted(2, s[j], r) % 2 = bits[j][p - r]
      <3>1. \A q \in 1 .. Len(bits[j]) :
              Shifted(2, OfDigits(2, bits[j]), Len(bits[j]) - q) % 2 = bits[j][q]
        <4>1. bits[j] \in Seq(0 .. 2 - 1)
          BY <1>5
        <4>2. 2 \in Nat /\ 2 >= 2
          OBVIOUS
        <4>3. \A d \in Seq(0 .. 2 - 1) : \A q \in 1 .. Len(d) :
                Shifted(2, OfDigits(2, d), Len(d) - q) % 2 = d[q]
          BY <4>2, ShiftsOfDigits, Zenon
        <4>4. QED
          BY <4>1, <4>3, Zenon
      <3>2. \A q \in 1 .. p : Shifted(2, s[j], p - q) % 2 = bits[j][q]
        BY <1>5, <2>3, <3>1
      <3>3. QED
        BY <2>4, <3>2
    <2>6. bits[j][p - r] = IF i <= n /\ b[i] > 0 THEN 1 ELSE 0
      BY <1>5, <2>1, <2>2, <2>4
    <2>7. b[i] \in {0, 1} /\ i <= n
      BY <1>1
    <2>8. Bit(s[j], r) = b[i]
      BY <2>5, <2>6, <2>7 DEF Bit
    <2>9. QED
      BY <2>1, <2>2, <2>8
  <1>7. QED
    BY <1>4, <1>6 DEF m, n, p, s

LEMMA BoolsRead ==
  ASSUME NEW b \in Seq({0, 1})
  PROVE  LET s == ShrinkBool(b)
             e == ExpandBool(s, Len(b))
         IN  /\ \A i \in DOMAIN b : Bit(s[1 + (i - 1) \div PerByte], (i - 1) % PerByte) = b[i]
             /\ ~ExpandOutOfRange(s, Len(b))
             /\ e = [i \in DOMAIN b |-> IF i <= Len(s) THEN b[i] ELSE 0]
             /\ AsciiToBool(BoolToAscii(b)) = b
  <1> DEFINE n == Len(b)
             p == PerByte
             s == ShrinkBool(b)
             m == Len(s)
             e == ExpandBool(s, n)
  <1>1. n \in Nat /\ p \in Nat \ {0} /\ DOMAIN b = 1 .. n /\ \A i \in 1 .. n : b[i] \in {0, 1}
    BY LenProperties, PerByteAssumption
  <1>2. m \in Nat /\ m <= n /\ n <= p * m
    <2>1. m = (n + p - 1) \div p
      BY BitShrunk
    <2> HIDE DEF m, n, p
    <2>2. QED
      BY <1>1, <2>1, Bytesful
  <1>3. \A i \in 1 .. n : Bit(s[1 + ((i - 1) \div p)], (i - 1) % p) = b[i]
    BY BitShrunk
  <1>4. e = [i \in 1 .. (IF n > p * m THEN p * m ELSE n) |->
              IF i <= m THEN Bit(s[1 + ((i - 1) \div p)], (i - 1) % p) ELSE 0]
    BY DEF ExpandBool
  <1>5. ExpandOutOfRange(s, n) <=>
          \E i \in 1 .. m : i > n /\ Bit(s[1 + ((i - 1) \div p)], (i - 1) % p) = 1
    BY DEF ExpandOutOfRange
  <1>6. AsciiToBool(BoolToAscii(b)) = b
    <2> DEFINE a == BoolToAscii(b)
    <2>1. a = [i \in 1 .. n |-> IF b[i] = 0 THEN "0" ELSE "1"]
      BY <1>1 DEF BoolToAscii
    <2>2. AsciiToBool(a) = [i \in DOMAIN a |-> IF a[i] = "0" THEN 0 ELSE 1]
      BY DEF AsciiToBool
    <2> HIDE DEF a, n
    <2>3. \A i \in 1 .. n : (IF a[i] = "0" THEN 0 ELSE 1) = b[i]
      BY <1>1, <2>1
    <2>4. AsciiToBool(a) = [i \in 1 .. n |-> b[i]]
      BY <2>1, <2>2, <2>3
    <2>5. b = [i \in 1 .. n |-> b[i]]
      BY <1>1, LenProperties DEF n
    <2>6. QED
      BY <2>4, <2>5 DEF a
  <1> HIDE DEF e, m, n, p, s
  <1>7. ~ExpandOutOfRange(s, n)
    BY <1>1, <1>2, <1>5
  <1>8. e = [i \in 1 .. n |-> IF i <= m THEN b[i] ELSE 0]
    <2>1. (IF n > p * m THEN p * m ELSE n) = n
      BY <1>1, <1>2
    <2>2. e = [i \in 1 .. n |->
              IF i <= m THEN Bit(s[1 + ((i - 1) \div p)], (i - 1) % p) ELSE 0]
      BY <1>4, <2>1, Zenon
    <2>3. QED
      BY <1>3, <2>2
  <1>9. QED
    BY <1>1, <1>3, <1>6, <1>7, <1>8 DEF e, m, n, p, s
-----------------------------------------------------------------------------
(* The item of a behaviour is the one it began with. *)

LEMMA ItemIs ==
  ASSUME Init
  PROVE  /\ Is("header") => item.of \in Header
         /\ Is("request") => item.of \in RequestAsked
         /\ Is("bcd") => item.of \in 0 .. Wide - 1
         /\ Is("digits") => item.of \in Seq(BcdByte)
         /\ Is("date") => item.of \in Date
         /\ Is("number") => item.of \in NumberAsked
         /\ Is("bools") => item.of \in Seq({0, 1})
         /\ Is("frame") => item.of \in FrameAsked
  <1> USE CodecAssumption
  <1>1. ASSUME NEW h \in Headers, item = [kind |-> "header", of |-> h]
        PROVE  item.kind = "header" /\ item.of \in Header
    BY <1>1
  <1>2. ASSUME NEW r \in Requests, item = [kind |-> "request", of |-> r]
        PROVE  item.kind = "request" /\ item.of \in RequestAsked
    BY <1>2
  <1>3. ASSUME NEW x \in ToEncode, item = [kind |-> "bcd", of |-> x]
        PROVE  item.kind = "bcd" /\ item.of \in 0 .. Wide - 1
    BY <1>3
  <1>4. ASSUME NEW d \in Digits, item = [kind |-> "digits", of |-> d]
        PROVE  item.kind = "digits" /\ item.of \in Seq(BcdByte)
    BY <1>4
  <1>5. ASSUME NEW t \in Dates, item = [kind |-> "date", of |-> t]
        PROVE  item.kind = "date" /\ item.of \in Date
    BY <1>5
  <1>6. ASSUME NEW n \in ToWrite, item = [kind |-> "number", of |-> n]
        PROVE  item.kind = "number" /\ item.of \in NumberAsked
    BY <1>6
  <1>7. ASSUME NEW b \in Bools, item = [kind |-> "bools", of |-> b]
        PROVE  item.kind = "bools" /\ item.of \in Seq({0, 1})
    BY <1>7
  <1>8. ASSUME NEW f \in TcpFrames, item = [kind |-> "frame", of |-> f]
        PROVE  item.kind = "frame" /\ item.of \in FrameAsked
    BY <1>8
  <1>9. QED
    BY <1>1, <1>2, <1>3, <1>4, <1>5, <1>6, <1>7, <1>8 DEF Init, Is

LEMMA ItemStays == Spec => []Init
  <1>1. Init /\ [Next]_item => Init'
    BY DEF Init, Next
  <1>2. QED
    BY <1>1, PTL DEF Spec

(***************************************************************************)
(* A header survives the wire but for its message type, which arrives only *)
(* with the pairs this code sends (header.go, driver.go:108-140).          *)
(***************************************************************************)
THEOREM HeadersArrive == Spec => []HeaderArrives
  <1>1. Init => HeaderArrives
    <2> SUFFICES ASSUME Init, Is("header")
                 PROVE  HeaderArrives
      BY DEF HeaderArrives
    <2>1. item.of \in SentHeader
      BY ItemIs, HeadersSent
    <2>2. QED
      BY <2>1, HeaderDecoded DEF HeaderArrives
  <1>2. QED
    BY <1>1, ItemStays, PTL

(***************************************************************************)
(* The server finds in the bytes of a request what the client put there,   *)
(* for every address, service id, memory address, count and data, and      *)
(* every width of a byte (client_udp.go:498-502, driver.go).               *)
(***************************************************************************)
THEOREM RequestsArrive == Spec => []RequestArrives
  <1>1. Init => RequestArrives
    BY ItemIs, RequestOfArrives DEF RequestArrives
  <1>2. QED
    BY <1>1, ItemStays, PTL

(***************************************************************************)
(* A response goes back to where its request came from, with its service   *)
(* id and command code, and the client decodes of it whatever 16-bit end   *)
(* code and data the server encoded (driver.go:81-101, header.go).         *)
(***************************************************************************)
THEOREM AnswersReturn == Spec => []AnswerReturns
  <1>1. Init => AnswerReturns
    BY ItemIs, AnswerToReturns DEF AnswerReturns
  <1>2. QED
    BY <1>1, ItemStays, PTL

(***************************************************************************)
(* Whatever it says, a write is refused by the length test of the client's *)
(* own listener, and nothing else the client writes is                     *)
(* (client_tcp.go: packTcpWriteCommand, listenLoop).                       *)
(***************************************************************************)
THEOREM OwnTestRefusesWrites == Spec => []LengthTestRefusesWrites
  <1>1. Init => LengthTestRefusesWrites
    BY ItemIs, FrameLengths DEF LengthTestRefusesWrites
  <1>2. QED
    BY <1>1, ItemStays, PTL

(***************************************************************************)
(* decodeBCD gives back every number encodeBCD encodes, for every even     *)
(* width of a number (driver.go:143-222).                                  *)
(***************************************************************************)
THEOREM EncodedNumbersDecode == Spec => []DecodeInvertsEncode
  <1>1. ASSUME NEW x \in 0 .. Wide - 1
        PROVE  decodeBCD(encodeBCD(x)) = x
    <2>1. x \in Nat /\ x < Wide
      BY HalfOfWide
    <2>2. encodeBCD(x) \in Seq(BcdByte) /\ Nibbles(encodeBCD(x)) = DigitsOf(x)
      BY <2>1, EncodedNibbles
    <2>3. DigitsOf(x) \in Numeral /\ Meant(DigitsOf(x)) = x
      BY <2>1, DigitsAre
    <2>4. \A j \in DOMAIN DigitsOf(x) : DigitsOf(x)[j] <= 9
      <3>1. \A d \in Seq(0 .. 9) : \A j \in DOMAIN d : d[j] <= 9
        OBVIOUS
      <3>2. DigitsOf(x) \in Seq(0 .. 9)
        BY <2>3, Numerals, Zenon
      <3>3. QED
        BY <3>1, <3>2, Zenon
    <2>5. (\A j \in DOMAIN DigitsOf(x) : DigitsOf(x)[j] <= 9) /\ Meant(DigitsOf(x)) < 2 * Wide
            => decodeBCD(encodeBCD(x))
                 = IF Meant(DigitsOf(x)) < Wide THEN Meant(DigitsOf(x)) ELSE Refused
      BY <2>2, DecodedIsMeant
    <2>6. Meant(DigitsOf(x)) < 2 * Wide
      BY <2>1, <2>3, HalfOfWide
    <2>7. QED
      BY <2>1, <2>3, <2>4, <2>5, <2>6
  <1>2. Init => DecodeInvertsEncode
    BY <1>1, ItemIs DEF DecodeInvertsEncode
  <1>3. QED
    BY <1>2, ItemStays, PTL

(***************************************************************************)
(* Bytes that are no number are refused, and those that say one below      *)
(* twice the width are refused if and only if it does not fit, and         *)
(* otherwise decoded as it, however many they are (driver.go:162-222).     *)
(***************************************************************************)
THEOREM NumbersAreDecodedOrRefused == Spec => []DecodedOrRefused
  <1>1. Init => DecodedOrRefused
    BY ItemIs, DecodedIsMeant DEF DecodedOrRefused
  <1>2. QED
    BY <1>1, ItemStays, PTL

(***************************************************************************)
(* ReadClock shows every date from 1950 to 2049, and a byte that is no     *)
(* number spoils its own field only (client_udp.go: ReadClock).            *)
(***************************************************************************)
THEOREM DatesAreRead == Spec => []ClockIsRead
  <1>1. Init => ClockIsRead
    BY ItemIs, ClockRead DEF ClockIsRead
  <1>2. QED
    BY <1>1, ItemStays, PTL

(***************************************************************************)
(* A number that fits in its bytes is parsed from them as it was written,  *)
(* for every number of bytes and every width of a byte (bytes.go).         *)
(***************************************************************************)
THEOREM WrittenNumbersAreParsed == Spec => []ParseInvertsWrite
  <1>1. ASSUME NEW n \in NumberAsked
        PROVE  n.width \in Nat /\ n.value \in Nat /\ Shifted(Byte, n.value, n.width) = 0
    BY DEF NumberAsked
  <1>2. Init => ParseInvertsWrite
    BY <1>1, ItemIs, NumberWritten DEF ParseInvertsWrite
  <1>3. QED
    BY <1>2, ItemStays, PTL

(***************************************************************************)
(* ShrinkBool keeps every bit, and ExpandBool gives back as many as there  *)
(* are bytes, without ever leaving its result (bytes.go:261-300).          *)
(***************************************************************************)
THEOREM BitsAreKept == Spec => []BoolsShrinkAndExpand
  <1>1. Init => BoolsShrinkAndExpand
    BY ItemIs, BoolsRead DEF BoolsShrinkAndExpand
  <1>2. QED
    BY <1>1, ItemStays, PTL

=============================================================================
