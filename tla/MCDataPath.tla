----------------------------- MODULE MCDataPath -----------------------------
(***************************************************************************)
(* Bytes of 4 values, so words of 16 and memories of 8 bytes.              *)
(***************************************************************************)
EXTENDS DataPath

Read(kind, area, address, bit, count, bs, ws) ==
  [do |-> "read", kind |-> kind, area |-> area, address |-> address, bit |-> bit,
   count |-> count, value |-> <<>>, bs |-> bs, ws |-> ws]
Write(kind, area, address, bit, value, bs, ws) ==
  [do |-> "write", kind |-> kind, area |-> area, address |-> address, bit |-> bit,
   count |-> 0, value |-> value, bs |-> bs, ws |-> ws]

Flags == {<<FALSE, FALSE>>, <<TRUE, FALSE>>, <<FALSE, TRUE>>, <<TRUE, TRUE>>}

Writes ==
  {Write("uint16", "DMWord", 0, 0, <<6>>, bs, FALSE) : bs \in BOOLEAN}
  \cup {Write("int16", "DMWord", 1, 0, <<-3>>, bs, FALSE) : bs \in BOOLEAN}
  \cup {Write("uint32", "DMWord", 0, 0, <<27>>, f[1], f[2]) : f \in Flags}
  \cup {Write("int32", "DMWord", 2, 0, <<-100>>, f[1], f[2]) : f \in Flags}
  \cup {Write("float", "DMWord", 4, 0, <<177>>, FALSE, FALSE),
        Write("words", "DMWord", 1, 0, <<6, 9>>, FALSE, FALSE),
        Write("words", "DMBit", 0, 0, <<6>>, FALSE, FALSE),
        Write("words", "DMWord", 0, 0, [i \in 1 .. 8 |-> 1], FALSE, FALSE),
        Write("string", "DMWord", 0, 0, <<1, 2, 3>>, FALSE, FALSE),
        Write("string", "DMWord", 4, 0, <<3, 0>>, FALSE, FALSE),
        Write("uint16", "DMBit", 2, 0, <<6>>, FALSE, FALSE),
        Write("bytes", "DMWord", 2, 0, <<3, 1>>, FALSE, FALSE),
        Write("bytes", "DMWord", 0, 0, [i \in 1 .. 9 |-> 2], FALSE, FALSE),
        Write("bytes", "DMWord", 0, 0, <<1, 2, 3, 1>>, FALSE, FALSE),
        Write("bits", "DMBit", 1, 2, <<1, 0, 1>>, FALSE, FALSE),
        Write("bits", "DMBit", 15, 3, <<1>>, FALSE, FALSE),
        Write("bits", "DMBit", 6, 3, <<1>>, FALSE, FALSE),
        Write("bits", "DMWord", 5, 0, <<1>>, FALSE, FALSE),
        Write("uint16", "DMWord", 7, 0, <<6>>, FALSE, FALSE),
        Write("words", "otherWord", 0, 0, <<6>>, FALSE, FALSE),
        Write("uint16", "other", 0, 0, <<6>>, FALSE, FALSE)}

Reads ==
  {Read("uint16", "DMWord", 0, 0, 1, bs, FALSE) : bs \in BOOLEAN}
  \cup {Read("int16", "DMWord", 1, 0, 1, bs, FALSE) : bs \in BOOLEAN}
  \cup {Read("uint32", "DMWord", 0, 0, 1, f[1], f[2]) : f \in Flags}
  \cup {Read("int32", "DMWord", 2, 0, 1, f[1], f[2]) : f \in Flags}
  \cup {Read("float", "DMWord", 0, 0, 1, FALSE, FALSE),
        Read("float", "DMWord", 4, 0, 5, FALSE, FALSE),
        Read("float", "DMWord", 4, 0, 4, FALSE, FALSE),
        Read("int32", "DMWord", 2, 0, 8, FALSE, FALSE),
        Read("words", "DMWord", 1, 0, 2, FALSE, FALSE),
        Read("words", "DMWord", 0, 0, 4, FALSE, FALSE),
        Read("words", "DMWord", 15, 0, 1, FALSE, FALSE),
        Read("string", "DMWord", 0, 0, 2, FALSE, FALSE),
        Read("string", "DMWord", 4, 0, 1, FALSE, FALSE),
        Read("bytes", "DMWord", 2, 0, 1, FALSE, FALSE),
        Read("bytes", "DMWord", 2, 0, 8, FALSE, FALSE),
        Read("bytes", "DMBit", 2, 0, 1, FALSE, FALSE),
        Read("bits", "DMBit", 1, 2, 3, FALSE, FALSE),
        Read("bits", "DMBit", 0, 0, 7, FALSE, FALSE),
        Read("bits", "DMWord", 5, 0, 1, FALSE, FALSE),
        Read("uint16", "DMBit", 2, 0, 1, FALSE, FALSE),
        Read("uint16", "DMBit", 2, 0, 2, FALSE, FALSE),
        Read("uint16", "DMWord", 0, 0, 0, FALSE, FALSE),
        Read("words", "other", 0, 0, 1, FALSE, FALSE),
        Read("clock", "other", 0, 0, 0, FALSE, FALSE)}

Calls == Writes \cup Reads

\* One word before the boundary, behind it, and where the end of the word wraps.
WordsAtTheEnd == {Read("words", "DMWord", address, 0, 1, FALSE, FALSE) : address \in {6, 7, 8, 15}}
=============================================================================
