-------------------------------- MODULE Bcd --------------------------------
(***************************************************************************)
(* Binary coded decimals (driver.go) and the clock ReadClock makes of them.*)
(* A BCD byte is <<hi, lo>>, two numbers of four bits; a number is encoded *)
(* by its digits, most significant first, and a last lo of 15 if they are  *)
(* odd in number.  A uint64 has Wide values: 2^64 in the code.             *)
(***************************************************************************)
EXTENDS Integers, Sequences

CONSTANT Wide

ASSUME WideAssumption == Wide \in Nat /\ Wide % 2 = 0 /\ Wide > 18

Filler == 15

\* The remainders by ten, the last first, until the quotient is 0; 0 has one digit.
DigitsOf(x) ==
  LET of[y \in 0 .. x] == IF y < 10 THEN <<y>> ELSE Append(of[y \div 10], y % 10)
  IN  of[x]

\* Slip: the last nibble of an odd number of digits is a 0, not the filler.
SlipEncodeBCD(x) ==
  LET d == DigitsOf(x)
      Nibble(j) == IF j <= Len(d) THEN d[j] ELSE 0
  IN  [i \in 1 .. (Len(d) + 1) \div 2 |-> <<Nibble(2 * i - 1), Nibble(2 * i)>>]

encodeBCD(x) ==
  LET d == DigitsOf(x)
      Nibble(j) == IF j <= Len(d) THEN d[j] ELSE Filler
  IN  [i \in 1 .. (Len(d) + 1) \div 2 |-> <<Nibble(2 * i - 1), Nibble(2 * i)>>]

-----------------------------------------------------------------------------
Refused == -1  \* BCDBadDigitError or BCDOverflowError; the number returned with it is 0

Truncated(n) == IF n < Wide THEN n ELSE n % Wide

\* Slip: the sum is not looked at, only the product.
SlipTimesTen(x, digit) ==
  LET x5 == Truncated(5 * x)
  IN  IF x5 >= Wide \div 2 THEN Refused ELSE Truncated(2 * x5 + digit)

\* x5 is x<<2 + x in 64 bits; ^digit is Wide - 1 - digit.
timesTenPlusCatchingOverflow(x, digit) ==
  LET x5 == Truncated(5 * x)
  IN  IF x5 >= Wide \div 2 \/ 2 * x5 > Wide - 1 - digit THEN Refused ELSE 2 * x5 + digit

Digit(x, d) ==
  IF x = Refused \/ d > 9 THEN Refused ELSE timesTenPlusCatchingOverflow(x, d)

decodeBCD(bcd) ==
  LET upTo[i \in 0 .. Len(bcd)] ==
        IF i = 0 THEN 0
        ELSE LET hi == Digit(upTo[i - 1], bcd[i][1])
             IN  IF bcd[i][2] = Filler /\ i = Len(bcd) THEN hi ELSE Digit(hi, bcd[i][2])
  IN  upTo[Len(bcd)]

-----------------------------------------------------------------------------
\* What is left of a field when the error is ignored.
Field(bcd, i) == LET x == decodeBCD(<<bcd[i]>>) IN IF x = Refused THEN 0 ELSE x

\* Slip: the window is the other century's.
SlipYear(year) == IF year < 50 THEN year + 1900 ELSE year + 2000

Year(year) == IF year < 50 THEN year + 2000 ELSE year + 1900

\* year, month, day, hour, minute, second, as given to time.Date
ReadClock(bcd) ==
  [i \in 1 .. 6 |-> IF i = 1 THEN Year(Field(bcd, 1)) ELSE Field(bcd, i)]
=============================================================================
