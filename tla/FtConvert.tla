----------------------------- MODULE FtConvert -----------------------------
(***************************************************************************)
(* What happens to one reading of the force/torque sensor: the four bytes  *)
(* of a CAN frame become a string of hexadecimal digits, a string of bits, *)
(* a long, a force, and the int8_t that the EtherCAT master reads as       *)
(* uint8_t (util.h and the conversions of main.cpp, simple_test3.c).  The  *)
(* width is a parameter, so that every reading can be tried; a force is    *)
(* kept in whole units, as the cast to int8_t drops the rest.              *)
(***************************************************************************)
EXTENDS Integers, Sequences, SequencesExt

CONSTANTS NumBytes,  \* bytes of a reading (4 in the code)
          LowBytes,  \* values of the bytes but the highest (0 .. 255)
          Factor     \* counts per unit: FORCE_FACTOR, TORQUE_FACTOR

Width == 8 * NumBytes

VARIABLES pc, buf, count, published
vars == <<pc, buf, count, published>>

\* Arithmetic of a long: results wrap (the build does for signed ones, too).
Wrap(n, w) == ((n + 2 ^ (w - 1)) % 2 ^ w) - 2 ^ (w - 1)

\* String(b, HEX) has no leading zero; the conversions put it in front of a
\* byte that needs it, most significant byte first.
Hex(b) == IF b < 16 THEN <<b>> ELSE <<b \div 16, b % 16>>
\* Wrong: only the zero byte gets a leading zero.
HexByte_Wrong(b) == IF b = 0 THEN <<0>> \o Hex(b) ELSE Hex(b)
HexByte(b) == IF b <= 15 THEN <<0>> \o Hex(b) ELSE Hex(b)
HexString(bytes) ==
  FoldLeft(LAMBDA s, i : s \o HexByte(bytes[NumBytes - i]), << >>,
           [k \in 1 .. NumBytes |-> k - 1])

Nibble(d) == <<d \div 8, (d \div 4) % 2, (d \div 2) % 2, d % 2>>
hexToBin(digits) == FoldLeft(LAMBDA s, d : s \o Nibble(d), << >>, digits)

\* integerPow(2, e), by repeated squaring.
integerPow[e \in Nat] ==
  CASE e = 0     -> 1
    [] e > 0 /\ e % 2 = 0 -> Wrap(integerPow[e \div 2] * integerPow[e \div 2], Width)
    [] OTHER     -> Wrap(2 * integerPow[e - 1], Width)

\* The sum of the powers of the bits that are set, at most Width of them.
SumPowers(bits) ==
  FoldLeft(LAMBDA r, i : IF i <= Len(bits) /\ bits[i] = 1
                         THEN Wrap(r + integerPow[Width - i], Width) ELSE r,
           0, [i \in 1 .. Width |-> i])
Invert(bits) == [i \in DOMAIN bits |-> 1 - bits[i]]
Negate(r) == Wrap(-1 * Wrap(r + 1, Width), Width)
binToDec(bits) ==
  IF bits[1] = 1 THEN Negate(SumPowers(Invert(bits))) ELSE SumPowers(bits)

\* A double's integer part, which is what the cast keeps of it.
Truncate(n, f) == IF n >= 0 THEN n \div f ELSE -((-n) \div f)

\* sendToMaster: an upper limit, then the cast.
ToInt8(v) == Wrap(IF v > 255 THEN 255 ELSE v, 8)

\* soem_getInputPDO returns the byte as uint8_t.
getInputPDO(byte) == byte % 256

-----------------------------------------------------------------------------
Init ==
  /\ pc = "received" /\ count = 0 /\ published = 0
  /\ buf \in {[i \in 1 .. NumBytes |-> IF i = NumBytes THEN hi ELSE lo[i]] :
                hi \in 0 .. 255, lo \in [1 .. NumBytes - 1 -> LowBytes]}

\* convertToForce (convertToTorque): count is the value before the division.
Convert ==
  /\ pc = "received"
  /\ count' = binToDec(hexToBin(HexString(buf)))
  /\ pc' = "converted"
  /\ UNCHANGED <<buf, published>>

sendToMaster ==
  /\ pc = "converted"
  /\ published' = ToInt8(Truncate(count, Factor))
  /\ pc' = "published"
  /\ UNCHANGED <<buf, count>>

Spec == Init /\ [][Convert \/ sendToMaster]_vars

-----------------------------------------------------------------------------
\* The reading as the sensor means it: little-endian two's complement.
Reading ==
  Wrap(FoldLeft(LAMBDA n, i : n + buf[i] * 2 ^ (8 * (i - 1)), 0,
                [i \in 1 .. NumBytes |-> i]), Width)
Force == Truncate(Reading, Factor)

\* The way over strings yields the two's complement number of the bytes, for
\* every reading: leading zeros, negative ones, and the most negative one,
\* whose intermediate result does not fit in a long (util.h, convertToForce).
ConvertsExactly == pc # "received" => count = Reading

\* A force that fits in an int8_t arrives at the master as the byte that
\* represents it: taken back as signed it is the force.
SmallForceArrives ==
  pc = "published" /\ Force \in -128 .. 127 =>
    Wrap(getInputPDO(published), 8) = Force /\ published \in -128 .. 127
=============================================================================
