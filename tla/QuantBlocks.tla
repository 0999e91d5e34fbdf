----------------------------- MODULE QuantBlocks -----------------------------
(* The blocks of ggml's quantised types: which bits of a block make the      *)
(* weight of its element y, its scale and what is taken from it, as the      *)
(* scalar dot products of quants_generic.c read them.  Bits are not given    *)
(* values: a number is the set of the bits it is put together from.          *)
EXTENDS Integers, Sequences, FiniteSets

\* `width` bits of an array from `bit` on, from bit `to` of the number on.
Field(array, bit, width, to) == {<<array, bit + b, to + b>> : b \in 0..width - 1}
Nib(array, byte, high)  == Field(array, 8 * byte + 4 * high, 4, 0)
Octet(array, byte)      == Field(array, 8 * byte, 8, 0)
Less(n)                 == {<<"less", n>>}
Digit(array, byte, pow) == {<<"trit", array, byte, pow>>}
\* The j-th number of the grid entry an index picks, and the j-th of the eight
\* signs that seven bits, or one bit of its own, stand for.
GridEntry(index, j) == index \cup {<<"grid", j>>}
Signs7(bits, j)     == bits \cup {<<"ksigns", j>>}
SignBit(array, bit) == Field(array, bit, 1, 0)

\* What is multiplied by element y of the other operand: a number, its sign,
\* its scale past the block's own, and an offset (a constant, or a minimum).
Weight(number, sign, scale, offset) == [number |-> number, sign |-> sign, scale |-> scale, offset |-> offset]
Plain(number, offset) == Weight(number, {}, {}, offset)

-----------------------------------------------------------------------------
\* Blocks of 32: the low nibbles are the first half, the high ones the second.
Nibble32(y) == Nib("qs", y % 16, y \div 16)
Fifth(y)    == Field("qh", y, 1, 4)
Q4_0(y)   == Plain(Nibble32(y), Less(8))
Q4_1(y)   == Plain(Nibble32(y), {<<"m">>})
Mxfp4(y)  == Plain(Nibble32(y), {})
Iq4_nl(y) == Plain(Nibble32(y), {})
Q5_0(y)   == Plain(Nibble32(y) \cup Fifth(y), Less(16))
Q5_1(y)   == Plain(Nibble32(y) \cup Fifth(y), {<<"m">>})
Q8_0(y)   == Plain(Octet("qs", y), {})
Q1_0(y)   == Weight(Field("qs", y, 1, 0), {}, {<<"dy", y \div 32>>}, {})

\* Ternary: five digits in a byte, or four in the bytes of qh; two bits.
Tq1_0(y) ==
    Plain(IF y < 160 THEN Digit("qs", y % 32, y \div 32)
          ELSE IF y < 240 THEN Digit("qs", 32 + ((y - 160) % 16), (y - 160) \div 16)
          ELSE Digit("qh", (y - 240) % 4, (y - 240) \div 4), Less(1))
TwoBits(y) == Field("qs", 8 * (32 * (y \div 128) + (y % 32)) + 2 * ((y \div 32) % 4), 2, 0)
Tq2_0(y) == Plain(TwoBits(y), Less(1))
\* The digit a multiplication by a power of three moves to the top.
TritOf(q) == (q * 3) \div 256

-----------------------------------------------------------------------------
\* Six-bit scales: of q3_K, and the scale and minimum of q4_K and q5_K.
Scale3(s) == Field("scales", 8 * (s % 8) + 4 * (s \div 8), 4, 0)
             \cup Field("scales", 8 * (8 + (s % 4)) + 2 * (s \div 4), 2, 4)
ScaleK4(s) ==
    IF s < 4 THEN Field("scales", 8 * s, 6, 0)
    ELSE Nib("scales", 4 + s, 0) \cup Field("scales", 8 * (s - 4) + 6, 2, 4)
MinK4(s) ==
    IF s < 4 THEN Field("scales", 8 * (4 + s), 6, 0)
    ELSE Nib("scales", 4 + s, 1) \cup Field("scales", 8 * s + 6, 2, 4)

NibbleK(y) == Nib("qs", 32 * (y \div 64) + (y % 32), (y \div 32) % 2)
Q2_K(y) == Weight(TwoBits(y), {}, Nib("scales", y \div 16, 0), Nib("scales", y \div 16, 1))
Q3_K(y) == Weight(TwoBits(y) \cup Field("hmask", 8 * (y % 32) + y \div 32, 1, 2), {},
                  Scale3(y \div 16) \cup Less(32), Less(4))
Q4_K(y) == Weight(NibbleK(y), {}, ScaleK4(y \div 32), MinK4(y \div 32))
Q5_K(y) == Weight(NibbleK(y) \cup Field("qh", 8 * (y % 32) + y \div 32, 1, 4), {},
                  ScaleK4(y \div 32), MinK4(y \div 32))
Q6_K(y) ==
    LET r == (y \div 32) % 4
    IN  Weight(Nib("ql", 64 * (y \div 128) + 32 * (r % 2) + (y % 32), r \div 2)
                 \cup Field("qh", 8 * (32 * (y \div 128) + (y % 32)) + 2 * r, 2, 4), {},
               Octet("scales", y \div 16), Less(32))
Iq4_xs(y) ==
    LET ib == y \div 32
    IN  Weight(Nib("qs", 16 * ib + (y % 16), (y \div 16) % 2), {},
               Nib("scales_l", ib \div 2, ib % 2) \cup Field("scales_h", 2 * ib, 2, 4) \cup Less(32), {})

-----------------------------------------------------------------------------
\* Grids: groups of eight elements, four groups in each 32.
Iq2_xxs(y) ==
    LET ib == y \div 32  g == (y \div 8) % 4
    IN  Weight(GridEntry(Octet("qs", 8 * ib + g), y % 8),
               Signs7(Field("qs", 64 * ib + 32 + 7 * g, 7, 0), y % 8), Field("qs", 64 * ib + 60, 4, 0), {})
Iq2_xs(y) ==
    LET u16 == y \div 8
    IN  Weight(GridEntry(Field("qs", 16 * u16, 9, 0), y % 8), Signs7(Field("qs", 16 * u16 + 9, 7, 0), y % 8),
               Nib("scales", y \div 32, (y \div 16) % 2), {})
Iq2_s(y) ==
    LET g == y \div 8
    IN  Weight(GridEntry(Octet("qs", g) \cup Field("qh", 2 * g, 2, 8), y % 8), SignBit("signs", y),
               Nib("scales", y \div 32, (y \div 16) % 2), {})
Iq3_xxs(y) ==
    LET ib == y \div 32
    IN  Weight(GridEntry(Octet("qs", y \div 4), y % 4),
               Signs7(Field("gas", 32 * ib + 7 * ((y \div 8) % 4), 7, 0), y % 8), Field("gas", 32 * ib + 28, 4, 0), {})
Iq3_s(y) ==
    Weight(GridEntry(Octet("qs", y \div 4) \cup Field("qh", y \div 4, 1, 8), y % 4), SignBit("signs", y),
           Nib("scales", y \div 64, (y \div 32) % 2), {})
Iq1_s(y) ==
    LET ib == y \div 32
    IN  Weight(GridEntry(Octet("qs", y \div 8) \cup Field("qh", 16 * ib + 3 * ((y \div 8) % 4), 3, 8), y % 8), {},
               Field("qh", 16 * ib + 12, 3, 0), {<<"delta">>} \cup SignBit("qh", 16 * ib + 15))
Iq1_m(y) ==
    LET ib == y \div 32  g == y \div 8
    IN  Weight(GridEntry(Octet("qs", g) \cup Field("qh", 4 * g, 3, 8), y % 8), {},
               Field("scales", 16 * (ib \div 2) + 6 * (ib % 2) + 3 * ((y \div 16) % 2), 3, 0),
               {<<"delta">>} \cup SignBit("qh", 4 * g + 3))

\* The table ksigns_iq2xs: the eighth sign makes the number of minuses even.
BitOf(v, i) == (v \div 2^i) % 2
Parity(v)   == (BitOf(v, 0) + BitOf(v, 1) + BitOf(v, 2) + BitOf(v, 3) + BitOf(v, 4) + BitOf(v, 5) + BitOf(v, 6)) % 2
KSigns(v)   == v + 128 * Parity(v)

\* The scalar kernels, by type.
Types32 == {"q4_0", "q4_1", "mxfp4", "iq4_nl", "q5_0", "q5_1", "q8_0"}
TypesK  == {"tq1_0", "tq2_0", "q2_K", "q3_K", "q4_K", "q5_K", "q6_K", "iq4_xs", "iq2_xxs",
            "iq2_xs", "iq2_s", "iq3_xxs", "iq3_s", "iq1_s", "iq1_m"}
QuantTypes == Types32 \cup TypesK \cup {"q1_0"}
BlockLength(type) == IF type \in Types32 THEN 32 ELSE IF type = "q1_0" THEN 128 ELSE 256
Scalar(type, y) ==
    CASE type = "q4_0" -> Q4_0(y)       [] type = "q4_1" -> Q4_1(y)     [] type = "mxfp4" -> Mxfp4(y)
      [] type = "iq4_nl" -> Iq4_nl(y)   [] type = "q5_0" -> Q5_0(y)     [] type = "q5_1" -> Q5_1(y)
      [] type = "q8_0" -> Q8_0(y)       [] type = "q1_0" -> Q1_0(y)     [] type = "tq1_0" -> Tq1_0(y)
      [] type = "tq2_0" -> Tq2_0(y)     [] type = "q2_K" -> Q2_K(y)     [] type = "q3_K" -> Q3_K(y)
      [] type = "q4_K" -> Q4_K(y)       [] type = "q5_K" -> Q5_K(y)     [] type = "q6_K" -> Q6_K(y)
      [] type = "iq4_xs" -> Iq4_xs(y)   [] type = "iq2_xxs" -> Iq2_xxs(y) [] type = "iq2_xs" -> Iq2_xs(y)
      [] type = "iq2_s" -> Iq2_s(y)     [] type = "iq3_xxs" -> Iq3_xxs(y) [] type = "iq3_s" -> Iq3_s(y)
      [] type = "iq1_s" -> Iq1_s(y)     [] OTHER -> Iq1_m(y)
=============================================================================
