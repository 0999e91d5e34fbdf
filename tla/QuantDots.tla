------------------------------ MODULE QuantDots ------------------------------
(* The dot products of quantised rows: the AVX2 kernels of quants_x86.c, the *)
(* NEON and scalar ones of ds4.c, the dequantisers, and the AVX and CUDA     *)
(* kernels of csrc for IQ2_XS.  A step is one iteration over the blocks of a *)
(* row; what it adds is written in the order of the kernel's registers and   *)
(* lanes: which element of the other operand, and which weight.              *)
EXTENDS QuantBlocks

VARIABLES
    dot,    \* the kernel that runs: [type, impl, rows, blocks], << >> for none
    ib,     \* the block it has come to
    sums    \* sums[r][b]: what each iteration added for block b of row r

qvars == <<dot, ib, sums>>

-----------------------------------------------------------------------------
\* Registers of 32 lanes.
BytesFromNibbles32(lane) == IF lane < 16 THEN Nib("qs", lane, 0) ELSE Nib("qs", lane - 16, 1)
BytesFromBits32(array, lane, to) == Field(array, 8 * (lane \div 8) + (lane % 8), 1, to)
\* The index of the scale of a lane, from the shuffle tables.
\* Were the second row of the table the first again.
FirstScaleShuffle(i, lane) == 2 * i
ScaleShuffle(i, lane)      == 2 * i + lane \div 16
ScaleShuffleK4(i, lane)    == i
\* The sum of sixteen elements that a minimum or an offset multiplies.
BSum(reg, lane) == 2 * reg + lane \div 16

Q4_0_avx2(reg, lane)   == Plain(BytesFromNibbles32(lane), Less(8))
Q4_1_avx2(reg, lane)   == Plain(BytesFromNibbles32(lane), {<<"m">>})
Mxfp4_avx2(reg, lane)  == Plain(BytesFromNibbles32(lane), {})
Iq4_nl_avx2(reg, lane) == Plain(BytesFromNibbles32(lane), {})
Q5_0_avx2(reg, lane)   == Plain(BytesFromNibbles32(lane) \cup BytesFromBits32("qh", lane, 4), Less(16))
Q5_1_avx2(reg, lane)   == Plain(BytesFromNibbles32(lane) \cup BytesFromBits32("qh", lane, 4), {<<"m">>})
Q8_0_avx2(reg, lane)   == Plain(Octet("qs", lane), {})
Q1_0_avx2(reg, lane)   ==
    Weight(Field("qs", 32 * reg + 8 * (lane \div 8) + (lane % 8), 1, 0), {}, {<<"dy", reg>>}, {})

\* qx0 to qx4 hold the first 32 bytes times powers of three; the last three
\* registers put two halves of 16 together, the very last one the digits of qh.
Tq1_0_avx2(reg, lane) ==
    Plain(CASE reg < 5 -> Digit("qs", lane, reg)
            [] reg \in {5, 6} -> Digit("qs", 32 + (lane % 16), 2 * (reg - 5) + lane \div 16)
            [] reg = 7 /\ lane < 16 -> Digit("qs", 32 + lane, 4)
            [] OTHER -> Digit("qh", (lane - 16) % 4, (lane - 16) \div 4), Less(1))
\* q5_0 puts ones above a nibble without its fifth bit, as a signed byte.
FifthOnes(n, bit) == IF bit = 1 THEN n ELSE n + 240 - 256
\* The top digit by saturating subtraction and rounding averages.
Avg(a, b)     == (a + b + 1) \div 2
SubsOne(q)    == IF q = 0 THEN 0 ELSE q - 1
TritByAvg(q)  == (Avg(SubsOne(q), Avg(SubsOne(q), 0)) \div 64) % 4

\* Shifted pairs of bits: two halves of the block, four registers each.
ShiftedPair(reg, lane) == Field("qs", 8 * (32 * (reg \div 4) + lane) + 2 * (reg % 4), 2, 0)
Tq2_0_avx2(reg, lane) == Plain(ShiftedPair(reg, lane), Less(1))
Q2_K_avx2(reg, lane) ==
    Weight(ShiftedPair(reg, lane), {}, Nib("scales", 8 * (reg \div 4) + ScaleShuffle(reg % 4, lane), 0),
           Nib("scales", BSum(reg, lane), 1))
Q3_K_avx2(reg, lane) ==
    Weight(ShiftedPair(reg, lane) \cup Field("hmask", 8 * lane + reg, 1, 2), {},
           Scale3(8 * (reg \div 4) + ScaleShuffle(reg % 4, lane)) \cup Less(32), Less(4))
Q4_K_avx2(reg, lane) ==
    Weight(Nib("qs", 32 * (reg \div 2) + lane, reg % 2), {}, ScaleK4(ScaleShuffleK4(reg, lane)), MinK4(BSum(reg, lane) \div 2))
Q5_K_avx2(reg, lane) ==
    Weight(Nib("qs", 32 * (reg \div 2) + lane, reg % 2) \cup Field("qh", 8 * lane + reg, 1, 4), {},
           ScaleK4(ScaleShuffleK4(reg, lane)), MinK4(BSum(reg, lane) \div 2))
Q6_K_avx2(reg, lane) ==
    LET j == reg \div 4  r == reg % 4
    IN  Weight(Nib("ql", 64 * j + 32 * (r % 2) + lane, r \div 2) \cup Field("qh", 8 * (32 * j + lane) + 2 * r, 2, 4), {},
               Octet("scales", ScaleShuffle(4 * j + r, lane)), Less(32))
Iq4_xs_avx2(reg, lane) ==
    Weight(IF lane < 16 THEN Nib("qs", 16 * reg + lane, 0) ELSE Nib("qs", 16 * reg + lane - 16, 1), {},
           Nib("scales_l", reg \div 2, reg % 2) \cup Field("scales_h", 4 * (reg \div 2) + 2 * (reg % 2), 2, 4) \cup Less(32), {})

\* Grids: four entries of eight lanes to a register, or eight of four.
Iq2_xxs_avx2(reg, lane) ==
    LET aux8 == 16 * (reg \div 2) + 8 * (reg % 2)       \* the first byte of this half of aux32
    IN  Weight(GridEntry(Octet("qs", aux8 + lane \div 8), lane % 8),
               Signs7(Field("qs", 8 * (aux8 + 4) + 7 * (lane \div 8), 7, 0), lane % 8), Field("qs", 8 * (aux8 + 4) + 28, 4, 0), {})
Iq2_xs_avx2(reg, lane) ==
    LET u16 == 16 * (reg \div 4) + 4 * (reg % 4) + lane \div 8
        scale == ScaleShuffle(4 * (reg \div 4) + (reg % 4), lane)
    IN  Weight(GridEntry(Field("qs", 16 * u16, 9, 0), lane % 8), Signs7(Field("qs", 16 * u16 + 9, 7, 0), lane % 8),
               Nib("scales", scale \div 2, scale % 2), {})
Iq2_s_avx2(reg, lane) ==
    LET l == lane \div 8
    IN  Weight(GridEntry(Octet("qs", 4 * reg + l) \cup Field("qh", 8 * reg + 2 * l, 2, 8), lane % 8),
               SignBit("signs", 8 * (4 * reg + l) + (lane % 8)), Nib("scales", ScaleShuffleK4(reg, lane), lane \div 16), {})
Iq3_xxs_avx2(reg, lane) ==
    Weight(GridEntry(Octet("qs", 8 * reg + lane \div 4), lane % 4),
           Signs7(Field("gas", 32 * reg + 7 * (lane \div 8), 7, 0), lane % 8), Field("gas", 32 * reg + 28, 4, 0), {})
Iq3_s_avx2(reg, lane) ==
    Weight(GridEntry(Octet("qs", 8 * reg + lane \div 4) \cup Field("qh", 8 * reg + lane \div 4, 1, 8), lane % 4),
           SignBit("signs", 8 * (4 * reg + lane \div 8) + (lane % 8)), Nib("scales", reg \div 2, reg % 2), {})
Iq1_s_avx2(reg, lane) ==
    Weight(GridEntry(Octet("qs", 4 * reg + lane \div 8) \cup Field("qh", 16 * reg + 3 * (lane \div 8), 3, 8), lane % 8), {},
           Field("qh", 16 * reg + 12, 3, 0), {<<"delta">>} \cup SignBit("qh", 16 * reg + 15))
Iq1_m_avx2(reg, lane) ==
    LET l == lane \div 8  nib == 8 * (2 * reg + l \div 2) + 4 * (l % 2)
        shift == (IF reg % 2 = 0 THEN 0 ELSE 6) + (IF lane < 16 THEN 0 ELSE 3)
    IN  Weight(GridEntry(Octet("qs", 4 * reg + l) \cup Field("qh", nib, 3, 8), lane % 8), {},
               Field("scales", 16 * (reg \div 2) + shift, 3, 0), {<<"delta">>} \cup SignBit("qh", nib + 3))

Avx2(type, reg, lane) ==
    CASE type = "q4_0" -> Q4_0_avx2(reg, lane)       [] type = "q4_1" -> Q4_1_avx2(reg, lane)
      [] type = "mxfp4" -> Mxfp4_avx2(reg, lane)     [] type = "iq4_nl" -> Iq4_nl_avx2(reg, lane)
      [] type = "q5_0" -> Q5_0_avx2(reg, lane)       [] type = "q5_1" -> Q5_1_avx2(reg, lane)
      [] type = "q8_0" -> Q8_0_avx2(reg, lane)       [] type = "q1_0" -> Q1_0_avx2(reg, lane)
      [] type = "tq1_0" -> Tq1_0_avx2(reg, lane)     [] type = "tq2_0" -> Tq2_0_avx2(reg, lane)
      [] type = "q2_K" -> Q2_K_avx2(reg, lane)       [] type = "q3_K" -> Q3_K_avx2(reg, lane)
      [] type = "q4_K" -> Q4_K_avx2(reg, lane)       [] type = "q5_K" -> Q5_K_avx2(reg, lane)
      [] type = "q6_K" -> Q6_K_avx2(reg, lane)       [] type = "iq4_xs" -> Iq4_xs_avx2(reg, lane)
      [] type = "iq2_xxs" -> Iq2_xxs_avx2(reg, lane) [] type = "iq2_xs" -> Iq2_xs_avx2(reg, lane)
      [] type = "iq2_s" -> Iq2_s_avx2(reg, lane)     [] type = "iq3_xxs" -> Iq3_xxs_avx2(reg, lane)
      [] type = "iq3_s" -> Iq3_s_avx2(reg, lane)     [] type = "iq1_s" -> Iq1_s_avx2(reg, lane)
      [] OTHER -> Iq1_m_avx2(reg, lane)

\* The eight signs from a nibble's parity: bits 4 to 6 folded onto 0 to 2.
BitHelper(nib) == 128 * ((BitOf(nib, 0) + BitOf(nib, 1) + BitOf(nib, 2) + BitOf(nib, 3)) % 2)
Folded(v) == (v % 16) + (v \div 16) - 2 * (BitOf(v, 0) * BitOf(v, 4) + 2 * BitOf(v, 1) * BitOf(v, 5) + 4 * BitOf(v, 2) * BitOf(v, 6))
FullSignBits(v) == v + BitHelper(Folded(v))
\* Of the GPU: 0x08040201 and 0x80402010 pick the signs of four bytes each.
UnpackKSigns(v) == IF Parity(v) = 1 THEN (v + 128) % 256 ELSE v

-----------------------------------------------------------------------------
\* Kernels that go through the elements one by one, or sixteen at a time: what
\* their p-th product takes.  Most meet the elements in order.
DotQ2_16(byte, i, shift) == Field("qs", 8 * (byte + i) + shift, 2, 0)
Q2_K_ds4(p) ==
    LET k == p \div 128  j == (p \div 32) % 4  half == (p \div 16) % 2  is == 8 * k + 2 * j + half
    IN  Weight(DotQ2_16(32 * k + 16 * half, p % 16, 2 * j), {}, Nib("scales", is, 0), Nib("scales", p \div 16, 1))
Q2_K_neon(p) ==
    LET j == p \div 128  s == (p \div 32) % 4  hi == (p \div 16) % 2  is == 8 * j
    IN  Weight(Field("qs", 8 * (32 * j + 16 * hi + (p % 16)) + 2 * s, 2, 0), {},
               Nib("scales", is + hi + 2 * s, 0), Nib("scales", p \div 16, 1))
DequantizeRow_q2_K(p) ==
    LET n == p \div 128  j == (p \div 32) % 4  is == p \div 16  sc == Nib("scales", is, 0)
    IN  Weight(Field("qs", 8 * (32 * n + (p % 32)) + 2 * j, 2, 0), {}, sc, Nib("scales", is, 1))

\* The grid with its signs applied beforehand, an entry for each index and signs.
SignedGrid(index, signs, j) == <<GridEntry(index, j), Signs7(signs, j)>>
Iq2_xxs_ds4(p) ==
    LET ib32 == p \div 32  l == 2 * ((p \div 16) % 2) + ((p \div 8) % 2)
        v == SignedGrid(Octet("qs", 8 * ib32 + l), Field("qs", 64 * ib32 + 32 + 7 * l, 7, 0), p % 8)
    IN  Weight(v[1], v[2], Field("qs", 64 * ib32 + 60, 4, 0), {})
\* Four vectors for two groups of 32: bytes 0 to 3 and 8 to 11 of aux32.
Iq2_xxs_neon(p) ==
    LET u == (p \div 16) % 4  word == IF u < 2 THEN 1 ELSE 3  first == 16 * (p \div 64)
        n == 2 * (u % 2) + ((p \div 8) % 2)
    IN  Weight(GridEntry(Octet("qs", first + 4 * (word - 1) + n), p % 8),
               Signs7(Field("qs", 8 * (first + 4 * word) + 7 * n, 7, 0), p % 8),
               Field("qs", 8 * (first + 4 * word) + 28, 4, 0), {})
DequantizeRow_iq2_xxs(p) ==
    LET ib32 == p \div 32  l == (p \div 8) % 4
    IN  Weight(GridEntry(Octet("qs", 8 * ib32 + l), p % 8), Signs7(Field("qs", 64 * ib32 + 32 + 7 * l, 7, 0), p % 8),
               Field("qs", 64 * ib32 + 60, 4, 0), {})

\* IQ2_XS: the grid entry and signs of a 16-bit word, and a nibble of scales.
Iq2_xs_word(u16, j, scale) ==
    Weight(GridEntry(Field("qs", 16 * u16, 9, 0), j), Signs7(Field("qs", 16 * u16 + 9, 7, 0), j), scale, {})
DequantizeRow_iq2_xs(p) ==
    LET ib32 == p \div 32  l == (p \div 8) % 4
    IN  Iq2_xs_word(4 * ib32 + l, p % 8, Nib("scales", ib32, l \div 2))
\* AVX without AVX2: half registers of 16 lanes, eight to an iteration.
Iq2_xs_avx(p) ==
    LET it == p \div 128  k == (p \div 32) % 4  half == (p \div 16) % 2
        scale == ScaleShuffle(4 * it + k, 16 * half)
    IN  Iq2_xs_word(16 * it + 4 * k + 2 * half + (p % 16) \div 8, p % 8, Nib("scales", scale \div 2, scale % 2))
\* CUDA: thread il * 8 + ib of 32 writes eight elements.
DequantizeBlock_iq2_xs(p) ==
    LET tid == p \div 8  il == tid \div 8  sub == tid % 8
    IN  <<32 * sub + 8 * il + (p % 8), Iq2_xs_word(4 * sub + il, p % 8, Nib("scales", sub, il \div 2))>>
\* Two bytes at a time from qs, products of four bytes with dp4a.
VecDot_iq2_xs_q8_1(p) ==
    LET iqs == 2 * (p \div 32)  l0 == 2 * ((p \div 8) % 4)  high == (p \div 4) % 2
    IN  <<32 * (iqs \div 2) + 4 * (l0 + high) + (p % 4),
          Iq2_xs_word(2 * iqs + l0 \div 2, 4 * high + (p % 4), Nib("scales", iqs \div 2, IF l0 < 4 THEN 0 ELSE 1))>>
\* The tile of MMQ: integer `slot` of a row holds four weights, float slot
\* \div 4 their scale.
LoadTiles_iq2_xs(p) ==
    LET slot == p \div 4  kqsx == slot \div 8  l == (slot % 8) \div 2  high == slot % 2
    IN  <<4 * slot + (p % 4),
          Iq2_xs_word(4 * kqsx + l, 4 * high + (p % 4), Nib("scales", kqsx, (slot \div 4) % 2))>>

Product(k, p) ==
    CASE k.impl = "avx2"       -> <<p, Avx2(k.type, p \div 32, p % 32)>>
      [] k.impl = "ds4"        -> <<p, IF k.type = "q2_K" THEN Q2_K_ds4(p) ELSE Iq2_xxs_ds4(p)>>
      [] k.impl = "neon"       -> <<p, IF k.type = "q2_K" THEN Q2_K_neon(p) ELSE Iq2_xxs_neon(p)>>
      [] k.impl = "dequantize" -> <<p, IF k.type = "q2_K" THEN DequantizeRow_q2_K(p)
                                       ELSE IF k.type = "iq2_xxs" THEN DequantizeRow_iq2_xxs(p)
                                       ELSE DequantizeRow_iq2_xs(p)>>
      [] k.impl = "avx"        -> <<p, Iq2_xs_avx(p)>>
      [] k.impl = "cuda"       -> DequantizeBlock_iq2_xs(p)
      [] k.impl = "dp4a"       -> VecDot_iq2_xs_q8_1(p)
      [] OTHER                 -> LoadTiles_iq2_xs(p)

DotKernels ==
    ({[type |-> t, impl |-> "avx2", rows |-> 1] : t \in QuantTypes}
     \cup {[type |-> t, impl |-> i, rows |-> 1] : t \in {"q2_K", "iq2_xxs"}, i \in {"ds4", "neon", "dequantize"}}
     \cup {[type |-> "iq2_xxs", impl |-> "neon", rows |-> 2]})      \* the pair of rows with one other operand
    \cup {[type |-> "iq2_xs", impl |-> i, rows |-> 1] : i \in {"dequantize", "avx", "cuda", "dp4a", "tiles"}}

-----------------------------------------------------------------------------
\* The AVX2 kernels of mxfp4 and iq4_nl take two blocks at a time and leave an
\* odd one to the scalar loop behind them.
Paired(k) == k.impl = "avx2" /\ k.type \in {"mxfp4", "iq4_nl"}
BlockProducts(k, b) ==
    LET elements == 0..BlockLength(k.type) - 1
    IN  IF Paired(k) /\ b + 1 = k.blocks /\ b % 2 = 0 THEN {<<y, Scalar(k.type, y)>> : y \in elements}
        ELSE {Product(k, p) : p \in elements}

IdleDot == dot = << >> /\ ib = 0 /\ sums = << >>
StartDot(kernel, blocks) ==
    /\ dot = [type |-> kernel.type, impl |-> kernel.impl, rows |-> kernel.rows, blocks |-> blocks]
    /\ ib = 0 /\ sums = [r \in 1..kernel.rows |-> [b \in 0..blocks - 1 |-> << >>]]
DotStep ==
    /\ dot # << >> /\ ib < dot.blocks
    /\ LET taken == IF Paired(dot) /\ ib + 1 < dot.blocks THEN {ib, ib + 1} ELSE {ib}
       IN  /\ sums' = [r \in DOMAIN sums |-> [b \in DOMAIN sums[r] |->
                          IF b \in taken THEN Append(sums[r][b], BlockProducts(dot, b)) ELSE sums[r][b]]]
           /\ ib' = ib + Cardinality(taken)
    /\ UNCHANGED dot
DotDone == dot # << >> => ib >= dot.blocks
=============================================================================
