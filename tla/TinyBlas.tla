------------------------------ MODULE TinyBlas ------------------------------
(* How llamafile_sgemm shares the elements of C between threads.  The float  *)
(* classes hand out blocks of tiles through the threadpool's chunk counter,  *)
(* between two barriers; the quantised and the PowerPC classes cut the       *)
(* matrix with mnpack and give each thread a slice of every cut, or, when    *)
(* the sizes allow, tile it over panels of k.  What a tile computes is left  *)
(* out: an element counts the panels of k that were summed into it.          *)
EXTENDS Integers, Sequences, FiniteSets

VARIABLES
    product,    \* the request: see the record of MCDs4Kernels
    threads,    \* what each thread is at
    chunk,      \* the chunk counter of the threadpool
    c           \* c[q][e]: panels of k summed into element e of the q-th C

bvars == <<product, threads, chunk, c>>

CeilDiv(a, b) == (a + b - 1) \div b
Least(a, b)   == IF a < b THEN a ELSE b

\* Tile rows, widest tile, tile rows of a block (by m) and tiles of a block.
Blocking == [
    regs32 |-> [RM |-> 4, RN |-> 6, BM |-> <<4, 2, 1>>, BN |-> 12],
    regs16 |-> [RM |-> 4, RN |-> 3, BM |-> <<4, 2, 1>>, BN |-> 24]]
BlockingRvv == [
    lmul1  |-> [RM |-> 4, RN |-> 6, BM |-> <<4, 2, 1>>, BN |-> 12],
    lmul2  |-> [RM |-> 4, RN |-> 3, BM |-> <<4, 2, 1>>, BN |-> 24],
    lmul4  |-> [RM |-> 2, RN |-> 2, BM |-> <<8, 4, 2>>, BN |-> 36]]
Families   == DOMAIN Blocking \cup DOMAIN BlockingRvv
              \cup {"Q0_ARM", "Q0_AVX32", "Q0_AVX16", "HP16_PPC", "F32_PPC", "Q0_PPC"}
Chunked(p) == p.family \in DOMAIN Blocking \cup DOMAIN BlockingRvv
BlockingOf(p) == IF p.family \in DOMAIN Blocking THEN Blocking[p.family] ELSE BlockingRvv[p.family]
BM(p) == BlockingOf(p).BM[IF p.m % 16 = 0 /\ p.m \div 16 >= p.nth THEN 1 ELSE IF p.m % 8 = 0 THEN 2 ELSE 3]

\* The requests that are not handed back to the caller.  The float classes
\* want least columns, which are more than two on ARM and on VXE.
Serves(p) ==
    CASE Chunked(p)              -> p.n >= p.least /\ p.aligned /\ p.m % 4 = 0
      [] p.family \in {"HP16_PPC", "F32_PPC"} -> p.aligned
      [] p.family = "Q0_PPC"     -> p.n >= 4 /\ p.n \notin 5..7 /\ p.m >= 4 /\ p.m \notin 5..7
      [] OTHER                   -> p.n >= 2

-----------------------------------------------------------------------------
\* The float classes: n columns in tiles of RN and RN - 1, the tiles in blocks
\* of about BN, the blocks of each row of blocks one job.
BlockSize(M, n) == LET NB == CeilDiv(n, M) IN IF n % NB = 0 THEN n \div NB ELSE n \div NB + 1
BlocPos(ib, ibN, size) == IF ib < ibN THEN ib * size ELSE ibN * size + (ib - ibN) * (size - 1)

RN(p)     == BlockSize(BlockingOf(p).RN, p.n)
XTiles(p) == CeilDiv(p.n, RN(p))
JJ_RN(p)  == XTiles(p) - (XTiles(p) * RN(p) - p.n)
NB_BN(p)  == LET BN == BlockingOf(p).BN IN IF XTiles(p) < BN THEN 1 ELSE (XTiles(p) + BN \div 2) \div BN
SizeBN(p) == CeilDiv(XTiles(p), NB_BN(p))
JJ_BN(p)  == NB_BN(p) - (NB_BN(p) * SizeBN(p) - XTiles(p))
YTiles(p) == p.m \div (BlockingOf(p).RM * BM(p))
NbJob(p)  == YTiles(p) * NB_BN(p)

\* The first columns of the tiles of job: wide ones up to jj1, the rest narrow.
TilesOf(p, job) ==
    LET jb  == job \div YTiles(p)  rn == RN(p)
        jj0 == BlocPos(BlocPos(jb, JJ_BN(p), SizeBN(p)), JJ_RN(p), rn)
        jj2 == BlocPos(BlocPos(jb + 1, JJ_BN(p), SizeBN(p)), JJ_RN(p), rn)
        jj1 == Least(jj2, JJ_RN(p) * rn)
        wide   == IF jj0 < jj1 THEN CeilDiv(jj1 - jj0, rn) ELSE 0
        start  == jj0 + wide * rn
        narrow == IF rn > 1 /\ start < jj2 THEN CeilDiv(jj2 - start, rn - 1) ELSE 0
    IN  {<<jj0 + x * rn, rn>> : x \in 0..wide - 1} \cup {<<start + x * (rn - 1), rn - 1>> : x \in 0..narrow - 1}

\* A job computes its tiles for each of its BM rows of tiles.
JobRows(p, job) == LET rows == BlockingOf(p).RM * BM(p)  ii == (job % YTiles(p)) * rows IN ii..ii + rows - 1
TimesInJob(p, job, e) ==
    IF e[1] \in JobRows(p, job)
    THEN Cardinality({tile \in TilesOf(p, job) : e[2] \in tile[1]..tile[1] + tile[2] - 1}) ELSE 0

-----------------------------------------------------------------------------
\* mnpack: the tile it cuts an a x b remainder into, <<0, 0>> for none.
ShapeArm(a, b)   == <<Least(a, 3), Least(b, 3)>>
ShapeAvx32(a, b) == <<Least(a, 4), Least(b, 4)>>
ShapeAvx16(a, b) ==
    LET r == Least(a, 4)  s == Least(b, 4)
    IN  CASE r = 4 /\ s >= 2         -> <<4, 2>>
          [] r \in {2, 3} /\ s = 4   -> <<2, 4>>
          [] r = 3 /\ s \in {2, 3}   -> <<3, 2>>
          [] OTHER                   -> <<r, s>>
ShapeHp16(a, b) ==
    CASE a >= 8 /\ b >= 8 -> <<8, 8>>
      [] a \in 4..7 /\ b >= 8 -> <<4, 8>>
      [] a >= 8 /\ b \in 4..7 -> <<8, 4>>
      [] a < 4 /\ b >= 8  -> <<a, 8>>
      [] a \in 4..7 /\ b \in 4..7 -> <<4, 4>>
      [] a > 4 /\ b < 4   -> <<4, b>>
      [] a <= 4 /\ b <= 4 -> <<a, b>>
      [] OTHER            -> <<0, 0>>
ShapePpc(a, b) ==
    CASE a >= 8 /\ b >= 8 -> <<8, 8>>
      [] a \in 4..7 /\ b >= 8 -> <<4, 8>>
      [] a >= 8 /\ b \in 4..7 -> <<8, 4>>
      [] OTHER -> <<Least(a, 4), Least(b, 4)>>
Shape(p, r) ==
    LET a == r[2] - r[1]  b == r[4] - r[3]
    IN  CASE p.family = "Q0_ARM"   -> ShapeArm(a, b)
          [] p.family = "Q0_AVX32" -> ShapeAvx32(a, b)
          [] p.family = "Q0_AVX16" -> ShapeAvx16(a, b)
          [] p.family = "HP16_PPC" -> ShapeHp16(a, b)
          [] OTHER                 -> ShapePpc(a, b)
Cuttable(p, r) == Shape(p, r)[1] # 0 /\ Shape(p, r)[2] # 0

\* A tile of eight rows or columns is saved as accumulators of four.
Accumulators(tile) ==
    (IF tile[1] = 8 THEN {0, 4} ELSE {0}) \X (IF tile[2] = 8 THEN {0, 4} ELSE {0})
TimesSaved(tile, i, j) ==
    Cardinality({acc \in Accumulators(tile) : /\ i \in acc[1]..acc[1] + Least(tile[1], 4) - 1
                                              /\ j \in acc[2]..acc[2] + Least(tile[2], 4) - 1})

\* What the duty would be rounded down.
DutyRoundedDown(p, tiles) == tiles \div p.nth
\* The slice of a cut that falls to a thread, and what it saves of an element.
Duty(p, tiles) == CeilDiv(tiles, p.nth)
Slice(p, w, tiles) == LET duty == Duty(p, tiles) IN duty * w..Least(duty * w + duty, tiles) - 1
TimesInSlice(p, w, r, e) ==
    LET tile == Shape(p, r)
        ytiles == (r[2] - r[1]) \div tile[1]  xtiles == (r[4] - r[3]) \div tile[2]
        y == (e[1] - r[1]) \div tile[1]       x == (e[2] - r[3]) \div tile[2]
    IN  IF e[1] >= r[1] /\ e[2] >= r[3] /\ y < ytiles /\ x < xtiles
           /\ y * xtiles + x \in Slice(p, w, xtiles * ytiles)
        THEN TimesSaved(tile, (e[1] - r[1]) % tile[1], (e[2] - r[3]) % tile[2]) ELSE 0

\* What is left below and beside a cut of whole tiles is cut next, if it can be.
RowCut(p, r) == r[1] + ((r[2] - r[1]) \div Shape(p, r)[1]) * Shape(p, r)[1]
ColCut(p, r) == r[3] + ((r[4] - r[3]) \div Shape(p, r)[2]) * Shape(p, r)[2]
Below(p, r)  == <<RowCut(p, r), r[2], r[3], ColCut(p, r)>>
Beside(p, r) == <<r[1], r[2], ColCut(p, r), r[4]>>
Push(p, r, stack) == IF Cuttable(p, r) THEN <<r>> \o stack ELSE stack
Remainders(p, r, stack) == Push(p, Below(p, r), Push(p, Beside(p, r), stack))

-----------------------------------------------------------------------------
\* The tiled paths: mc x nc tiles, k in panels, and the columns they cover.
TileColumns(p) ==
    IF p.family = "F32_PPC" THEN p.n
    ELSE IF p.n % 64 = 0 \/ p.n = 4 THEN p.n
    ELSE IF p.n < 64 THEN (p.n \div 8) * 8 ELSE (p.n \div 64) * 64
TileRows(p) == IF p.family = "F32_PPC" THEN 256 ELSE 64
TileWidth(p) ==
    LET n == TileColumns(p)
    IN  IF p.family = "F32_PPC" THEN 256
        ELSE IF n % 64 = 0 THEN 64 ELSE IF n = p.n THEN n
        ELSE IF n % 32 = 0 THEN 32 ELSE IF n % 24 = 0 THEN 24 ELSE IF n % 16 = 0 THEN 16 ELSE 8
Tiled(p) ==
    /\ p.family \in {"Q0_PPC", "F32_PPC"} /\ TileColumns(p) > 0 /\ p.m % TileRows(p) = 0 /\ p.whole
    /\ p.family = "F32_PPC" => p.n % 256 = 0

\* The kernel of a tile saves, or adds, accumulators of sixteen rows by eight
\* columns, the last ones whole even when the tile is narrower.
TimesInTile(p, job, e) ==
    LET xtiles == TileColumns(p) \div TileWidth(p)
        i == e[1] - (job \div xtiles) * TileRows(p)
        j == e[2] - (job % xtiles) * TileWidth(p)
    IN  IF i \in 0..CeilDiv(TileRows(p), 16) * 16 - 1 /\ j \in 0..CeilDiv(TileWidth(p), 8) * 8 - 1 THEN 1 ELSE 0
TileCount(p) == (TileColumns(p) \div TileWidth(p)) * (p.m \div TileRows(p))
TileSlice(p, w) == Slice(p, w, TileCount(p))

-----------------------------------------------------------------------------
Threads == 0..product.nth - 1
Margin  == 4        \* columns past C that are watched
Elements(p) == (0..p.m - 1) \X (0..p.n + Margin - 1)

\* Where the thread w begins a call: at the gate of the chunk counter, at its
\* tiles, or at the first cut.
Begin(p, w, q) ==
    LET tiled == Tiled(p)
    IN  [call |-> q, panel |-> 0,
         job |-> IF Chunked(p) THEN w ELSE IF tiled THEN Duty(p, TileCount(p)) * w ELSE 0,
         stage |-> IF ~Serves(p) THEN "out" ELSE IF Chunked(p) THEN "enter" ELSE IF tiled THEN "tiled" ELSE "pack",
         stack |-> IF Chunked(p) THEN << >>
                   ELSE Push(p, <<0, p.m, IF tiled THEN TileColumns(p) ELSE 0, p.n>>, << >>)]

IdleBlas == product = << >> /\ threads = << >> /\ chunk = 0 /\ c = << >>
StartBlas(p) ==
    /\ product = p /\ chunk = 0
    /\ threads = [w \in 0..p.nth - 1 |-> Begin(p, w, 1)]
    /\ c = [q \in 1..p.calls |-> [e \in Elements(p) |-> 0]]

\* How far a thread has come; a barrier opens when no thread is behind it.
Stages == <<"enter", "gather", "work", "leave">>
Reached(t) == IF t.stage = "out" THEN 4 * product.calls + 4
              ELSE 4 * t.call + (CHOOSE s \in 1..4 : Stages[s] = t.stage)
Opens(w) == \A v \in Threads : Reached(threads[v]) >= Reached(threads[w])

Move(w, t) == threads' = [threads EXCEPT ![w] = t]
Add(q, times(_)) == c' = [c EXCEPT ![q] = [e \in DOMAIN c[q] |-> c[q][e] + times(e)]]

\* Thread 0 sets the counter before the first barrier of a call.
Enter(w) ==
    LET t == threads[w]
    IN  /\ t.stage = "enter"
        /\ chunk' = IF w = 0 THEN product.nth ELSE chunk
        /\ Move(w, [t EXCEPT !.stage = "gather"]) /\ UNCHANGED <<product, c>>
Gather(w) ==
    LET t == threads[w]
    IN  /\ t.stage = "gather" /\ Opens(w)
        /\ Move(w, [t EXCEPT !.stage = "work"]) /\ UNCHANGED <<product, chunk, c>>
Work(w) ==
    LET t == threads[w]  times(e) == TimesInJob(product, t.job, e) * product.panels
    IN  /\ t.stage = "work" /\ t.job < NbJob(product)
        /\ Add(t.call, times) /\ chunk' = chunk + 1
        /\ Move(w, [t EXCEPT !.job = chunk]) /\ UNCHANGED product
Finish(w) ==
    LET t == threads[w]
    IN  /\ t.stage = "work" /\ t.job >= NbJob(product)
        /\ Move(w, [t EXCEPT !.stage = "leave"]) /\ UNCHANGED <<product, chunk, c>>
Leave(w) ==
    LET t == threads[w]
    IN  /\ t.stage = "leave" /\ Opens(w)
        /\ Move(w, IF t.call < product.calls THEN Begin(product, w, t.call + 1) ELSE [t EXCEPT !.stage = "out"])
        /\ UNCHANGED <<product, chunk, c>>

\* A thread's part of the topmost cut, which leaves two smaller ones.
Pack(w) ==
    LET t == threads[w]  r == Head(t.stack)
        times(e) == TimesInSlice(product, w, r, e) * product.panels
    IN  /\ t.stage = "pack" /\ t.stack # << >>
        /\ Add(t.call, times)
        /\ Move(w, [t EXCEPT !.stack = Remainders(product, r, Tail(@))]) /\ UNCHANGED <<product, chunk>>
PackDone(w) ==
    LET t == threads[w]
    IN  /\ t.stage = "pack" /\ t.stack = << >>
        /\ Move(w, [t EXCEPT !.stage = "out"]) /\ UNCHANGED <<product, chunk, c>>

\* One panel of one tile: the first is saved, the others are added.
Tile(w) ==
    LET t == threads[w]  last == t.panel + 1 = product.panels
        times(e) == TimesInTile(product, t.job, e)
    IN  /\ t.stage = "tiled" /\ t.job \in TileSlice(product, w)
        /\ Add(t.call, times)
        /\ Move(w, [t EXCEPT !.panel = IF last THEN 0 ELSE @ + 1, !.job = IF last THEN @ + 1 ELSE @])
        /\ UNCHANGED <<product, chunk>>
TilesDone(w) ==
    LET t == threads[w]
    IN  /\ t.stage = "tiled" /\ t.job \notin TileSlice(product, w)
        /\ Move(w, [t EXCEPT !.stage = "pack"]) /\ UNCHANGED <<product, chunk, c>>

BlasDone == \A w \in DOMAIN threads : threads[w].stage = "out"
Blas == \E w \in DOMAIN threads :
    Enter(w) \/ Gather(w) \/ Work(w) \/ Finish(w) \/ Leave(w) \/ Pack(w) \/ PackDone(w) \/ Tile(w) \/ TilesDone(w)

\* Shapes outside the property: mnpack of HP16 has no tile for a remainder of
\* up to three rows and five to seven columns, and the kernel of the Q0 tiles
\* is eight columns wide when the product has four.
Uncovered(p) ==
    \/ p.family = "HP16_PPC" /\ p.m < 4 /\ p.n % 8 \in 5..7
    \/ p.family = "Q0_PPC" /\ p.n = 4 /\ Tiled(p)
=============================================================================
