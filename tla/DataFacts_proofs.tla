--------------------------- MODULE DataFacts_proofs ----------------------------
(***************************************************************************)
(* Facts about the data the models are built from, for the proofs that     *)
(* share them: quotients and remainders by a divisor that is a constant of *)
(* unknown value (rings, blocks), least positions, and sequences without   *)
(* repetition (executor queues).                                           *)
(***************************************************************************)
EXTENDS Integers, SequencesExt, FiniteSetTheorems, TLAPS

(***************************************************************************)
(* Quotients and remainders.                                               *)
(***************************************************************************)

LEMMA Division ==
    ASSUME NEW a \in Nat, NEW b \in Nat \ {0}
    PROVE  a % b = a - b * (a \div b)
  BY SMTT(20)

LEMMA ProductFacts ==
    ASSUME NEW a \in Nat, NEW b \in Nat
    PROVE  a * b \in Nat /\ a * b = b * a /\ (a + 1) * b = a * b + b /\ b * (a + 1) = b * a + b
  BY SMTT(20)

LEMMA DivMod ==
    ASSUME NEW a \in Nat, NEW b \in Nat \ {0}
    PROVE  /\ a \div b \in Nat /\ a % b \in Nat /\ a % b < b
           /\ b * (a \div b) \in Nat
           /\ a = b * (a \div b) + (a % b)
<1>1. a \div b \in Nat /\ a % b \in 0 .. b - 1
  OBVIOUS
<1> DEFINE q == a \div b
           r == a % b
           p == b * q
<1>2. p \in Nat
  BY <1>1, ProductFacts
<1>3. r = a - p
  BY Division
<1>. HIDE DEF p, q, r
<1>4. a = p + r /\ r \in Nat /\ r < b /\ q \in Nat
  BY <1>1, <1>2, <1>3 DEF q, r
<1>. QED BY <1>2, <1>4 DEF p, q, r

LEMMA ProductMonotone ==
    ASSUME NEW a \in Nat, NEW b \in Nat, NEW c \in Nat, a <= b
    PROVE  a * c <= b * c /\ a * c \in Nat /\ b * c \in Nat
  BY SMTT(20)

\* A quotient and a remainder in range are the only ones.
LEMMA DivModUnique ==
    ASSUME NEW b \in Nat \ {0}, NEW q \in Nat, NEW r \in Nat, r < b,
           NEW a \in Nat, a = b * q + r
    PROVE  a \div b = q /\ a % b = r
<1> DEFINE p == a \div b
           s == a % b
<1>1. p \in Nat /\ s \in Nat /\ s < b /\ a = b * p + s
  BY DivMod
<1>. HIDE DEF p, s
<1>2. ASSUME NEW x \in Nat, NEW y \in Nat, NEW u \in Nat, NEW v \in Nat,
             u < b, v < b, x < y
      PROVE  b * x + u < b * y + v
  <2>1. (x + 1) * b <= y * b /\ (x + 1) * b \in Nat /\ y * b \in Nat
    BY <1>2, ProductMonotone
  <2>2. /\ (x + 1) * b = x * b + b /\ y * b = b * y
        /\ x * b = b * x /\ b * x \in Nat /\ b * y \in Nat
    BY ProductFacts
  <2>. DEFINE bx == b * x
              by == b * y
  <2>3. bx \in Nat /\ by \in Nat /\ bx + b <= by
    BY <2>1, <2>2
  <2>. HIDE DEF bx, by
  <2>4. bx + u < by + v
    BY <2>3, <1>2
  <2>. QED BY <2>4 DEF bx, by
<1>3. p = q
  <2>1. ~ (p < q)
    BY <1>1, <1>2
  <2>2. ~ (q < p)
    BY <1>1, <1>2
  <2>. QED BY <2>1, <2>2, <1>1
<1>4. s = r
  <2>. DEFINE bq == b * q
  <2>1. bq \in Nat /\ bq + s = bq + r
    BY <1>1, <1>3, ProductFacts
  <2>. HIDE DEF bq
  <2>. QED BY <2>1, <1>1
<1>. QED BY <1>3, <1>4 DEF p, s

\* One more: the remainder grows, or wraps and the quotient grows.
LEMMA DivModSucc ==
    ASSUME NEW a \in Nat, NEW b \in Nat \ {0}
    PROVE  \/ /\ (a % b) + 1 < b /\ (a + 1) \div b = a \div b /\ (a + 1) % b = (a % b) + 1
           \/ /\ (a % b) + 1 = b /\ (a + 1) \div b = a \div b + 1 /\ (a + 1) % b = 0
<1> DEFINE q == a \div b
           r == a % b
           p == b * q
<1>1. q \in Nat /\ r \in Nat /\ r < b /\ a = p + r /\ p \in Nat
  BY DivMod
<1>2. b * (q + 1) = p + b
  BY <1>1, ProductFacts
<1>. HIDE DEF q, r, p
<1>3. CASE r + 1 < b
  <2>1. a + 1 = b * q + (r + 1)
    BY <1>1 DEF p
  <2>2. r + 1 \in Nat /\ a + 1 \in Nat
    BY <1>1
  <2>3. (a + 1) \div b = q /\ (a + 1) % b = r + 1
    BY <1>1, <1>3, <2>1, <2>2, DivModUnique
  <2>. QED BY <1>3, <2>3 DEF q, r
<1>4. CASE r + 1 = b
  <2> DEFINE s == q + 1
             c == a + 1
  <2>1. c = b * s + 0 /\ c \in Nat /\ s \in Nat
    BY <1>1, <1>2, <1>4
  <2>. HIDE DEF s, c
  <2>2. c \div b = s /\ c % b = 0
    BY <2>1, DivModUnique
  <2>. QED BY <1>4, <2>2 DEF q, r, s, c
<1>. QED BY <1>1, <1>3, <1>4

LEMMA DivMonotone ==
    ASSUME NEW a \in Nat, NEW c \in Nat, NEW b \in Nat \ {0}, a <= c
    PROVE  a \div b <= c \div b
<1>1. /\ a \div b \in Nat /\ a % b \in Nat /\ a % b < b /\ a = b * (a \div b) + (a % b)
      /\ c \div b \in Nat /\ c % b \in Nat /\ c % b < b /\ c = b * (c \div b) + (c % b)
  BY DivMod
<1> DEFINE q == a \div b
           p == c \div b
<1>2. p * b = b * p /\ q * b = b * q /\ p * b \in Nat /\ q * b \in Nat /\ (p + 1) * b = p * b + b
  BY <1>1, ProductFacts
<1>. HIDE DEF p, q
<1>3. ASSUME p < q PROVE FALSE
  <2>1. (p + 1) * b <= q * b
    BY <1>1, <1>3, ProductMonotone DEF p, q
  <2> DEFINE x == p * b
             y == q * b
  <2>2. x + b <= y /\ x \in Nat /\ y \in Nat
    BY <2>1, <1>2
  <2>3. a = y + (a % b) /\ c = x + (c % b)
    BY <1>1, <1>2 DEF p, q
  <2>. HIDE DEF x, y
  <2>. QED BY <2>2, <2>3, <1>1
<1>. QED BY <1>1, <1>3 DEF p, q

\* The g-th block of b rows lies within the first n rows iff g is below the
\* number of whole blocks.
LEMMA BlockFits ==
    ASSUME NEW n \in Nat, NEW b \in Nat \ {0}, NEW g \in Nat
    PROVE  g < n \div b <=> g * b + b <= n
<1> DEFINE q == n \div b
           r == n % b
           x == g * b
           y == q * b
<1>1. q \in Nat /\ r \in Nat /\ r < b /\ n = y + r /\ x \in Nat /\ y \in Nat
  BY DivMod, ProductFacts
<1>2. (g + 1) * b = x + b
  BY ProductFacts
<1>3. ASSUME g < q PROVE x + b <= n
  <2>1. (g + 1) * b <= y
    <3>. HIDE DEF q
    <3>. QED BY <1>1, <1>3, ProductMonotone
  <2>. HIDE DEF x, y, q, r
  <2>. QED BY <2>1, <1>1, <1>2
<1>4. ASSUME ~ (g < q) PROVE ~ (x + b <= n)
  <2>1. y <= x
    <3>. HIDE DEF q
    <3>. QED BY <1>1, <1>4, ProductMonotone
  <2>. HIDE DEF x, y, q, r
  <2>. QED BY <2>1, <1>1
<1>. QED BY <1>3, <1>4

\* Where the last w positions before n are in a ring of w slots.
LEMMA SlotOf ==
    ASSUME NEW w \in Nat \ {0}, NEW n \in Nat, NEW p \in Nat, p < n, n <= p + w
    PROVE  LET c == n - (n % w)
           IN  /\ c \in Nat /\ n % w \in Nat /\ n % w < w /\ c = n - (n % w)
               /\ c <= p => p % w = p - c
               /\ p < c => p % w = p + w - c
<1> DEFINE N == n \div w
           r == n % w
           x == w * N
<1>0. w \in Nat \ {0}
  OBVIOUS
<1>1. N \in Nat /\ r \in Nat /\ r < w /\ x \in Nat /\ n = x + r
  BY <1>0, DivMod
<1>2. n - r = x
  BY <1>1
<1>3. ASSUME x <= p PROVE p % w = p - x
  <2> DEFINE d == p - x
  <2>1. d \in Nat /\ d < w /\ p = w * N + d /\ N \in Nat
    BY <1>0, <1>1, <1>3
  <2>. HIDE DEF N, d
  <2>2. p % w = d
    BY <1>0, <2>1, DivModUnique
  <2>. QED BY <2>2 DEF d
<1>4. ASSUME p < x PROVE p % w = p + w - x
  <2>1. N # 0
    <3>. SUFFICES ASSUME N = 0 PROVE FALSE
      OBVIOUS
    <3>1. x = 0
      BY <1>0
    <3>. QED BY <3>1, <1>4
  <2> DEFINE M == N - 1
             d == p + w - x
             y == w * M
  <2>2. M \in Nat /\ N = M + 1
    BY <2>1, <1>1
  <2>3. w * (M + 1) = y + w /\ y \in Nat
    BY <2>2, <1>0, ProductFacts
  <2>4. x = y + w
    BY <2>2, <2>3
  <2>. HIDE DEF x, y, N, M
  <2>5. d \in Nat /\ d < w /\ p = y + d
    BY <1>0, <1>1, <1>4, <2>3, <2>4
  <2>. HIDE DEF d
  <2>6. p % w = d
    BY <1>0, <2>2, <2>5, DivModUnique DEF y
  <2>. QED BY <2>6 DEF d
<1>. QED BY <1>1, <1>2, <1>3, <1>4

\* Every slot of a full ring belongs to one of the last w positions.
LEMMA PositionIn ==
    ASSUME NEW w \in Nat \ {0}, NEW n \in Nat, w <= n, NEW i \in 0..w - 1
    PROVE  \E p \in 0..n - 1 : n <= p + w /\ p % w = i
<1> DEFINE c == n - (n % w)
           p == IF i < n % w THEN c + i ELSE c - w + i
<1>0. w \in Nat \ {0}
  OBVIOUS
<1>1. n % w \in Nat /\ n % w < w
  BY <1>0, DivMod
<1>2. w <= c
  <2>1. n \div w \in Nat /\ n = w * (n \div w) + (n % w)
    BY <1>0, DivMod
  <2>2. n \div w # 0
    <3>. SUFFICES ASSUME n \div w = 0 PROVE FALSE
      OBVIOUS
    <3>1. n = 0 + (n % w)
      BY <2>1, <1>0
    <3>. QED BY <3>1, <1>0, <1>1
  <2> DEFINE N == n \div w
  <2>3. 1 * w <= N * w /\ N * w = w * N /\ N * w \in Nat
    <3>1. N \in Nat /\ 1 <= N
      BY <2>1, <2>2
    <3>. HIDE DEF N
    <3>. QED BY <3>1, <1>0, ProductMonotone, ProductFacts
  <2> DEFINE x == w * N
  <2>4. x \in Nat /\ w <= x /\ n = x + (n % w)
    BY <2>1, <2>3, <1>0
  <2>. HIDE DEF x
  <2>. QED BY <2>4, <1>1
<1>3. p \in 0..n - 1 /\ n <= p + w /\ p < n /\ p \in Nat
  BY <1>0, <1>1, <1>2
<1>. HIDE DEF p
<1>4. p % w = IF c <= p THEN p - c ELSE p + w - c
  <2>1. /\ c \in Nat
        /\ c <= p => p % w = p - c
        /\ p < c => p % w = p + w - c
    BY <1>0, <1>3, SlotOf
  <2>. QED BY <2>1, <1>3
<1>5. p % w = i
  <2>1. CASE i < n % w
    BY <2>1, <1>0, <1>1, <1>2, <1>4 DEF p
  <2>2. CASE ~ (i < n % w)
    BY <2>2, <1>0, <1>1, <1>2, <1>4 DEF p
  <2>. QED BY <2>1, <2>2
<1>. QED BY <1>3, <1>5

\* A number below the divisor is its own remainder.
LEMMA SmallResidue ==
    ASSUME NEW b \in Nat \ {0}, NEW i \in Nat, i < b
    PROVE  i % b = i /\ i \div b = 0
<1>1. i = b * 0 + i
  OBVIOUS
<1>. QED BY <1>1, DivModUnique

\* The first position of the block of R rows that position n belongs to.
LEMMA BlockStart ==
    ASSUME NEW R \in Nat \ {0}, NEW n \in Nat
    PROVE  /\ n % R \in Nat /\ n % R < R /\ n \div R \in Nat
           /\ n - (n % R) \in Nat /\ n - (n % R) = (n \div R) * R
           /\ n >= R => n - (n % R) >= R /\ n \div R > 0
<1> DEFINE k == n % R
           d == n \div R
           x == R * d
<1>1. k \in Nat /\ k < R /\ d \in Nat /\ x \in Nat /\ n = x + k
  BY DivMod
<1>2. x = d * R
  BY <1>1, ProductFacts
<1>3. ASSUME n >= R PROVE x >= R /\ d > 0
  <2>1. d # 0
    <3>. SUFFICES ASSUME d = 0 PROVE FALSE
      OBVIOUS
    <3>1. x = 0
      OBVIOUS
    <3>. HIDE DEF x, k
    <3>. QED BY <3>1, <1>1, <1>3
  <2>2. 1 <= d
    BY <2>1, <1>1
  <2>. HIDE DEF d
  <2>3. 1 * R <= d * R
    BY <2>2, <1>1, ProductMonotone
  <2>. QED BY <2>2, <2>3, <1>1, <1>2
<1>. HIDE DEF x, k, d
<1>4. n - k = x
  BY <1>1
<1>. QED BY <1>1, <1>2, <1>3, <1>4 DEF k, d

\* Different blocks of R rows start at different positions.
LEMMA DistinctStarts ==
    ASSUME NEW R \in Nat \ {0}, NEW g \in Nat, NEW h \in Nat, g * R = h * R
    PROVE  g = h
<1>1. ASSUME NEW a \in Nat, NEW b \in Nat, a < b, a * R = b * R PROVE FALSE
  <2>1. (a + 1) * R <= b * R /\ (a + 1) * R = a * R + R /\ a * R \in Nat
    BY <1>1, ProductMonotone, ProductFacts
  <2> DEFINE x == a * R
             y == b * R
  <2>2. x + R <= y /\ x = y /\ x \in Nat
    BY <1>1, <2>1
  <2>. HIDE DEF x, y
  <2>. QED BY <2>2
<1>. QED BY <1>1

\* A non-empty set of positions has a least element (the scan of
\* _evict_lru_skip_layer stops somewhere).
LEMMA LeastPosition ==
    ASSUME NEW I \in SUBSET Nat, I # {}
    PROVE  \E i \in I : \A j \in I : i <= j
<1> DEFINE R == OpToRel(<, Nat)
<1>1. \A x, y \in Nat : y < x => <<y, x>> \in R
  BY DEF OpToRel
<1>2. IsWellFoundedOn(R, Nat)
  BY NatLessThanWellFounded
<1> HIDE DEF R
<1>3. PICK x \in I : \A y \in I : ~ (<<y, x>> \in R)
  BY <1>2, WFMin, Zenon
<1>4. \A y \in I : ~ (y < x)
  BY <1>1, <1>3
<1> QED
  BY <1>4

\* Induction up to a bound, as a fact about a set of numbers.
LEMMA StepByStep ==
    ASSUME NEW L \in Nat, NEW G, 0 \in G,
           \A n \in 1 .. L : n - 1 \in G => n \in G
    PROVE  0 .. L \subseteq G
<1> DEFINE I == {n \in 0 .. L : n \notin G}
<1> SUFFICES ASSUME I # {} PROVE FALSE
  OBVIOUS
<1>1. PICK m \in I : \A j \in I : m <= j
  <2>1. I \in SUBSET Nat
    OBVIOUS
  <2> HIDE DEF I
  <2>. QED BY <2>1, LeastPosition
<1>2. m \in 1 .. L /\ m - 1 \in 0 .. L /\ ~ (m <= m - 1)
  OBVIOUS
<1>3. m - 1 \in G
  BY <1>1, <1>2
<1>. QED BY <1>2, <1>3

(***************************************************************************)
(* Sequences without repetition: the queues of the executors.              *)
(***************************************************************************)

LEMMA TakeHead ==
    ASSUME NEW S, NEW s \in Seq(S), s # <<>>, IsInjective(s)
    PROVE  /\ Head(s) \in S /\ Tail(s) \in Seq(S) /\ IsInjective(Tail(s))
           /\ Len(Tail(s)) = Len(s) - 1
           /\ ToSet(s) = ToSet(Tail(s)) \cup {Head(s)}
           /\ Head(s) \notin ToSet(Tail(s))
<1>1. /\ Head(s) = s[1] /\ Len(s) \in Nat \ {0}
      /\ Tail(s) \in Seq(S) /\ Len(Tail(s)) = Len(s) - 1
      /\ \A i \in 1 .. Len(s) - 1 : Tail(s)[i] = s[i + 1]
  OBVIOUS
<1>2. /\ DOMAIN s = 1 .. Len(s) /\ DOMAIN Tail(s) = 1 .. Len(s) - 1
      /\ \A i, j \in 1 .. Len(s) : s[i] = s[j] => i = j
  BY <1>1 DEF IsInjective
<1>3. \A i, j \in 1 .. Len(s) - 1 : Tail(s)[i] = Tail(s)[j] => i = j
  BY <1>1, <1>2
<1>4. \A i \in 1 .. Len(s) - 1 : Tail(s)[i] # s[1]
  BY <1>1, <1>2
<1>5. ASSUME NEW x
      PROVE  (\E i \in 1 .. Len(s) : s[i] = x) <=>
                 (x = s[1] \/ \E i \in 1 .. Len(s) - 1 : Tail(s)[i] = x)
  <2>1. ASSUME NEW i \in 1 .. Len(s), s[i] = x, i # 1
        PROVE  i - 1 \in 1 .. Len(s) - 1 /\ Tail(s)[i - 1] = x
    BY <2>1, <1>1
  <2>. QED BY <2>1, <1>1
<1>6. IsInjective(Tail(s))
  BY <1>2, <1>3 DEF IsInjective
<1>7. ToSet(s) = ToSet(Tail(s)) \cup {Head(s)}
  <2>1. \A x : x \in ToSet(s) <=> \E i \in 1 .. Len(s) : s[i] = x
    BY <1>2 DEF ToSet
  <2>2. \A x : x \in ToSet(Tail(s)) <=> \E i \in 1 .. Len(s) - 1 : Tail(s)[i] = x
    BY <1>2 DEF ToSet
  <2>. QED BY <2>1, <2>2, <1>1, <1>5
<1>8. Head(s) \notin ToSet(Tail(s))
  BY <1>1, <1>2, <1>4 DEF ToSet
<1>9. Head(s) \in S
  BY <1>1
<1>. QED BY <1>1, <1>6, <1>7, <1>8, <1>9

LEMMA Enqueue ==
    ASSUME NEW S, NEW s \in Seq(S), IsInjective(s), NEW e \in S, e \notin ToSet(s)
    PROVE  /\ Append(s, e) \in Seq(S) /\ IsInjective(Append(s, e))
           /\ ToSet(Append(s, e)) = ToSet(s) \cup {e}
<1> DEFINE r == Append(s, e)
<1>1. /\ r \in Seq(S) /\ Len(s) \in Nat /\ Len(r) = Len(s) + 1
      /\ \A i \in 1 .. Len(s) : r[i] = s[i]
      /\ r[Len(s) + 1] = e
  OBVIOUS
<1>2. DOMAIN s = 1 .. Len(s) /\ DOMAIN r = 1 .. Len(s) + 1
  BY <1>1
<1>3. \A i \in 1 .. Len(s) : s[i] # e
  BY <1>2 DEF ToSet
<1> HIDE DEF r
<1>4. \A i \in 1 .. Len(s) + 1 : i \in 1 .. Len(s) \/ i = Len(s) + 1
  BY <1>1
<1>5. IsInjective(r)
  BY <1>1, <1>2, <1>3, <1>4 DEF IsInjective
<1>6. ToSet(r) = ToSet(s) \cup {e}
  BY <1>1, <1>2, <1>4 DEF ToSet
<1>. QED BY <1>1, <1>5, <1>6 DEF r

LEMMA EnqueueAll ==
    ASSUME NEW S, NEW s \in Seq(S), NEW r \in Seq(S),
           IsInjective(s), IsInjective(r), ToSet(s) \cap ToSet(r) = {}
    PROVE  /\ s \o r \in Seq(S) /\ IsInjective(s \o r)
           /\ ToSet(s \o r) = ToSet(s) \cup ToSet(r)
           /\ Len(s \o r) = Len(s) + Len(r)
<1> DEFINE c == s \o r
<1>1. /\ c \in Seq(S) /\ Len(s) \in Nat /\ Len(r) \in Nat /\ Len(c) = Len(s) + Len(r)
      /\ \A i \in 1 .. Len(s) + Len(r) : c[i] = IF i <= Len(s) THEN s[i] ELSE r[i - Len(s)]
  OBVIOUS
<1>2. /\ DOMAIN s = 1 .. Len(s) /\ DOMAIN r = 1 .. Len(r)
      /\ DOMAIN c = 1 .. Len(s) + Len(r)
  BY <1>1
<1> HIDE DEF c
<1>3. \A i \in 1 .. Len(s), j \in 1 .. Len(r) : s[i] # r[j]
  BY <1>2 DEF ToSet
<1>4. ASSUME NEW i \in DOMAIN c
      PROVE  \/ i \in 1 .. Len(s) /\ c[i] = s[i]
             \/ i - Len(s) \in 1 .. Len(r) /\ c[i] = r[i - Len(s)]
  BY <1>1, <1>2
<1>5. \A i \in 1 .. Len(s) : i \in DOMAIN c /\ c[i] = s[i]
  BY <1>1, <1>2
<1>6. ASSUME NEW i \in 1 .. Len(r) PROVE Len(s) + i \in DOMAIN c /\ c[Len(s) + i] = r[i]
  <2>1. /\ Len(s) + i \in 1 .. Len(s) + Len(r) /\ ~ (Len(s) + i <= Len(s))
        /\ (Len(s) + i) - Len(s) = i
    BY <1>1
  <2>. QED BY <2>1, <1>1, <1>2
<1>7. IsInjective(c)
  <2> SUFFICES ASSUME NEW i \in DOMAIN c, NEW j \in DOMAIN c, c[i] = c[j] PROVE i = j
    BY DEF IsInjective
  <2>1. CASE i \in 1 .. Len(s) /\ j \in 1 .. Len(s)
    <3>1. s[i] = s[j]
      BY <2>1, <1>5
    <3>. QED BY <3>1, <2>1, <1>2 DEF IsInjective
  <2>2. CASE i \notin 1 .. Len(s) /\ j \notin 1 .. Len(s)
    <3>1. /\ i - Len(s) \in 1 .. Len(r) /\ j - Len(s) \in 1 .. Len(r)
          /\ r[i - Len(s)] = r[j - Len(s)]
      BY <2>2, <1>4
    <3>2. i - Len(s) = j - Len(s)
      BY <3>1, <1>2 DEF IsInjective
    <3>. QED BY <3>2, <1>1, <1>2
  <2>3. CASE i \in 1 .. Len(s) /\ j \notin 1 .. Len(s)
    BY <2>3, <1>3, <1>4, <1>5
  <2>4. CASE i \notin 1 .. Len(s) /\ j \in 1 .. Len(s)
    BY <2>4, <1>3, <1>4, <1>5
  <2>. QED BY <2>1, <2>2, <2>3, <2>4
<1>8. ToSet(c) = ToSet(s) \cup ToSet(r)
  <2>1. ASSUME NEW x \in ToSet(c) PROVE x \in ToSet(s) \cup ToSet(r)
    BY <1>2, <1>4 DEF ToSet
  <2>2. ASSUME NEW x \in ToSet(s) \cup ToSet(r) PROVE x \in ToSet(c)
    BY <1>2, <1>5, <1>6 DEF ToSet
  <2>. QED BY <2>1, <2>2
<1>. QED BY <1>1, <1>7, <1>8 DEF c

\* The orders in which the members of a finite set can be queued.
LEMMA OrdersOfSet ==
    ASSUME NEW S, IsFiniteSet(S), NEW s \in SetToSeqs(S)
    PROVE  s \in Seq(S) /\ IsInjective(s) /\ ToSet(s) = S /\ Len(s) = Cardinality(S)
<1> DEFINE n == Cardinality(S)
<1>1. n \in Nat
  BY FS_CardinalityType
<1>2. /\ s \in [1 .. n -> S]
      /\ \A i, j \in 1 .. n : i # j => s[i] # s[j]
  BY DEF SetToSeqs
<1>3. s \in Seq(S) /\ Len(s) = n /\ DOMAIN s = 1 .. n
  BY <1>1, <1>2
<1>4. IsInjective(s)
  BY <1>2 DEF IsInjective
<1>5. S \subseteq ToSet(s)
  <2> SUFFICES ASSUME NEW x \in S, x \notin ToSet(s) PROVE FALSE
    OBVIOUS
  <2>1. IsFiniteSet(1 .. n) /\ Cardinality(1 .. n) = n
    BY <1>1, FS_Interval
  <2>2. IsFiniteSet(S \ {x}) /\ Cardinality(S \ {x}) = n - 1
    BY FS_RemoveElement
  <2>3. s \in [1 .. n -> S \ {x}]
    BY <1>2 DEF ToSet
  <2>4. \E i, j \in 1 .. n : i # j /\ s[i] = s[j]
    BY <1>1, <2>1, <2>2, <2>3, FS_PigeonHole
  <2>. QED BY <2>4, <1>2
<1>6. ToSet(s) \subseteq S
  BY <1>2 DEF ToSet
<1>. QED BY <1>3, <1>4, <1>5, <1>6

LEMMA LengthOfQueue ==
    ASSUME NEW S, NEW s \in Seq(S), IsInjective(s)
    PROVE  IsFiniteSet(ToSet(s)) /\ Cardinality(ToSet(s)) = Len(s)
<1> DEFINE D == 1 .. Len(s)
<1>1. Len(s) \in Nat /\ D = DOMAIN s /\ s \in [D -> ToSet(s)]
  BY DEF ToSet
<1>2. IsFiniteSet(D) /\ Cardinality(D) = Len(s)
  BY <1>1, FS_Interval
<1>3. s \in Bijection(D, ToSet(s))
  BY <1>1 DEF Bijection, Injection, Surjection, IsInjective, ToSet
<1>. QED BY <1>2, <1>3, FS_Bijection DEF ExistsBijection
================================================================================
