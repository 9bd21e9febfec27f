----------------------- MODULE ImplicitProducerProofs -----------------------
(***************************************************************************)
(* Proofs about ImplicitProducer for all producers and blocks, and for     *)
(* every block size, first ring and range of an index that are powers of   *)
(* two.                                                                    *)
(*                                                                         *)
(* Count the blocks of a producer as if indices did not come around: it    *)
(* has begun those up to e - 1, and the consumer has given back those      *)
(* before f.  The blocks f to e - 1 stand one behind the other in the      *)
(* ring, at most half the range of them, so that the key of an entry says  *)
(* which of them it is; block f holds the messages that are not taken.     *)
(* The consumer counts back from the tail of the ring modulo the blocks in *)
(* the range, and the ring modulo its capacity: the two agree since the    *)
(* second divides the first, both being powers of two.  The tail it starts *)
(* from may be that of an older ring, whose entries are all in the new one *)
(* still, or of an entry the producer takes back, which keeps its key      *)
(* until it is used for the same block again.                              *)
(***************************************************************************)
EXTENDS ImplicitProducer, FiniteSetTheorems, FunctionTheorems, SequenceTheorems, TLAPS

\* The indices of messages number nb blocks before they come around.
nb == IndexRange \div BLOCK_SIZE
Half == nb \div 2

\* The first index of block number k, and the index at position r in it, where
\* position BLOCK_SIZE is the beginning of the next block.
Key(k) == (k % nb) * BLOCK_SIZE
At(k, r) == IF r = BLOCK_SIZE THEN Key(k + 1) ELSE Key(k) + r

LEMMA DivMod ==
  ASSUME NEW n \in Int, NEW d \in Nat \ {0}
  PROVE  n = d * (n \div d) + (n % d) /\ n % d \in 0 .. d - 1 /\ n \div d \in Int
OBVIOUS

LEMMA Quotient ==
  ASSUME NEW n \in Int, NEW d \in Nat \ {0}, NEW q \in Int, NEW r \in 0 .. d - 1,
         n = d * q + r
  PROVE  n \div d = q /\ n % d = r
OBVIOUS

LEMMA Multiple ==
  ASSUME NEW d \in Nat \ {0}, NEW q \in Int
  PROVE  (d * q) % d = 0 /\ (d * q) \div d = q
<1> DEFINE n == d * q
<1>1. n \in Int /\ n = d * q + 0 /\ 0 \in 0 .. d - 1
  OBVIOUS
<1> HIDE DEF n
<1>2. n % d = 0 /\ n \div d = q
  BY <1>1, Quotient
<1> QED BY <1>2 DEF n

LEMMA Sizes ==
  /\ BLOCK_SIZE \in Nat /\ BLOCK_SIZE > 1 /\ IndexRange \in Nat
  /\ IMPLICIT_INITIAL_INDEX_SIZE \in Nat /\ IMPLICIT_INITIAL_INDEX_SIZE > 1
  /\ nb \in Nat /\ IndexRange = nb * BLOCK_SIZE
  /\ nb % IMPLICIT_INITIAL_INDEX_SIZE = 0
  /\ Half \in Nat /\ Half >= 2 /\ nb = 2 * Half
<1> DEFINE B == BLOCK_SIZE
           I == IMPLICIT_INITIAL_INDEX_SIZE
           d == B * I
           q == IndexRange \div d
<1>1. B \in Nat /\ B > 1 /\ IndexRange \in Nat /\ I \in Nat /\ I > 1 /\ IndexRange >= 4 * B
  BY SizesAssumption DEF IsPowerOfTwo
<1>2. d \in Nat \ {0} /\ IndexRange % d = 0
  BY <1>1, SizesAssumption
<1>3. q \in Int /\ IndexRange = d * q
  <2> HIDE DEF d
  <2> QED BY <1>1, <1>2, DivMod
<1> HIDE DEF q
<1>4. IndexRange = B * (I * q) + 0
  BY <1>1, <1>3
<1>5. nb = I * q /\ IndexRange = nb * B
  BY <1>1, <1>3, <1>4, Quotient DEF nb
<1>6. nb % I = 0
  BY <1>1, <1>3, <1>5, Quotient
<1>7. nb \in Nat /\ nb >= 4
  <2>1. nb \in Int
    BY <1>1, <1>3, <1>5
  <2>2. nb < 4 => nb * B < 4 * B
    BY <2>1, <1>1
  <2> QED BY <2>1, <2>2, <1>1, <1>5
<1>8. nb <= IndexRange /\ IndexRange % nb = 0
  BY <1>1, <1>5, <1>7, Quotient
<1>9. nb % 2 = 0
  <2>1. nb \in 2 .. IndexRange
    BY <1>1, <1>7, <1>8
  <2> QED BY <2>1, <1>8, SizesAssumption DEF IsPowerOfTwo
<1>10. Half \in Nat /\ Half >= 2 /\ nb = 2 * Half
  <2> HIDE DEF nb
  <2> QED BY <1>7, <1>9 DEF Half
<1> QED BY <1>1, <1>5, <1>6, <1>7, <1>10

\* A ring smaller than half the blocks can be doubled: nb is a power of two.
LEMMA Doubling ==
  ASSUME NEW c \in Nat \ {0}, nb % c = 0, c < nb
  PROVE  nb % (2 * c) = 0
<1> DEFINE q == nb \div c
           r == q \div 2
<1>1. nb \in Nat
  BY Sizes
<1>2. q \in Int /\ nb = c * q
  BY <1>1, DivMod
<1>3. q \in Nat /\ q >= 2
  <2> HIDE DEF q
  <2>1. q < 2 => c * q <= c
    BY <1>2
  <2> QED BY <1>2, <2>1, Sizes
<1> HIDE DEF q
<1>4. IndexRange = q * (c * BLOCK_SIZE)
  BY <1>2, <1>3, Sizes
<1>5. IndexRange % q = 0 /\ q <= IndexRange
  <2> DEFINE m == c * BLOCK_SIZE
  <2>1. m \in Nat /\ m >= 1
    BY Sizes
  <2> HIDE DEF m
  <2>2. q * m >= q
    BY <2>1, <1>3
  <2>3. IndexRange = q * m
    BY <1>4, Sizes DEF m
  <2> QED BY <1>3, <2>1, <2>2, <2>3, Multiple
<1>6. q % 2 = 0
  BY <1>3, <1>5, SizesAssumption DEF IsPowerOfTwo
<1>7. r \in Int /\ q = 2 * r
  BY <1>3, <1>6, DivMod
<1> HIDE DEF r
<1>8. nb = (2 * c) * r /\ 2 * c \in Nat \ {0}
  BY <1>2, <1>7
<1> QED BY <1>7, <1>8, Multiple

-----------------------------------------------------------------------------
(* Words and positions.                                                    *)

LEMMA WordArithmetic ==
  ASSUME NEW a \in Words, NEW b \in Words
  PROVE  /\ Minus(a, b) = IF a >= b THEN a - b ELSE a - b + IndexRange
         /\ Plus(a, b) = IF a + b < IndexRange THEN a + b ELSE a + b - IndexRange
         /\ Minus(a, b) \in Words /\ Plus(a, b) \in Words
<1> DEFINE w == IndexRange
<1>1. w \in Nat \ {0}
  BY Sizes
<1>2. a \in 0 .. w - 1 /\ b \in 0 .. w - 1
  BY DEF Words
<1>3. a >= b => (a - b) % w = a - b
  BY <1>1, <1>2
<1>4. a < b => (a - b) % w = a - b + w
  BY <1>1, <1>2
<1>5. a + b < w => (a + b) % w = a + b
  BY <1>1, <1>2
<1>6. a + b >= w => (a + b) % w = a + b - w
  BY <1>1, <1>2
<1> QED BY <1>1, <1>2, <1>3, <1>4, <1>5, <1>6 DEF Minus, Plus, Words

\* The beginnings of blocks are multiples of BLOCK_SIZE below the range.
LEMMA KeyRange ==
  ASSUME NEW k \in Int
  PROVE  /\ Key(k) \in Words /\ Key(k) \in 0 .. IndexRange - BLOCK_SIZE
         /\ Key(k) % BLOCK_SIZE = 0 /\ Key(k) \div BLOCK_SIZE = k % nb
         /\ k % nb \in 0 .. nb - 1
<1> DEFINE r == k % nb
           B == BLOCK_SIZE
<1>1. nb \in Nat \ {0} /\ B \in Nat \ {0}
  BY Sizes
<1>2. r \in 0 .. nb - 1
  BY <1>1, DivMod
<1> HIDE DEF r
<1>3. (B * r) % B = 0 /\ (B * r) \div B = r
  BY <1>1, <1>2, Multiple
<1>4. B * r = r * B
  BY <1>1, <1>2
<1>5. r * B >= 0 /\ r * B <= (nb - 1) * B /\ (nb - 1) * B = nb * B - B
  BY <1>1, <1>2
<1>6. r * B \in Int /\ nb * B = IndexRange
  BY <1>1, <1>2, Sizes
<1>7. r * B \in 0 .. IndexRange - B /\ (r * B) % B = 0 /\ (r * B) \div B = r
  BY <1>3, <1>4, <1>5, <1>6, Sizes
<1>8. Key(k) = r * B
  BY DEF Key, r
<1> HIDE DEF B
<1>9. Key(k) \in 0 .. IndexRange - B /\ Key(k) % B = 0 /\ Key(k) \div B = r
  BY <1>7, <1>8
<1> QED BY <1>1, <1>2, <1>9, Sizes DEF B, r, Words

\* Block numbers that are less than nb apart have different beginnings.
LEMMA KeySame ==
  ASSUME NEW k \in Int, NEW l \in Int, Key(k) = Key(l), k - l < nb, l - k < nb
  PROVE  k = l
<1>1. nb \in Nat \ {0} /\ k % nb = l % nb
  BY KeyRange, Sizes
<1>2. PICK q \in Int, m \in Int : k = nb * q + (k % nb) /\ l = nb * m + (l % nb)
  BY <1>1, DivMod
<1>3. k - l = nb * (q - m)
  BY <1>1, <1>2
<1>4. q - m >= 1 => nb * (q - m) >= nb
  BY <1>1
<1>5. q - m <= -1 => nb * (q - m) <= - nb
  BY <1>1
<1>6. q = m
  BY <1>1, <1>3, <1>4, <1>5
<1> QED BY <1>1, <1>2, <1>6

LEMMA KeyNext ==
  ASSUME NEW k \in Int
  PROVE  /\ Key(k + 1) = IF Key(k) = IndexRange - BLOCK_SIZE THEN 0
                         ELSE Key(k) + BLOCK_SIZE
         /\ Plus(Key(k), BLOCK_SIZE) = Key(k + 1)
<1> DEFINE r == k % nb
           B == BLOCK_SIZE
           q == k \div nb
<1>1. nb \in Nat \ {0} /\ B \in Nat \ {0} /\ nb * B = IndexRange /\ nb >= 4
  BY Sizes
<1>2. r \in 0 .. nb - 1 /\ q \in Int /\ k = nb * q + r
  BY <1>1, DivMod
<1> HIDE DEF r, q
<1>3. CASE r = nb - 1
  <2>1. k + 1 = nb * (q + 1) + 0 /\ 0 \in 0 .. nb - 1 /\ k + 1 \in Int /\ q + 1 \in Int
    BY <1>1, <1>2, <1>3
  <2>2. (k + 1) % nb = 0
    BY <1>1, <2>1, Quotient
  <2>3. Key(k + 1) = 0 /\ Key(k) = r * B
    BY <2>2, <1>1 DEF Key, r
  <2>4. r * B = IndexRange - B
    BY <1>1, <1>3
  <2>5. (IndexRange - B + B) % IndexRange = 0
    BY <1>1, Sizes
  <2>6. Plus(Key(k), B) = 0
    BY <2>3, <2>4, <2>5 DEF Plus
  <2> QED BY <2>3, <2>4, <2>6
<1>4. CASE r # nb - 1
  <2>1. k + 1 = nb * q + (r + 1) /\ r + 1 \in 0 .. nb - 1 /\ k + 1 \in Int
    BY <1>1, <1>2, <1>4
  <2>2. (k + 1) % nb = r + 1
    BY <1>1, <1>2, <2>1, Quotient
  <2>3. Key(k + 1) = (r + 1) * B /\ Key(k) = r * B
    BY <2>2 DEF Key, r
  <2>4. (r + 1) * B = r * B + B
    BY <1>1, <1>2
  <2>5. (r + 1) * B <= (nb - 1) * B /\ (nb - 1) * B = IndexRange - B
    BY <1>1, <1>2, <1>4
  <2>6. Key(k) \in Int /\ Key(k) >= 0 /\ Key(k + 1) = Key(k) + B
        /\ Key(k + 1) <= IndexRange - B
    BY <2>3, <2>4, <2>5, KeyRange
  <2>7. (Key(k) + B) % IndexRange = Key(k) + B
    BY <2>6, <1>1, Sizes
  <2> QED BY <2>6, <2>7, <1>1 DEF Plus
<1> QED BY <1>3, <1>4

LEMMA KeyDistance ==
  ASSUME NEW k \in Int, NEW l \in Int
  PROVE  Minus(Key(k), Key(l)) \div BLOCK_SIZE = (k - l) % nb
<1> DEFINE a == k % nb
           b == l % nb
           B == BLOCK_SIZE
           q == k \div nb
           m == l \div nb
<1>1. nb \in Nat \ {0} /\ B \in Nat \ {0} /\ nb * B = IndexRange
  BY Sizes
<1>2. /\ a \in 0 .. nb - 1 /\ q \in Int /\ k = nb * q + a
      /\ b \in 0 .. nb - 1 /\ m \in Int /\ l = nb * m + b
  BY <1>1, DivMod
<1>3. Key(k) = a * B /\ Key(l) = b * B
  BY DEF Key
<1> HIDE DEF a, b, q, m
<1>4. Key(k) \in Words /\ Key(l) \in Words
  BY KeyRange
<1>5. CASE a >= b
  <2>1. k - l = nb * (q - m) + (a - b) /\ a - b \in 0 .. nb - 1 /\ q - m \in Int
    BY <1>1, <1>2, <1>5
  <2>2. (k - l) % nb = a - b
    BY <1>1, <2>1, Quotient
  <2>3. a * B >= b * B /\ a * B - b * B = B * (a - b)
    BY <1>1, <1>2, <1>5
  <2>4. Minus(Key(k), Key(l)) = B * (a - b)
    BY <1>3, <1>4, <2>3, WordArithmetic
  <2>5. (B * (a - b)) \div B = a - b
    <3>1. PICK e \in Int : e = a - b
      BY <2>1
    <3>2. (B * e) \div B = e
      BY <1>1, Multiple
    <3> QED BY <3>1, <3>2
  <2> QED BY <2>2, <2>4, <2>5
<1>6. CASE a < b
  <2>1. /\ k - l = nb * (q - m - 1) + (a - b + nb) /\ a - b + nb \in 0 .. nb - 1
        /\ q - m - 1 \in Int
    BY <1>1, <1>2, <1>6
  <2>2. (k - l) % nb = a - b + nb
    BY <1>1, <2>1, Quotient
  <2>3. a * B < b * B /\ a * B - b * B + nb * B = B * (a - b + nb)
    BY <1>1, <1>2, <1>6
  <2>4. Minus(Key(k), Key(l)) = B * (a - b + nb)
    BY <1>1, <1>3, <1>4, <2>3, WordArithmetic DEF Words
  <2>5. (B * (a - b + nb)) \div B = a - b + nb
    <3>1. PICK e \in Int : e = a - b + nb
      BY <2>1
    <3>2. (B * e) \div B = e
      BY <1>1, Multiple
    <3> QED BY <3>1, <3>2
  <2> QED BY <2>2, <2>4, <2>5
<1> QED BY <1>2, <1>5, <1>6

LEMMA AtMod ==
  ASSUME NEW k \in Int, NEW r \in 0 .. BLOCK_SIZE
  PROVE  At(k, r) = (k * BLOCK_SIZE + r) % IndexRange
<1> DEFINE B == BLOCK_SIZE
           w == IndexRange
<1>1. nb \in Nat \ {0} /\ B \in Nat \ {0} /\ nb * B = w /\ w \in Nat \ {0}
  BY Sizes
<1>2. ASSUME NEW l \in Int, NEW s \in 0 .. B - 1
      PROVE  Key(l) + s = (l * B + s) % w
  <2> DEFINE a == l % nb
             q == l \div nb
             n == l * B + s
             t == Key(l) + s
  <2>1. a \in 0 .. nb - 1 /\ q \in Int /\ l = nb * q + a
    BY <1>1, DivMod
  <2>2. Key(l) = a * B
    BY DEF Key
  <2> HIDE DEF a, q
  <2>3. l * B = (nb * q) * B + a * B /\ (nb * q) * B = (nb * B) * q
    BY <2>1, <1>1
  <2>4. l * B = w * q + Key(l) /\ Key(l) \in 0 .. w - B
    BY <2>2, <2>3, <1>1, KeyRange
  <2>5. n = w * q + t /\ t \in 0 .. w - 1 /\ n \in Int
    BY <2>1, <2>4, <1>1
  <2> HIDE DEF n, t
  <2>6. n % w = t
    BY <2>1, <2>5, <1>1, Quotient
  <2> QED BY <2>6 DEF n, t
<1>3. CASE r = B
  <2>1. Key(k + 1) + 0 = ((k + 1) * B + 0) % w
    BY <1>1, <1>2
  <2>2. (k + 1) * B + 0 = k * B + r /\ Key(k + 1) \in Int
    BY <1>1, <1>3, KeyRange
  <2> QED BY <2>1, <2>2, <1>3 DEF At
<1>4. CASE r # B
  BY <1>1, <1>2, <1>4 DEF At
<1> QED BY <1>3, <1>4

LEMMA AtWord ==
  ASSUME NEW k \in Int, NEW r \in 0 .. BLOCK_SIZE
  PROVE  /\ At(k, r) \in Words
         /\ At(k, r) % BLOCK_SIZE = IF r = BLOCK_SIZE THEN 0 ELSE r
         /\ r # BLOCK_SIZE => Base(At(k, r)) = Key(k)
         /\ At(k, 0) = Key(k) /\ At(k, BLOCK_SIZE) = Key(k + 1)
<1> DEFINE B == BLOCK_SIZE
           a == k % nb
           n == Key(k) + r
<1>1. B \in Nat \ {0} /\ Key(k) \in 0 .. IndexRange - B /\ a \in Int /\ Key(k) = a * B
  <2>1. a \in 0 .. nb - 1 /\ nb \in Nat /\ B \in Nat \ {0}
    BY KeyRange, Sizes
  <2>2. Key(k) = a * B
    BY DEF Key
  <2> QED BY <2>1, <2>2, KeyRange
<1>2. At(k, 0) = Key(k) /\ At(k, B) = Key(k + 1)
  BY <1>1 DEF At
<1>3. CASE r = B
  BY <1>2, <1>3, KeyRange
<1>4. CASE r # B
  <2> HIDE DEF a
  <2>1. n = B * a + r /\ n \in Int /\ r \in 0 .. B - 1 /\ a * B = B * a
    BY <1>1, <1>4
  <2> HIDE DEF n
  <2>2. n % B = r
    BY <1>1, <2>1, Quotient
  <2>3. At(k, r) = n
    BY <1>4 DEF At, n
  <2>4. n - r = Key(k) /\ n \in Words
    BY <1>1, <2>1, Sizes DEF n, Words
  <2> QED BY <1>2, <1>4, <2>2, <2>3, <2>4 DEF Base
<1> QED BY <1>3, <1>4

LEMMA AtNext ==
  ASSUME NEW k \in Int, NEW r \in 0 .. BLOCK_SIZE - 1
  PROVE  Plus(At(k, r), 1) = At(k, r + 1)
<1> DEFINE B == BLOCK_SIZE
<1>1. /\ B \in Nat \ {0} /\ B > 1 /\ IndexRange \in Nat /\ IndexRange >= 4 * B
      /\ Key(k) \in 0 .. IndexRange - B
  BY KeyRange, Sizes, SizesAssumption
<1>2. At(k, r) = Key(k) + r /\ 1 \in Words /\ Key(k) + r \in Words
  BY <1>1 DEF At, Words
<1>3. Plus(Key(k) + r, 1) = IF Key(k) + r + 1 < IndexRange THEN Key(k) + r + 1
                            ELSE Key(k) + r + 1 - IndexRange
  BY <1>2, WordArithmetic
<1>4. CASE r + 1 = B
  <2>1. Key(k + 1) = IF Key(k) = IndexRange - B THEN 0 ELSE Key(k) + B
    BY KeyNext
  <2> QED BY <1>1, <1>2, <1>3, <1>4, <2>1 DEF At
<1>5. CASE r + 1 # B
  BY <1>1, <1>2, <1>3, <1>5 DEF At
<1> QED BY <1>4, <1>5

LEMMA MinusMod ==
  ASSUME NEW x \in Int, NEW y \in Int, NEW w \in Nat \ {0}, y - x \in 0 .. w - 1
  PROVE  ((x % w) - (y % w)) % w = IF x = y THEN 0 ELSE w - (y - x)
<1> DEFINE a == x % w
           b == y % w
           q == x \div w
           m == y \div w
           d == a - b
           n == y - x
<1>1. a \in 0 .. w - 1 /\ x = w * q + a /\ q \in Int
  BY DivMod
<1>2. b \in 0 .. w - 1 /\ y = w * m + b /\ m \in Int
  BY DivMod
<1>3. n \in 0 .. w - 1 /\ (n = 0 <=> x = y)
  OBVIOUS
<1> HIDE DEF a, b, q, m
<1>4. n = w * (m - q) - d
  BY <1>1, <1>2
<1> HIDE DEF n
<1>5. CASE n = 0
  <2>1. d = w * (m - q) + 0 /\ 0 \in 0 .. w - 1 /\ m - q \in Int /\ d \in Int
    BY <1>1, <1>2, <1>4, <1>5
  <2> HIDE DEF d
  <2>2. d % w = 0
    BY <2>1, Quotient
  <2> QED BY <2>2, <1>3, <1>5 DEF d, a, b
<1>6. CASE n # 0
  <2>1. /\ d = w * (m - q - 1) + (w - n) /\ w - n \in 0 .. w - 1
        /\ m - q - 1 \in Int /\ d \in Int
    BY <1>1, <1>2, <1>3, <1>4, <1>6
  <2> HIDE DEF d
  <2>2. d % w = w - n
    BY <2>1, Quotient
  <2> QED BY <2>2, <1>3, <1>6 DEF d, a, b, n
<1> QED BY <1>5, <1>6

\* Positions less than half the range apart are compared rightly.
LEMMA LessThan ==
  ASSUME NEW k \in Int, NEW r \in 0 .. BLOCK_SIZE,
         NEW l \in Int, NEW s \in 0 .. BLOCK_SIZE,
         (l - k) * BLOCK_SIZE + s - r \in 0 .. IndexRange - 1
  PROVE  circular_less_than(At(k, r), At(l, s)) <=>
           /\ (l - k) * BLOCK_SIZE + s - r > 0
           /\ (l - k) * BLOCK_SIZE + s - r < Half * BLOCK_SIZE
<1> DEFINE B == BLOCK_SIZE
           w == IndexRange
           x == k * B + r
           y == l * B + s
           d == (l - k) * B + s - r
           h == Half * B
<1>1. /\ B \in Nat \ {0} /\ w \in Nat \ {0} /\ Half \in Nat /\ nb = 2 * Half
      /\ w = nb * B
  BY Sizes
<1>2. x \in Int /\ y \in Int /\ y - x = d /\ d \in 0 .. w - 1
  BY <1>1
<1>3. h \in Nat /\ w = 2 * h
  BY <1>1
<1>4. At(k, r) = x % w /\ At(l, s) = y % w
  BY AtMod
<1> HIDE DEF x, y, d, h
<1>5. Minus(At(k, r), At(l, s)) = IF x = y THEN 0 ELSE w - (y - x)
  <2>1. ((x % w) - (y % w)) % w = IF x = y THEN 0 ELSE w - (y - x)
    BY <1>1, <1>2, MinusMod
  <2> QED BY <2>1, <1>4 DEF Minus
<1>6. w \div 2 = h
  BY <1>3
<1>7. circular_less_than(At(k, r), At(l, s)) <=> d > 0 /\ d < h
  BY <1>2, <1>3, <1>5, <1>6 DEF circular_less_than
<1> QED BY <1>7 DEF d, h

-----------------------------------------------------------------------------
(* Slots of a ring.                                                        *)

\* The slot j before slot t.
Back(c, t, j) == IF j <= t THEN t - j ELSE t - j + c

LEMMA RingArithmetic ==
  ASSUME NEW c \in Nat \ {0}, NEW t \in 0 .. c - 1
  PROVE  /\ (t + 1) % c = IF t = c - 1 THEN 0 ELSE t + 1
         /\ (t - 1) % c = Back(c, t, 1)
         /\ \A i \in 0 .. c - 1 :
              (t + 1 + i) % c = IF t + 1 + i < c THEN t + 1 + i ELSE t + 1 + i - c
<1>1. (t + 1) % c = IF t = c - 1 THEN 0 ELSE t + 1
  BY Quotient
<1>2. (t - 1) % c = IF t = 0 THEN c - 1 ELSE t - 1
  <2>1. CASE t = 0
    <3>1. t - 1 = c * (-1) + (c - 1) /\ c - 1 \in 0 .. c - 1 /\ t - 1 \in Int
      BY <2>1
    <3>2. (t - 1) % c = c - 1
      BY <3>1, Quotient
    <3> QED BY <3>2, <2>1
  <2>2. CASE t # 0
    BY <2>2
  <2> QED BY <2>1, <2>2
<1>3. ASSUME NEW i \in 0 .. c - 1
      PROVE  (t + 1 + i) % c = IF t + 1 + i < c THEN t + 1 + i ELSE t + 1 + i - c
  OBVIOUS
<1>4. t = 0 => (c = 1 => Back(c, t, 1) = 0) /\ Back(c, t, 1) = c - 1
  BY DEF Back
<1>5. t # 0 => Back(c, t, 1) = t - 1
  BY DEF Back
<1> QED BY <1>1, <1>2, <1>3, <1>4, <1>5

\* Going on by -d as a word is going back by d, in a ring whose capacity divides
\* the number of blocks in the range.
LEMMA RingLookup ==
  ASSUME NEW c \in Nat \ {0}, nb % c = 0, c <= nb, NEW t \in 0 .. c - 1, NEW d \in 0 .. c - 1
  PROVE  (t + ((0 - d) % nb)) % c = Back(c, t, d)
<1>1. nb \in Nat \ {0}
  BY Sizes
<1> DEFINE q == nb \div c
<1>2. q \in Int /\ nb = c * q
  BY <1>1, DivMod
<1> HIDE DEF q
<1>3. CASE d = 0
  <2>1. (0 - d) % nb = 0 /\ t % c = t /\ Back(c, t, d) = t
    BY <1>1, <1>3 DEF Back
  <2> QED BY <2>1
<1>4. CASE d # 0
  <2>1. 0 - d = nb * (-1) + (nb - d) /\ nb - d \in 0 .. nb - 1 /\ 0 - d \in Int
    BY <1>1, <1>4
  <2>2. (0 - d) % nb = nb - d
    BY <1>1, <2>1, Quotient
  <2>3. CASE d <= t
    <3>1. PICK n \in Int, r \in 0 .. c - 1 : n = t + (nb - d) /\ r = t - d
      BY <1>1, <2>3
    <3>2. n = c * q + r
      BY <1>1, <1>2, <3>1
    <3>3. n % c = r
      BY <1>2, <3>2, Quotient
    <3> QED BY <2>2, <2>3, <3>1, <3>3 DEF Back
  <2>4. CASE d > t
    <3>1. PICK n \in Int, r \in 0 .. c - 1 : n = t + (nb - d) /\ r = t - d + c
      BY <1>1, <2>4
    <3>2. n = c * (q - 1) + r /\ q - 1 \in Int
      BY <1>1, <1>2, <3>1
    <3>3. n % c = r
      BY <3>2, Quotient
    <3> QED BY <2>2, <2>4, <3>1, <3>3 DEF Back
  <2> QED BY <2>3, <2>4
<1> QED BY <1>3, <1>4

-----------------------------------------------------------------------------
(* The invariant.  Blocks are numbered as if indices did not come around:  *)
(* producer p has filled, or begun to, the blocks up to e - 1, and f is    *)
(* the first that was not given back.                                      *)

\* The tail is at the beginning of a block that is not there yet.
Ahead(p) == tailIndex[p] % BLOCK_SIZE = 0 /\ enq[p] # "store"

\* How many messages of block e - 1 are published, ...
filled(p) == IF Ahead(p) THEN BLOCK_SIZE ELSE tailIndex[p] % BLOCK_SIZE

\* ... how many of block f are taken, ...
taken(p) ==
  IF from # p THEN headIndex[p] % BLOCK_SIZE
  ELSE IF deq = "clear" THEN BLOCK_SIZE ELSE index % BLOCK_SIZE

\* ... and how many of that are claimed.
claimed(p) == IF from = p /\ deq # "clear" THEN taken(p) + 1 ELSE taken(p)

\* In the middle of adding a block.
Opening == {"entry", "tail", "block", "malloc"}

\* The blocks from f up to e are less than half the range.
Near(p, f, e) == e - f < Half \/ (e - f = Half /\ claimed(p) > 0)

Ends(p, f, e) ==
  /\ f <= e
  /\ headIndex[p] = At(f, claimed(p)) /\ tailIndex[p] = At(e - 1, filled(p))
  /\ f = e => claimed(p) = 0 /\ filled(p) = BLOCK_SIZE
  /\ f = e - 1 => claimed(p) <= filled(p)
  /\ from = p => f < e
  /\ from = p /\ deq # "clear" => index = At(f, taken(p))
  /\ Near(p, f, e) /\ (enq[p] \in Opening => Near(p, f, e + 1))
  /\ enq[p] \in Opening => tailIndex[p] % BLOCK_SIZE = 0

\* The ring in use.  While a producer looks for a block, the tail is at the
\* entry that is to get it.
capacity(p) == blockIndex(p).capacity
RingSlots(h) == 0 .. h.capacity - 1
Pending(p) == enq[p] \in {"block", "malloc"}
Keyed == {"tail", "block", "malloc"}
LastSlot(p) ==
  IF Pending(p) THEN Back(capacity(p), blockIndex(p).tail, 1) ELSE blockIndex(p).tail
NextSlot(p) == IF Pending(p) THEN blockIndex(p).tail ELSE newTail(p)
Age(p, s) == Back(capacity(p), LastSlot(p), s)
EntryAt(p, s) == entries[p][blockIndex(p).index[s]]
Live(x) == x.value \in Blocks

HeaderOK(h, n) ==
  /\ h.capacity > 0 /\ h.tail \in RingSlots(h) /\ h.index \in [RingSlots(h) -> 1 .. n]
  /\ \A s, r \in RingSlots(h) : h.index[s] = h.index[r] => s = r
  /\ nb % h.capacity = 0 /\ h.capacity <= nb

\* Every ring has each of its entries once, and the one in use has all.
Headers(p) ==
  /\ \A i \in DOMAIN headers[p] : HeaderOK(headers[p][i], Len(entries[p]))
  /\ headers[p] # << >> =>
       /\ capacity(p) = Len(entries[p])
       /\ \A n \in DOMAIN entries[p] :
            \E s \in RingSlots(blockIndex(p)) : blockIndex(p).index[s] = n

\* A producer without a block index does nothing.
Bare(p) ==
  headers[p] = << >> =>
    /\ enq[p] = "idle" /\ tailIndex[p] = 0 /\ headIndex[p] = 0 /\ from # p
    /\ \A n \in DOMAIN entries[p] : ~ Live(entries[p][n])

\* The entries of the blocks f .. e - 1 are one behind the other, up to the last
\* slot; the others are free.
Ring(p, f, e) ==
  headers[p] # << >> =>
    /\ e - f <= capacity(p)
    /\ \A s \in RingSlots(blockIndex(p)) :
         IF Age(p, s) < e - f
         THEN Live(EntryAt(p, s)) /\ EntryAt(p, s).key = Key(e - 1 - Age(p, s))
         ELSE /\ ~ Live(EntryAt(p, s))
              /\ Free(EntryAt(p, s))
                 \/ (s = NextSlot(p) /\ enq[p] \in Keyed)
    /\ \A s \in RingSlots(blockIndex(p)) : s = NextSlot(p) /\ enq[p] \in Keyed =>
         ~ Live(EntryAt(p, s)) /\ EntryAt(p, s).key = tailIndex[p]

\* Which of its messages block number k, in b, holds.
Holds(p, f, e, k, b) ==
  /\ elementsCompletelyDequeued[b] = IF k = f THEN taken(p) ELSE 0
  /\ \A r \in Slots : (k = f => r >= taken(p)) /\ (k = e - 1 => r < filled(p)) =>
                        contents[b][r] = <<p, Key(k) + r>>

Holding(p, f, e) ==
  headers[p] # << >> =>
    /\ \A s \in RingSlots(blockIndex(p)) :
         Age(p, s) < e - f => Holds(p, f, e, e - 1 - Age(p, s), EntryAt(p, s).value)
    /\ ~ Ahead(p) => tailBlock[p] = EntryAt(p, LastSlot(p)).value

\* From slot t of its ring L, the consumer gets to the entry of block f, which
\* is d slots before it.  The entry at t is in use, or the producer has taken it
\* back and will use it for the same block.
Leads(p, f, L, t, d) ==
  LET h == headers[p][L]
      x == entries[p][h.index[t]]
      y == entries[p][h.index[Back(h.capacity, t, d)]]
  IN  /\ x.key = Key(f + d) /\ y.key = Key(f) /\ Live(y)
      /\ Live(x) \/ (L = Len(headers[p]) /\ t = NextSlot(p) /\ Ahead(p) /\ x.key = tailIndex[p])

Points(p, f, L, t) == \E d \in RingSlots(headers[p][L]) : Leads(p, f, L, t, d)

Looking(p, f) ==
  from = p =>
    /\ deq \in {"tail", "entry"} => localBlockIndex \in DOMAIN headers[p]
    /\ deq = "tail" =>
         \/ localBlockIndex = Len(headers[p])
         \/ Points(p, f, localBlockIndex, headers[p][localBlockIndex].tail)
    /\ deq = "entry" =>
         /\ tail \in RingSlots(headers[p][localBlockIndex])
         /\ Points(p, f, localBlockIndex, tail)
    /\ deq \in {"element", "clear"} =>
         /\ entry \in DOMAIN entries[p]
         /\ entries[p][entry].key = Key(f) /\ Live(entries[p][entry])
    /\ deq = "clear" => entries[p][entry].value = block

InOrder(p, f, e) == Ends(p, f, e) /\ Ring(p, f, e) /\ Holding(p, f, e) /\ Looking(p, f)

ProducerInv(p) ==
  Headers(p) /\ Bare(p) /\ \E f, e \in Int : InOrder(p, f, e)

FromInv == IF deq \in {"idle", "add"} THEN from = NoMessage ELSE from \in Producers

\* Blocks nobody uses, and those in an entry.
Unused == pool \cup freeList \cup heap
InEntry(b) == \E p \in Producers : \E n \in DOMAIN entries[p] : entries[p][n].value = b

BlocksInv ==
  /\ pool \cap freeList = {} /\ pool \cap heap = {} /\ heap \cap freeList = {}
  /\ \A p, q \in Producers : \A n \in DOMAIN entries[p], m \in DOMAIN entries[q] :
       Live(entries[p][n]) /\ entries[p][n].value = entries[q][m].value =>
         p = q /\ n = m
  /\ \A b \in Unused : ~ InEntry(b)
  /\ deq = "add" => block \in Blocks \ Unused /\ ~ InEntry(block)
  /\ \A b \in Blocks : b \in Unused \/ (deq = "add" /\ b = block) \/ InEntry(b)

Entry == [key : Words, value : Blocks \cup {NoBlock, Garbage}]
Header ==
  UNION {[capacity : {c}, tail : 0 .. c - 1, index : [0 .. c - 1 -> Nat]] : c \in Nat}

TypeInv ==
  /\ tailIndex \in [Producers -> Words] /\ headIndex \in [Producers -> Words]
  /\ tailBlock \in [Producers -> Blocks \cup {NoBlock}]
  /\ headers \in [Producers -> Seq(Header)]
  /\ entries \in [Producers -> Seq(Entry)]
  /\ contents \in [Blocks -> [Slots -> Messages \cup {NoMessage}]]
  /\ elementsCompletelyDequeued \in [Blocks -> 0 .. BLOCK_SIZE]
  /\ pool \subseteq Blocks /\ freeList \subseteq Blocks /\ heap \subseteq Blocks
  /\ enq \in [Producers -> {"idle", "entry", "tail", "block", "malloc", "store"}]
  /\ deq \in {"idle", "index", "tail", "entry", "element", "clear", "add"}
  /\ index \in Words
  /\ block \in Blocks \cup {NoBlock}
  /\ element \in Messages \cup {NoMessage}

IInv == TypeInv /\ FromInv /\ BlocksInv /\ \A p \in Producers : ProducerInv(p)

-----------------------------------------------------------------------------
(* What the invariant says of a ring.                                      *)

LEMMA HeaderType ==
  ASSUME NEW h \in Header
  PROVE  /\ h.capacity \in Nat \ {0} /\ h.tail \in 0 .. h.capacity - 1
         /\ h.index \in [0 .. h.capacity - 1 -> Nat]
         /\ h = [capacity |-> h.capacity, tail |-> h.tail, index |-> h.index]
BY DEF Header

LEMMA EntryType ==
  ASSUME NEW x \in Entry
  PROVE  /\ x.key \in Words /\ x.value \in Blocks \cup {NoBlock, Garbage}
         /\ x = [key |-> x.key, value |-> x.value]
BY DEF Entry

LEMMA SeqTypes ==
  ASSUME TypeInv, NEW p \in Producers
  PROVE  /\ headers[p] \in Seq(Header) /\ Len(headers[p]) \in Nat
         /\ DOMAIN headers[p] = 1 .. Len(headers[p])
         /\ \A i \in DOMAIN headers[p] : headers[p][i] \in Header
         /\ headers[p] # << >> =>
              Len(headers[p]) \in DOMAIN headers[p] /\ blockIndex(p) \in Header
         /\ entries[p] \in Seq(Entry) /\ Len(entries[p]) \in Nat
         /\ DOMAIN entries[p] = 1 .. Len(entries[p])
         /\ \A n \in DOMAIN entries[p] : entries[p][n] \in Entry
<1>1. headers[p] \in Seq(Header) /\ entries[p] \in Seq(Entry)
  BY DEF TypeInv
<1>2. /\ Len(headers[p]) \in Nat /\ DOMAIN headers[p] = 1 .. Len(headers[p])
      /\ Len(entries[p]) \in Nat /\ DOMAIN entries[p] = 1 .. Len(entries[p])
  BY <1>1, LenProperties
<1>3. /\ \A i \in DOMAIN headers[p] : headers[p][i] \in Header
      /\ \A n \in DOMAIN entries[p] : entries[p][n] \in Entry
  BY <1>1, <1>2, ElementOfSeq
<1>4. headers[p] # << >> => Len(headers[p]) \in DOMAIN headers[p]
  <2>1. headers[p] # << >> => Len(headers[p]) \in Nat \ {0}
    BY <1>1, EmptySeq
  <2> QED BY <1>2, <2>1
<1> QED BY <1>1, <1>2, <1>3, <1>4 DEF blockIndex

LEMMA BackFacts ==
  ASSUME NEW c \in Nat \ {0}, NEW t \in 0 .. c - 1
  PROVE  /\ \A j \in 0 .. c - 1 : Back(c, t, j) \in 0 .. c - 1 /\ Back(c, t, Back(c, t, j)) = j
         /\ Back(c, t, 0) = t /\ Back(c, t, t) = 0
         /\ \A j \in 0 .. c - 1 : Back(c, t, j) = 0 => j = t
BY DEF Back

LEMMA RingFacts ==
  ASSUME TypeInv, NEW p \in Producers, Headers(p), headers[p] # << >>
  PROVE  /\ capacity(p) \in Nat \ {0} /\ RingSlots(blockIndex(p)) = 0 .. capacity(p) - 1
         /\ LastSlot(p) \in 0 .. capacity(p) - 1 /\ NextSlot(p) \in 0 .. capacity(p) - 1
         /\ NextSlot(p) = IF LastSlot(p) = capacity(p) - 1 THEN 0 ELSE LastSlot(p) + 1
         /\ newTail(p) = IF blockIndex(p).tail = capacity(p) - 1 THEN 0
                         ELSE blockIndex(p).tail + 1
         /\ newTail(p) \in 0 .. capacity(p) - 1
         /\ \A s \in 0 .. capacity(p) - 1 :
              /\ Age(p, s) \in 0 .. capacity(p) - 1
              /\ blockIndex(p).index[s] \in DOMAIN entries[p] /\ EntryAt(p, s) \in Entry
              /\ Age(p, s) = 0 <=> s = LastSlot(p)
              /\ Age(p, s) = capacity(p) - 1 <=> s = NextSlot(p)
         /\ \A s, r \in 0 .. capacity(p) - 1 :
              blockIndex(p).index[s] = blockIndex(p).index[r] => s = r
         /\ \A n \in DOMAIN entries[p] :
              \E s \in 0 .. capacity(p) - 1 : blockIndex(p).index[s] = n
<1> DEFINE h == blockIndex(p)
           c == capacity(p)
<1>1. /\ h \in Header /\ c \in Nat \ {0} /\ c = h.capacity /\ h.tail \in 0 .. c - 1
      /\ HeaderOK(h, Len(entries[p])) /\ DOMAIN entries[p] = 1 .. Len(entries[p])
      /\ \A n \in DOMAIN entries[p] : entries[p][n] \in Entry
  BY SeqTypes, HeaderType DEF Headers, capacity, blockIndex
<1>2. RingSlots(h) = 0 .. c - 1
  BY <1>1 DEF RingSlots
<1>3. newTail(p) = IF h.tail = c - 1 THEN 0 ELSE h.tail + 1
  BY <1>1, RingArithmetic DEF newTail
<1>4. newTail(p) \in 0 .. c - 1
  BY <1>1, <1>3
<1>5. /\ LastSlot(p) = IF Pending(p) THEN Back(c, h.tail, 1) ELSE h.tail
      /\ NextSlot(p) = IF Pending(p) THEN h.tail ELSE newTail(p)
  BY DEF LastSlot, NextSlot, capacity
<1>6. /\ LastSlot(p) \in 0 .. c - 1 /\ NextSlot(p) \in 0 .. c - 1
      /\ NextSlot(p) = IF LastSlot(p) = c - 1 THEN 0 ELSE LastSlot(p) + 1
  <2> HIDE DEF h, c
  <2>1. Back(c, h.tail, 1) = IF h.tail = 0 THEN c - 1 ELSE h.tail - 1
    BY <1>1 DEF Back
  <2> QED BY <1>1, <1>3, <1>4, <1>5, <2>1
<1>7. ASSUME NEW s \in 0 .. c - 1
      PROVE  /\ Age(p, s) \in 0 .. c - 1
             /\ Age(p, s) = 0 <=> s = LastSlot(p)
             /\ Age(p, s) = c - 1 <=> s = NextSlot(p)
  <2>1. Age(p, s) = Back(c, LastSlot(p), s)
    BY DEF Age
  <2> HIDE DEF h, c
  <2> QED BY <1>1, <1>6, <2>1 DEF Back
<1>8. ASSUME NEW s \in 0 .. c - 1
      PROVE  h.index[s] \in DOMAIN entries[p] /\ EntryAt(p, s) \in Entry
  BY <1>1, <1>2 DEF HeaderOK, EntryAt
<1>9. /\ \A s, r \in 0 .. c - 1 : h.index[s] = h.index[r] => s = r
      /\ \A n \in DOMAIN entries[p] : \E s \in 0 .. c - 1 : h.index[s] = n
  BY <1>1, <1>2 DEF HeaderOK, Headers
<1> QED BY <1>1, <1>2, <1>3, <1>4, <1>6, <1>7, <1>8, <1>9

-----------------------------------------------------------------------------
(* What a step leaves alone.                                               *)

\* The consumer is where it was, as far as p is concerned.
SameConsumer(p) ==
  /\ from' = p <=> from = p
  /\ from = p => UNCHANGED <<deq, index, localBlockIndex, tail, entry, block>>

SameRings(p) ==
  headers'[p] = headers[p] /\ entries'[p] = entries[p]

\* p's messages and where it keeps them.
SameBlocks(p) ==
  \A n \in DOMAIN entries[p] : Live(entries[p][n]) =>
    /\ elementsCompletelyDequeued'[entries[p][n].value]
         = elementsCompletelyDequeued[entries[p][n].value]
    /\ contents'[entries[p][n].value] = contents[entries[p][n].value]

LEMMA FrameEnds ==
  ASSUME NEW p \in Producers, NEW f \in Int, NEW e \in Int, Ends(p, f, e),
         tailIndex'[p] = tailIndex[p], headIndex'[p] = headIndex[p],
         Ahead(p)' <=> Ahead(p), enq'[p] \in Opening => enq[p] \in Opening,
         from' = p <=> from = p,
         from = p => index' = index /\ (deq' = "clear" <=> deq = "clear")
  PROVE  /\ Ends(p, f, e)'
         /\ taken(p)' = taken(p) /\ filled(p)' = filled(p) /\ claimed(p)' = claimed(p)
<1>1. taken(p)' = taken(p) /\ filled(p)' = filled(p)
  BY DEF taken, filled
<1>2. claimed(p)' = claimed(p)
  BY <1>1 DEF claimed
<1>3. /\ Near(p, f, e)' <=> Near(p, f, e)
      /\ Near(p, f, e + 1)' <=> Near(p, f, e + 1)
  BY <1>2 DEF Near
<1> QED BY <1>1, <1>2, <1>3 DEF Ends

LEMMA FrameRing ==
  ASSUME NEW p \in Producers, NEW f \in Int, NEW e \in Int,
         SameRings(p), tailIndex'[p] = tailIndex[p],
         Pending(p)' <=> Pending(p), enq'[p] \in Keyed <=> enq[p] \in Keyed
  PROVE  /\ Headers(p) => Headers(p)'
         /\ Ring(p, f, e) => Ring(p, f, e)'
         /\ NextSlot(p)' = NextSlot(p) /\ LastSlot(p)' = LastSlot(p)
         /\ capacity(p)' = capacity(p) /\ blockIndex(p)' = blockIndex(p)
         /\ \A s : Age(p, s)' = Age(p, s) /\ EntryAt(p, s)' = EntryAt(p, s)
<1>1. blockIndex(p)' = blockIndex(p) /\ capacity(p)' = capacity(p)
  BY DEF SameRings, blockIndex, capacity
<1>2. newTail(p)' = newTail(p)
  BY <1>1 DEF newTail
<1>3. NextSlot(p)' = NextSlot(p) /\ LastSlot(p)' = LastSlot(p)
  BY <1>1, <1>2 DEF NextSlot, LastSlot
<1>4. \A s : Age(p, s)' = Age(p, s) /\ EntryAt(p, s)' = EntryAt(p, s)
  BY <1>1, <1>3 DEF Age, EntryAt, SameRings
<1>5. Headers(p) => Headers(p)'
  BY <1>1 DEF Headers, SameRings
<1>6. Ring(p, f, e) => Ring(p, f, e)'
  BY <1>1, <1>3, <1>4 DEF Ring, SameRings
<1> QED BY <1>1, <1>3, <1>4, <1>5, <1>6

LEMMA FrameHolding ==
  ASSUME TypeInv, NEW p \in Producers, NEW f \in Int, NEW e \in Int,
         Headers(p), Ring(p, f, e), Holding(p, f, e),
         SameRings(p), SameBlocks(p), tailIndex'[p] = tailIndex[p],
         Pending(p)' <=> Pending(p), enq'[p] \in Keyed <=> enq[p] \in Keyed,
         Ahead(p)' <=> Ahead(p), tailBlock'[p] = tailBlock[p],
         taken(p)' = taken(p), filled(p)' = filled(p)
  PROVE  Holding(p, f, e)'
<1> SUFFICES ASSUME headers[p] # << >> PROVE Holding(p, f, e)'
  BY DEF Holding, SameRings
<1>1. /\ LastSlot(p)' = LastSlot(p) /\ blockIndex(p)' = blockIndex(p)
      /\ \A s : Age(p, s)' = Age(p, s) /\ EntryAt(p, s)' = EntryAt(p, s)
  BY FrameRing
<1>2. ASSUME NEW s \in RingSlots(blockIndex(p)), Age(p, s) < e - f
      PROVE  Holds(p, f, e, e - 1 - Age(p, s), EntryAt(p, s).value)'
  <2>1. blockIndex(p).index[s] \in DOMAIN entries[p] /\ Live(EntryAt(p, s))
    BY <1>2, RingFacts DEF Ring
  <2>2. Holds(p, f, e, e - 1 - Age(p, s), EntryAt(p, s).value)
    BY <1>2 DEF Holding
  <2> DEFINE b == EntryAt(p, s).value
             k == e - 1 - Age(p, s)
  <2>3. contents'[b] = contents[b]
        /\ elementsCompletelyDequeued'[b] = elementsCompletelyDequeued[b]
    BY <2>1 DEF SameBlocks, EntryAt
  <2>4. EntryAt(p, s)' = EntryAt(p, s) /\ Age(p, s)' = Age(p, s)
    BY <1>1
  <2>5. b' = b /\ k' = k
    BY <2>4
  <2> HIDE DEF b, k
  <2>6. Holds(p, f, e, k, b)
    BY <2>2 DEF b, k
  <2>7. (elementsCompletelyDequeued'[b] = IF k = f THEN taken(p) ELSE 0)
    BY <2>3, <2>6 DEF Holds
  <2>8. \A r \in Slots : (k = f => r >= taken(p)) /\ (k = e - 1 => r < filled(p)) =>
                        contents'[b][r] = <<p, Key(k) + r>>
    BY <2>3, <2>6 DEF Holds
  <2>9. (Holds(p, f, e, k, b))'
    BY <2>5, <2>7, <2>8 DEF Holds
  <2> QED BY <2>9 DEF b, k
<1>3. ~ Ahead(p) => tailBlock[p] = EntryAt(p, LastSlot(p)).value
  BY DEF Holding
<1>4. ~ Ahead(p)' => tailBlock'[p] = EntryAt(p, LastSlot(p))'.value
  BY <1>1, <1>3
<1> QED BY <1>1, <1>2, <1>4 DEF Holding

LEMMA FrameLooking ==
  ASSUME NEW p \in Producers, NEW f \in Int, Looking(p, f),
         SameRings(p), SameConsumer(p),
         Ahead(p) =>
           NextSlot(p)' = NextSlot(p) /\ Ahead(p)' /\ tailIndex'[p] = tailIndex[p]
  PROVE  Looking(p, f)'
<1> SUFFICES ASSUME from = p PROVE Looking(p, f)'
  BY DEF Looking, SameConsumer
<1>1. \A L, t, d : Leads(p, f, L, t, d) => Leads(p, f, L, t, d)'
  BY DEF Leads, SameRings
<1>2. \A L, t : Points(p, f, L, t) => Points(p, f, L, t)'
  BY <1>1 DEF Points, SameRings
<1> QED BY <1>2 DEF Looking, SameRings, SameConsumer

-----------------------------------------------------------------------------
(* Steps that leave p's rings as they are.                                 *)

LEMMA Others ==
  ASSUME TypeInv, NEW p \in Producers, ProducerInv(p),
         SameRings(p), SameBlocks(p), SameConsumer(p),
         tailIndex'[p] = tailIndex[p], headIndex'[p] = headIndex[p],
         enq'[p] = enq[p], tailBlock'[p] = tailBlock[p]
  PROVE  ProducerInv(p)'
<1>1. PICK f \in Int, e \in Int : InOrder(p, f, e)
  BY DEF ProducerInv
<1>2. /\ Ends(p, f, e) /\ Ring(p, f, e) /\ Holding(p, f, e) /\ Looking(p, f)
      /\ Headers(p) /\ Bare(p)
  BY <1>1 DEF ProducerInv, InOrder
<1>3. Ahead(p)' <=> Ahead(p)
  BY DEF Ahead
<1>4. Pending(p)' <=> Pending(p)
  BY DEF Pending
<1>5. /\ from' = p <=> from = p
      /\ from = p => index' = index /\ (deq' = "clear" <=> deq = "clear")
  BY DEF SameConsumer
<1>6. /\ Ends(p, f, e)'
      /\ taken(p)' = taken(p) /\ filled(p)' = filled(p)
  BY <1>2, <1>3, <1>5, FrameEnds
<1>7. Headers(p)' /\ Ring(p, f, e)' /\ NextSlot(p)' = NextSlot(p)
  BY <1>2, <1>4, FrameRing
<1>8. Holding(p, f, e)'
  BY <1>2, <1>3, <1>4, <1>6, FrameHolding
<1>9. Looking(p, f)'
  BY <1>2, <1>3, <1>7, FrameLooking
<1>10. Bare(p)'
  BY <1>2 DEF Bare, SameRings, SameConsumer
<1> QED BY <1>6, <1>7, <1>8, <1>9, <1>10 DEF ProducerInv, InOrder

\* A producer that changes no block of another one, and neither ring nor index
\* of it, leaves its invariant alone.
LEMMA OtherProducers ==
  ASSUME IInv, NEW p \in Producers,
         \A q \in Producers \ {p} :
           /\ tailIndex'[q] = tailIndex[q] /\ enq'[q] = enq[q] /\ tailBlock'[q] = tailBlock[q]
           /\ SameRings(q) /\ SameBlocks(q),
         UNCHANGED <<headIndex, consumer>>, ProducerInv(p)'
  PROVE  \A q \in Producers : ProducerInv(q)'
<1> SUFFICES ASSUME NEW q \in Producers, q # p PROVE ProducerInv(q)'
  OBVIOUS
<1>1. SameConsumer(q) /\ headIndex'[q] = headIndex[q]
  BY DEF SameConsumer, consumer, locals
<1> QED BY <1>1, Others DEF IInv

LEMMA FrameBlocks ==
  ASSUME TypeInv, BlocksInv, UNCHANGED <<pool, freeList, heap>>,
         deq' = "add" <=> deq = "add", deq = "add" => block' = block,
         \A p \in Producers : \A n \in DOMAIN entries[p] \cup DOMAIN entries'[p] :
           (n \in DOMAIN entries[p] /\ Live(entries[p][n]))
             \/ (n \in DOMAIN entries'[p] /\ Live(entries'[p][n])) =>
           /\ n \in DOMAIN entries[p] /\ n \in DOMAIN entries'[p]
           /\ entries'[p][n].value = entries[p][n].value
  PROVE  BlocksInv'
<1>1. \A b \in Blocks : InEntry(b)' <=> InEntry(b)
  BY DEF InEntry, Live
<1>2. Unused' = Unused /\ Unused \subseteq Blocks
  BY DEF Unused, TypeInv
<1>3. ASSUME NEW p \in Producers, NEW q \in Producers,
             NEW n \in DOMAIN entries'[p], NEW m \in DOMAIN entries'[q],
             Live(entries'[p][n]), entries'[p][n].value = entries'[q][m].value
      PROVE  p = q /\ n = m
  <2>1. /\ n \in DOMAIN entries[p] /\ m \in DOMAIN entries[q]
        /\ Live(entries[p][n]) /\ entries[p][n].value = entries[q][m].value
    BY <1>3 DEF Live
  <2> QED BY <1>3, <2>1 DEF BlocksInv
<1>4. /\ pool \cap freeList = {} /\ pool \cap heap = {} /\ heap \cap freeList = {}
      /\ \A b \in Unused : ~ InEntry(b)'
      /\ deq' = "add" => block' \in Blocks \ Unused /\ ~ InEntry(block)'
      /\ \A b \in Blocks : b \in Unused \/ (deq' = "add" /\ b = block') \/ InEntry(b)'
  <2>1. deq = "add" => (InEntry(block)' <=> InEntry(block))
    BY DEF InEntry, BlocksInv, Live
  <2> QED BY <1>1, <1>2, <2>1 DEF BlocksInv
<1> QED BY <1>2, <1>3, <1>4 DEF BlocksInv, Live

LEMMA EnqType ==
  ASSUME TypeInv, NEW p \in Producers, NEW l, Goto(p, l)
  PROVE  enq'[p] = l /\ \A q \in Producers \ {p} : enq'[q] = enq[q]
BY DEF TypeInv, Goto

\* p goes on to a statement l, and nothing else happens.
LEMMA GotoStep ==
  ASSUME IInv, NEW p \in Producers,
         NEW l \in {"idle", "entry", "tail", "block", "malloc", "store"}, Goto(p, l),
         UNCHANGED <<indices, headers, entries, memory, consumer>>,
         l \in Keyed <=> enq[p] \in Keyed, Pending(p)' <=> Pending(p),
         Ahead(p)' <=> Ahead(p), Bare(p)',
         \A f, e \in Int : Ends(p, f, e) => Ends(p, f, e)'
  PROVE  IInv'
<1>1. enq'[p] = l /\ \A q \in Producers \ {p} : enq'[q] = enq[q]
  BY EnqType DEF IInv
<1>2. \A q \in Producers : SameRings(q) /\ SameBlocks(q) /\ SameConsumer(q)
  BY DEF SameRings, SameBlocks, SameConsumer, consumer, locals, memory
<1>3. PICK f \in Int, e \in Int : InOrder(p, f, e)
  BY DEF IInv, ProducerInv
<1>4. Headers(p) /\ Ring(p, f, e) /\ Holding(p, f, e) /\ Looking(p, f) /\ Ends(p, f, e)
  BY <1>3 DEF InOrder, IInv, ProducerInv
<1>5. taken(p)' = taken(p) /\ filled(p)' = filled(p)
  BY DEF taken, filled, indices, consumer, locals
<1>6. Headers(p)' /\ Ring(p, f, e)' /\ NextSlot(p)' = NextSlot(p)
  BY <1>1, <1>2, <1>4, FrameRing DEF indices
<1>7. Holding(p, f, e)'
  BY <1>1, <1>2, <1>4, <1>5, FrameHolding DEF IInv, indices
<1>8. Looking(p, f)'
  BY <1>2, <1>4, <1>6, FrameLooking DEF indices
<1>9. ProducerInv(p)'
  BY <1>4, <1>6, <1>7, <1>8 DEF ProducerInv, InOrder
<1>10. \A q \in Producers : ProducerInv(q)'
  BY <1>1, <1>2, <1>9, OtherProducers DEF indices
<1>11. TypeInv'
  BY DEF IInv, TypeInv, Goto, indices, memory, consumer, locals
<1>12. BlocksInv'
  BY FrameBlocks DEF IInv, memory, consumer, locals
<1>13. FromInv'
  BY DEF IInv, FromInv, consumer, locals
<1> QED BY <1>10, <1>11, <1>12, <1>13 DEF IInv

LEMMA Ranges ==
  ASSUME TypeInv, NEW p \in Producers
  PROVE  /\ taken(p) \in 0 .. BLOCK_SIZE /\ claimed(p) \in 0 .. BLOCK_SIZE
         /\ filled(p) \in 0 .. BLOCK_SIZE
         /\ from = p /\ deq # "clear" =>
              taken(p) \in 0 .. BLOCK_SIZE - 1 /\ claimed(p) = taken(p) + 1
         /\ from # p => claimed(p) \in 0 .. BLOCK_SIZE - 1 /\ claimed(p) = taken(p)
<1> DEFINE B == BLOCK_SIZE
<1>1. B \in Nat \ {0}
  BY Sizes
<1>2. \A x \in Words : x % B \in 0 .. B - 1
  BY <1>1, DivMod DEF Words
<1>3. tailIndex[p] \in Words /\ headIndex[p] \in Words /\ index \in Words
  BY DEF TypeInv
<1>4. tailIndex[p] % B \in 0 .. B - 1 /\ headIndex[p] % B \in 0 .. B - 1 /\ index % B \in 0 .. B - 1
  BY <1>2, <1>3
<1>5. filled(p) \in 0 .. B
  BY <1>1, <1>4 DEF filled
<1>6. /\ taken(p) \in 0 .. B
      /\ from = p /\ deq # "clear" => taken(p) \in 0 .. B - 1
      /\ from # p => taken(p) \in 0 .. B - 1
  BY <1>1, <1>4 DEF taken
<1> QED BY <1>1, <1>5, <1>6 DEF claimed

\* n blocks and some messages, in messages.
LEMMA Scaled ==
  ASSUME NEW n \in Int, NEW m \in Int, n <= m
  PROVE  n * BLOCK_SIZE <= m * BLOCK_SIZE /\ n * BLOCK_SIZE \in Int /\ m * BLOCK_SIZE \in Int
<1>1. BLOCK_SIZE \in Nat
  BY Sizes
<1> QED BY <1>1

\* What the test for room in enqueue makes sure of.
LEMMA RoomAheadNear ==
  ASSUME TypeInv, NEW p \in Producers, NEW f \in Int, NEW e \in Int, Ends(p, f, e),
         Ahead(p), RoomAhead(p)
  PROVE  Near(p, f, e + 1)
<1> DEFINE B == BLOCK_SIZE
           g == claimed(p)
           n == e + 1 - f
           d == n * B + 0 - g
<1>1. B \in Nat /\ B > 1 /\ Half \in Nat /\ Half >= 2 /\ IndexRange = (2 * Half) * B
  BY Sizes
<1>2. g \in 0 .. B
  BY Ranges
<1>3. filled(p) = B /\ tailIndex[p] = Key(e)
  <2>1. filled(p) = B
    BY DEF filled
  <2>2. e - 1 \in Int /\ (e - 1) + 1 = e /\ B \in 0 .. B
    BY <1>1
  <2>3. At(e - 1, B) = Key((e - 1) + 1)
    BY DEF At
  <2> QED BY <2>1, <2>2, <2>3 DEF Ends
<1>4. Plus(tailIndex[p], B) = At(e + 1, 0)
  BY <1>1, <1>3, KeyNext, AtWord
<1>5. headIndex[p] = At(f, g)
  BY DEF Ends
<1>6. n \in Int /\ n >= 1 /\ n <= Half + 1
  BY <1>1, <1>2 DEF Ends, Near
<1> HIDE DEF g, n
<1>7. d \in 0 .. IndexRange - 1
  <2>1. 1 * B <= n * B /\ n * B <= (Half + 1) * B /\ n * B \in Int
    BY <1>1, <1>6, Scaled
  <2>2. (Half + 1) * B < (2 * Half) * B \/ g > 0 \/ (Half + 1) * B <= (2 * Half) * B - B
    BY <1>1, <1>2
  <2>3. (Half + 2) * B <= (2 * Half) * B /\ (Half + 2) * B = (Half + 1) * B + B
    BY <1>1, Scaled
  <2> QED BY <1>1, <1>2, <2>1, <2>3
<1>8. (e + 1 - f) * B + 0 - g = d
  BY DEF n
<1> HIDE DEF d
<1>9. d < Half * B
  <2>1. circular_less_than(At(f, g), At(e + 1, 0))
    BY <1>4, <1>5 DEF RoomAhead
  <2> QED BY <1>1, <1>2, <1>7, <1>8, <2>1, LessThan
<1>10. n < Half \/ (n = Half /\ g > 0)
  <2>1. CASE n = Half
    BY <1>1, <1>2, <1>9, <2>1 DEF d
  <2>2. CASE n > Half
    <3>1. (Half + 1) * B <= n * B /\ (Half + 1) * B = Half * B + B /\ n * B \in Int
      BY <1>1, <1>6, <2>2, Scaled
    <3> QED BY <1>1, <1>2, <1>9, <3>1 DEF d
  <2> QED BY <1>1, <1>6, <2>1, <2>2
<1> QED BY <1>10 DEF Near, n, g

-----------------------------------------------------------------------------
(* The steps of a producer.                                                *)

LEMMA InTailBlockStep ==
  ASSUME IInv, NEW p \in Producers, InTailBlock(p)
  PROVE  IInv'
<1>1. /\ enq[p] = "idle" /\ tailIndex[p] % BLOCK_SIZE # 0 /\ Goto(p, "store")
      /\ UNCHANGED <<indices, headers, entries, memory, consumer>>
  BY DEF InTailBlock
<1>2. enq'[p] = "store" /\ tailIndex'[p] = tailIndex[p]
  BY <1>1, EnqType DEF IInv, indices
<1>3. ~ Ahead(p) /\ ~ Ahead(p)' /\ ~ Pending(p) /\ ~ Pending(p)'
  BY <1>1, <1>2 DEF Ahead, Pending
<1>4. Bare(p)'
  <2>1. headers[p] # << >>
    <3>1. 0 % BLOCK_SIZE = 0
      BY Sizes
    <3> QED BY <1>1, <3>1 DEF IInv, ProducerInv, Bare
  <2> QED BY <1>1, <2>1 DEF Bare
<1>5. \A f, e \in Int : Ends(p, f, e) => Ends(p, f, e)'
  BY <1>1, <1>2, <1>3, FrameEnds DEF indices, consumer, locals, Opening
<1> QED BY <1>1, <1>2, <1>3, <1>4, <1>5, GotoStep DEF Keyed

LEMMA StartBlockStep ==
  ASSUME IInv, NEW p \in Producers, StartBlock(p)
  PROVE  IInv'
<1>1. /\ enq[p] = "idle" /\ tailIndex[p] % BLOCK_SIZE = 0 /\ Goto(p, "entry")
      /\ RoomAhead(p) /\ headers[p] # << >>
      /\ UNCHANGED <<indices, headers, entries, memory, consumer>>
  BY DEF StartBlock
<1>2. enq'[p] = "entry" /\ tailIndex'[p] = tailIndex[p]
  BY <1>1, EnqType DEF IInv, indices
<1>3. Ahead(p) /\ Ahead(p)' /\ ~ Pending(p) /\ ~ Pending(p)'
  BY <1>1, <1>2 DEF Ahead, Pending
<1>4. Bare(p)'
  BY <1>1 DEF Bare
<1>5. ASSUME NEW f \in Int, NEW e \in Int, Ends(p, f, e) PROVE Ends(p, f, e)'
  <2>1. Near(p, f, e + 1)
    BY <1>1, <1>3, <1>5, RoomAheadNear DEF IInv
  <2>2. taken(p)' = taken(p) /\ filled(p)' = filled(p)
    BY <1>1, <1>3 DEF taken, filled, indices, consumer, locals
  <2>3. claimed(p)' = claimed(p)
    BY <1>1, <2>2 DEF claimed, consumer, locals
  <2>4. Near(p, f, e)' <=> Near(p, f, e)
    BY <2>3 DEF Near
  <2>5. Near(p, f, e + 1)' <=> Near(p, f, e + 1)
    BY <2>3 DEF Near
  <2> QED BY <1>1, <1>2, <1>5, <2>1, <2>2, <2>3, <2>4, <2>5
          DEF Ends, indices, consumer, locals
<1> QED BY <1>1, <1>2, <1>3, <1>4, <1>5, GotoStep DEF Keyed

LEMMA NewBlockIndexFailsStep ==
  ASSUME IInv, NEW p \in Producers, NewBlockIndexFails(p)
  PROVE  IInv'
<1>1. /\ enq[p] = "entry" /\ Goto(p, "idle")
      /\ UNCHANGED <<indices, headers, entries, memory, consumer>>
  BY DEF NewBlockIndexFails
<1>2. enq'[p] = "idle" /\ tailIndex'[p] = tailIndex[p]
  BY <1>1, EnqType DEF IInv, indices
<1>3. (Ahead(p)' <=> Ahead(p)) /\ ~ Pending(p) /\ ~ Pending(p)'
  BY <1>1, <1>2 DEF Ahead, Pending
<1>4. Bare(p)'
  BY <1>1 DEF Bare, IInv, ProducerInv
<1>5. \A f, e \in Int : Ends(p, f, e) => Ends(p, f, e)'
  BY <1>1, <1>2, <1>3, FrameEnds DEF indices, consumer, locals, Opening
<1> QED BY <1>1, <1>2, <1>3, <1>4, <1>5, GotoStep DEF Keyed

LEMMA NoneFreeStep ==
  ASSUME IInv, NEW p \in Producers, NoneFree(p)
  PROVE  IInv'
<1>1. /\ enq[p] = "block" /\ Goto(p, "malloc")
      /\ UNCHANGED <<indices, headers, entries, memory, consumer>>
  BY DEF NoneFree
<1>2. enq'[p] = "malloc" /\ tailIndex'[p] = tailIndex[p]
  BY <1>1, EnqType DEF IInv, indices
<1>3. (Ahead(p)' <=> Ahead(p)) /\ Pending(p) /\ Pending(p)'
  BY <1>1, <1>2 DEF Ahead, Pending
<1>4. Bare(p)'
  BY <1>1 DEF Bare, IInv, ProducerInv
<1>5. \A f, e \in Int : Ends(p, f, e) => Ends(p, f, e)'
  BY <1>1, <1>2, <1>3, FrameEnds DEF indices, consumer, locals, Opening
<1> QED BY <1>1, <1>2, <1>3, <1>4, <1>5, GotoStep DEF Keyed

-----------------------------------------------------------------------------
(* Steps that store to one entry, or to the tail of a ring.                *)

\* No entry but the n-th of p changes.
OneEntry(p, n) ==
  /\ entries' \in [Producers -> Seq(Entry)]
  /\ \A q \in Producers \ {p} : entries'[q] = entries[q]
  /\ DOMAIN entries'[p] = DOMAIN entries[p] /\ Len(entries'[p]) = Len(entries[p])
  /\ \A m \in DOMAIN entries[p] \ {n} : entries'[p][m] = entries[p][m]

Stored(p, n, x) == entries' = [entries EXCEPT ![p] = [entries[p] EXCEPT ![n] = x]]

LEMMA EntryStored ==
  ASSUME TypeInv, NEW p \in Producers, NEW n \in DOMAIN entries[p], NEW x \in Entry,
         Stored(p, n, x)
  PROVE  OneEntry(p, n) /\ entries'[p][n] = x
<1>1. entries[p] \in Seq(Entry) /\ entries \in [Producers -> Seq(Entry)]
  BY DEF TypeInv
<1>2. /\ entries'[p] = [entries[p] EXCEPT ![n] = x]
      /\ \A q \in Producers \ {p} : entries'[q] = entries[q]
  BY <1>1 DEF Stored
<1>3. /\ entries'[p] \in Seq(Entry) /\ Len(entries'[p]) = Len(entries[p])
      /\ DOMAIN entries'[p] = DOMAIN entries[p]
      /\ entries'[p][n] = x
      /\ \A m \in DOMAIN entries[p] \ {n} : entries'[p][m] = entries[p][m]
  <2>1. n \in 1 .. Len(entries[p])
    BY SeqTypes
  <2> QED BY <1>1, <1>2, <2>1, ExceptSeq, LenProperties
<1>4. entries' \in [Producers -> Seq(Entry)]
  BY <1>1, <1>2, <1>3 DEF Stored
<1> QED BY <1>2, <1>3, <1>4 DEF OneEntry

LEMMA KeyStored ==
  ASSUME TypeInv, NEW p \in Producers, NEW n \in DOMAIN entries[p], NEW v \in Words,
         entries' = [entries EXCEPT ![p][n].key = v]
  PROVE  /\ OneEntry(p, n)
         /\ entries'[p][n].key = v /\ entries'[p][n].value = entries[p][n].value
<1> DEFINE x == [key |-> v, value |-> entries[p][n].value]
<1>1. entries[p][n] \in Entry
  BY SeqTypes
<1>2. x \in Entry /\ x = [entries[p][n] EXCEPT !.key = v]
  BY <1>1 DEF Entry
<1>3. Stored(p, n, x)
  BY <1>2 DEF Stored
<1> HIDE DEF x
<1>4. OneEntry(p, n) /\ entries'[p][n] = x
  BY <1>2, <1>3, EntryStored
<1> QED BY <1>4 DEF x

LEMMA ValueStored ==
  ASSUME TypeInv, NEW p \in Producers, NEW n \in DOMAIN entries[p],
         NEW v \in Blocks \cup {NoBlock, Garbage},
         entries' = [entries EXCEPT ![p][n].value = v]
  PROVE  /\ OneEntry(p, n)
         /\ entries'[p][n].value = v /\ entries'[p][n].key = entries[p][n].key
<1> DEFINE x == [key |-> entries[p][n].key, value |-> v]
<1>1. entries[p][n] \in Entry
  BY SeqTypes
<1>2. x \in Entry /\ x = [entries[p][n] EXCEPT !.value = v]
  BY <1>1 DEF Entry
<1>3. Stored(p, n, x)
  BY <1>2 DEF Stored
<1> HIDE DEF x
<1>4. OneEntry(p, n) /\ entries'[p][n] = x
  BY <1>2, <1>3, EntryStored
<1> QED BY <1>4 DEF x

\* No ring of p gets another capacity or other entries, and only the one in use
\* gets another tail.
SameEntries(p) ==
  /\ headers' \in [Producers -> Seq(Header)]
  /\ \A q \in Producers \ {p} : headers'[q] = headers[q]
  /\ DOMAIN headers'[p] = DOMAIN headers[p] /\ Len(headers'[p]) = Len(headers[p])
  /\ \A i \in DOMAIN headers[p] :
       /\ headers'[p][i].capacity = headers[p][i].capacity
       /\ headers'[p][i].index = headers[p][i].index
       /\ i # Len(headers[p]) => headers'[p][i] = headers[p][i]

LEMMA RingsKept ==
  ASSUME TypeInv, NEW p \in Producers, UNCHANGED headers
  PROVE  SameEntries(p)
BY DEF SameEntries, TypeInv

LEMMA TailStored ==
  ASSUME TypeInv, NEW p \in Producers, headers[p] # << >>,
         NEW v \in 0 .. capacity(p) - 1,
         headers' = [headers EXCEPT ![p][Len(headers[p])].tail = v]
  PROVE  SameEntries(p) /\ blockIndex(p)'.tail = v
<1> DEFINE n == Len(headers[p])
           h == headers[p][n]
           x == [capacity |-> h.capacity, tail |-> v, index |-> h.index]
<1>1. /\ n \in 1 .. Len(headers[p]) /\ n \in DOMAIN headers[p] /\ h \in Header
      /\ headers[p] \in Seq(Header) /\ headers \in [Producers -> Seq(Header)]
      /\ capacity(p) = h.capacity
  BY SeqTypes DEF TypeInv, capacity, blockIndex
<1>2. x = [h EXCEPT !.tail = v]
  <2>1. h = [capacity |-> h.capacity, tail |-> h.tail, index |-> h.index]
    BY <1>1, HeaderType
  <2> HIDE DEF h
  <2> QED BY <2>1
<1>3. x \in Header
  <2>1. /\ h.capacity \in Nat \ {0} /\ v \in 0 .. h.capacity - 1
        /\ h.index \in [0 .. h.capacity - 1 -> Nat]
    BY <1>1, HeaderType
  <2>2. ASSUME NEW c \in Nat, c = h.capacity
        PROVE  x \in [capacity : {c}, tail : 0 .. c - 1, index : [0 .. c - 1 -> Nat]]
    BY <2>1, <2>2
  <2> QED BY <2>1, <2>2 DEF Header
<1>4. headers' = [headers EXCEPT ![p] = [@ EXCEPT ![n] = x]]
  BY <1>2
<1>5. x.capacity = h.capacity /\ x.index = h.index /\ x.tail = v
  OBVIOUS
<1> HIDE DEF x, n
<1>6. /\ headers'[p] = [headers[p] EXCEPT ![n] = x]
      /\ \A q \in Producers \ {p} : headers'[q] = headers[q]
  BY <1>1, <1>4
<1>7. /\ headers'[p] \in Seq(Header) /\ Len(headers'[p]) = Len(headers[p])
      /\ DOMAIN headers'[p] = DOMAIN headers[p]
      /\ headers'[p][n] = x
      /\ \A i \in DOMAIN headers[p] \ {n} : headers'[p][i] = headers[p][i]
  <2>1. PICK s \in Seq(Header) : s = headers[p]
    BY <1>1
  <2>2. n \in 1 .. Len(s)
    BY <1>1, <2>1
  <2>3. /\ [s EXCEPT ![n] = x] \in Seq(Header)
        /\ Len([s EXCEPT ![n] = x]) = Len(s)
        /\ \A j \in 1 .. Len(s) : [s EXCEPT ![n] = x][j] = IF j = n THEN x ELSE s[j]
    BY <1>3, <2>2, ExceptSeq
  <2>4. DOMAIN headers'[p] = 1 .. Len(s) /\ DOMAIN headers[p] = 1 .. Len(s)
    BY <1>6, <2>1, <2>3, LenProperties
  <2> QED BY <1>6, <2>1, <2>2, <2>3, <2>4
<1>8. headers' \in [Producers -> Seq(Header)]
  BY <1>1, <1>6, <1>7
<1>9. blockIndex(p)' = headers'[p][n]
  BY <1>7 DEF blockIndex, n
<1> QED BY <1>5, <1>6, <1>7, <1>8, <1>9 DEF SameEntries, n

\* No slot of the ring in use changes but the next one, which is free before and
\* after, and keyed with the tail.
Touched(p) ==
  LET n == blockIndex(p).index[NextSlot(p)] IN
  /\ headers[p] # << >> /\ SameEntries(p) /\ blockIndex(p)'.tail \in RingSlots(blockIndex(p))
  /\ OneEntry(p, n)
  /\ ~ Live(entries[p][n]) /\ ~ Live(entries'[p][n])
  /\ entries'[p][n].key = tailIndex[p]
  /\ LastSlot(p)' = LastSlot(p) /\ NextSlot(p)' = NextSlot(p)
  /\ UNCHANGED <<indices, memory, consumer>>
  /\ Ahead(p) /\ Ahead(p)'
  /\ enq'[p] \in Keyed \/ Free(entries'[p][n])

LEMMA TouchedRing ==
  ASSUME TypeInv, NEW p \in Producers, Headers(p), Touched(p),
         NEW f \in Int, NEW e \in Int, Ring(p, f, e)
  PROVE  /\ Headers(p)' /\ Ring(p, f, e)' /\ headers'[p] # << >>
         /\ RingSlots(blockIndex(p))' = RingSlots(blockIndex(p))
         /\ blockIndex(p)'.index = blockIndex(p).index
         /\ \A s \in RingSlots(blockIndex(p)) :
              /\ Age(p, s)' = Age(p, s)
              /\ s # NextSlot(p) => EntryAt(p, s)' = EntryAt(p, s)
              /\ Live(EntryAt(p, s)) => s # NextSlot(p)
<1> DEFINE h == blockIndex(p)
           c == capacity(p)
           n == h.index[NextSlot(p)]
<1>1. /\ headers[p] # << >> /\ SameEntries(p) /\ h'.tail \in RingSlots(h)
      /\ OneEntry(p, n) /\ ~ Live(entries[p][n]) /\ ~ Live(entries'[p][n])
      /\ entries'[p][n].key = tailIndex[p]
      /\ LastSlot(p)' = LastSlot(p) /\ NextSlot(p)' = NextSlot(p)
      /\ tailIndex' = tailIndex
      /\ enq'[p] \in Keyed \/ Free(entries'[p][n])
  BY DEF Touched, indices
<1>2. /\ c \in Nat \ {0} /\ RingSlots(h) = 0 .. c - 1 /\ NextSlot(p) \in 0 .. c - 1
      /\ \A s \in 0 .. c - 1 :
           /\ Age(p, s) \in 0 .. c - 1 /\ h.index[s] \in DOMAIN entries[p]
           /\ Age(p, s) = c - 1 <=> s = NextSlot(p)
      /\ \A s, r \in 0 .. c - 1 : h.index[s] = h.index[r] => s = r
  BY <1>1, RingFacts
<1>3. Len(headers[p]) \in DOMAIN headers[p] /\ h = headers[p][Len(headers[p])]
  BY <1>1, SeqTypes DEF blockIndex
<1>4. /\ Len(headers'[p]) = Len(headers[p]) /\ DOMAIN headers'[p] = DOMAIN headers[p]
      /\ h'.capacity = h.capacity /\ h'.index = h.index
      /\ headers'[p] # << >>
  <2>1. h' = headers'[p][Len(headers[p])]
    BY <1>1 DEF blockIndex, SameEntries
  <2>2. headers'[p] # << >>
    <3>1. Len(headers[p]) \in 1 .. Len(headers[p])
      BY <1>3, SeqTypes
    <3>2. headers'[p] \in Seq(Header)
      BY <1>1 DEF SameEntries
    <3> QED BY <1>1, <3>1, <3>2, EmptySeq DEF SameEntries
  <2> QED BY <1>1, <1>3, <2>1, <2>2 DEF SameEntries
<1>5. capacity(p)' = c /\ RingSlots(h)' = RingSlots(h)
  BY <1>4 DEF capacity, RingSlots
<1>6. ASSUME NEW s \in 0 .. c - 1
      PROVE  /\ Age(p, s)' = Age(p, s)
             /\ s # NextSlot(p) => EntryAt(p, s)' = EntryAt(p, s)
             /\ s = NextSlot(p) => EntryAt(p, s)' = entries'[p][n] /\ EntryAt(p, s) = entries[p][n]
  <2>1. Age(p, s)' = Age(p, s)
    BY <1>1, <1>5 DEF Age
  <2>2. EntryAt(p, s)' = entries'[p][h.index[s]] /\ EntryAt(p, s) = entries[p][h.index[s]]
    BY <1>4 DEF EntryAt
  <2>3. s # NextSlot(p) => h.index[s] \in DOMAIN entries[p] \ {n}
    BY <1>2
  <2> QED BY <1>1, <2>1, <2>2, <2>3 DEF OneEntry
<1>7. Headers(p)'
  <2>1. DOMAIN entries'[p] = DOMAIN entries[p] /\ Len(entries'[p]) = Len(entries[p])
    BY <1>1 DEF OneEntry
  <2>2. ASSUME NEW i \in DOMAIN headers[p]
        PROVE  HeaderOK(headers'[p][i], Len(entries[p]))
    <3>1. /\ headers'[p][i].capacity = headers[p][i].capacity
          /\ headers'[p][i].index = headers[p][i].index
          /\ i # Len(headers[p]) => headers'[p][i] = headers[p][i]
      BY <1>1 DEF SameEntries
    <3>2. HeaderOK(headers[p][i], Len(entries[p]))
      BY DEF Headers
    <3>3. i = Len(headers[p]) => headers'[p][i].tail \in RingSlots(headers[p][i])
      BY <1>1, <1>3 DEF SameEntries, blockIndex
    <3> QED BY <3>1, <3>2, <3>3 DEF HeaderOK, RingSlots
  <2>3. \A m \in DOMAIN entries[p] : \E s \in RingSlots(h) : h.index[s] = m
    BY <1>1 DEF Headers
  <2>4. capacity(p) = Len(entries[p])
    BY <1>1 DEF Headers
  <2> QED BY <1>4, <1>5, <2>1, <2>2, <2>3, <2>4 DEF Headers
<1>8. ASSUME NEW s \in 0 .. c - 1
      PROVE  Live(EntryAt(p, s)) => s # NextSlot(p)
  BY <1>1 DEF EntryAt
<1>9. Ring(p, f, e)'
  <2>1. e - f <= c
    BY <1>1 DEF Ring
  <2>2. ASSUME NEW s \in 0 .. c - 1
        PROVE  IF Age(p, s) < e - f
               THEN Live(EntryAt(p, s)') /\ EntryAt(p, s)'.key = Key(e - 1 - Age(p, s))
               ELSE /\ ~ Live(EntryAt(p, s)')
                    /\ Free(EntryAt(p, s)') \/ (s = NextSlot(p) /\ enq'[p] \in Keyed)
    <3>1. IF Age(p, s) < e - f
          THEN Live(EntryAt(p, s)) /\ EntryAt(p, s).key = Key(e - 1 - Age(p, s))
          ELSE /\ ~ Live(EntryAt(p, s))
               /\ Free(EntryAt(p, s)) \/ (s = NextSlot(p) /\ enq[p] \in Keyed)
      BY <1>1, <1>2 DEF Ring
    <3>2. CASE s = NextSlot(p)
      BY <1>1, <1>6, <1>8, <3>1, <3>2
    <3>3. CASE s # NextSlot(p)
      BY <1>6, <3>1, <3>3
    <3> QED BY <3>2, <3>3
  <2>3. ASSUME NEW s \in 0 .. c - 1, s = NextSlot(p)
        PROVE  ~ Live(EntryAt(p, s)') /\ EntryAt(p, s)'.key = tailIndex'[p]
    BY <1>1, <1>2, <1>6, <2>3
  <2>4. \A s \in 0 .. c - 1 : Age(p, s)' = Age(p, s)
    BY <1>6
  <2>5. RingSlots(blockIndex(p))' = 0 .. c - 1 /\ capacity(p)' = c
    BY <1>2, <1>5
  <2>6. /\ NextSlot(p)' = NextSlot(p)
        /\ \A s \in 0 .. c - 1 :
             IF Age(p, s)' < e - f
             THEN Live(EntryAt(p, s)') /\ EntryAt(p, s)'.key = Key(e - 1 - Age(p, s)')
             ELSE /\ ~ Live(EntryAt(p, s)')
                  /\ Free(EntryAt(p, s)') \/ (s = NextSlot(p)' /\ enq'[p] \in Keyed)
    BY <1>1, <2>2, <2>4
  <2> HIDE DEF c
  <2> QED BY <2>1, <2>3, <2>5, <2>6 DEF Ring, Live, Free
<1> QED BY <1>2, <1>4, <1>5, <1>6, <1>7, <1>8, <1>9

LEMMA TouchedLeads ==
  ASSUME TypeInv, NEW p \in Producers, Headers(p), Touched(p),
         NEW f \in Int, NEW L \in DOMAIN headers[p], NEW t \in RingSlots(headers[p][L]),
         Points(p, f, L, t)
  PROVE  Points(p, f, L, t)'
<1> DEFINE h == headers[p][L]
           n == blockIndex(p).index[NextSlot(p)]
<1>1. /\ SameEntries(p) /\ OneEntry(p, n)
      /\ ~ Live(entries[p][n]) /\ ~ Live(entries'[p][n])
      /\ entries'[p][n].key = tailIndex[p]
      /\ NextSlot(p)' = NextSlot(p) /\ tailIndex' = tailIndex /\ Ahead(p)'
  BY DEF Touched, indices
<1>2. h'.capacity = h.capacity /\ h'.index = h.index /\ Len(headers'[p]) = Len(headers[p])
  BY <1>1 DEF SameEntries
<1>3. PICK d \in RingSlots(h) : Leads(p, f, L, t, d)
  BY DEF Points
<1> DEFINE i == h.index[t]
           j == h.index[Back(h.capacity, t, d)]
<1>4. i \in DOMAIN entries[p] /\ j \in DOMAIN entries[p]
  <2>1. HeaderOK(h, Len(entries[p])) /\ h \in Header /\ DOMAIN entries[p] = 1 .. Len(entries[p])
    BY SeqTypes DEF Headers
  <2>2. Back(h.capacity, t, d) \in RingSlots(h)
    BY <1>3, <2>1, HeaderType, BackFacts DEF RingSlots
  <2> QED BY <2>1, <2>2 DEF HeaderOK
<1>5. /\ entries[p][i].key = Key(f + d) /\ entries[p][j].key = Key(f) /\ Live(entries[p][j])
      /\ \/ Live(entries[p][i])
         \/ L = Len(headers[p]) /\ t = NextSlot(p) /\ Ahead(p) /\ entries[p][i].key = tailIndex[p]
  BY <1>3 DEF Leads
<1> HIDE DEF n, i, j
<1>6. entries'[p][j] = entries[p][j]
  BY <1>1, <1>4, <1>5 DEF OneEntry
<1>7. entries'[p][i].key = Key(f + d)
      /\ \/ Live(entries'[p][i])
         \/ /\ L = Len(headers'[p]) /\ t = NextSlot(p)' /\ Ahead(p)'
            /\ entries'[p][i].key = tailIndex'[p]
  <2>1. CASE i = n
    BY <1>1, <1>2, <1>5, <2>1
  <2>2. CASE i # n
    BY <1>1, <1>2, <1>4, <1>5, <2>2 DEF OneEntry
  <2> QED BY <2>1, <2>2
<1>8. Leads(p, f, L, t, d)'
  BY <1>2, <1>5, <1>6, <1>7 DEF Leads, Live, i, j
<1>9. d \in RingSlots(h')
  BY <1>2 DEF RingSlots
<1> QED BY <1>8, <1>9 DEF Points, RingSlots

LEMMA TouchStep ==
  ASSUME IInv, NEW p \in Producers, Touched(p),
         NEW l \in {"idle", "entry", "tail", "block", "malloc"}, Goto(p, l),
         l \in Opening => enq[p] \in Opening
  PROVE  IInv'
<1> DEFINE n == blockIndex(p).index[NextSlot(p)]
<1>1. /\ enq'[p] = l /\ \A q \in Producers \ {p} : enq'[q] = enq[q]
      /\ enq' \in [Producers -> {"idle", "entry", "tail", "block", "malloc", "store"}]
  BY EnqType DEF IInv, TypeInv, Goto
<1>2. /\ headers[p] # << >> /\ SameEntries(p) /\ OneEntry(p, n)
      /\ ~ Live(entries[p][n]) /\ ~ Live(entries'[p][n])
      /\ UNCHANGED <<indices, memory, consumer>> /\ Ahead(p) /\ Ahead(p)'
      /\ LastSlot(p)' = LastSlot(p) /\ NextSlot(p)' = NextSlot(p)
  BY DEF Touched
<1>3. UNCHANGED <<tailIndex, headIndex, tailBlock, contents, elementsCompletelyDequeued,
                  pool, freeList, heap, deq, from, index, localBlockIndex, tail, entry,
                  block, element>>
  BY <1>2 DEF indices, memory, consumer, locals
<1>4. TypeInv /\ Headers(p) /\ BlocksInv
  BY DEF IInv, ProducerInv
<1>5. PICK f \in Int, e \in Int : InOrder(p, f, e)
  BY DEF IInv, ProducerInv
<1>6. Ring(p, f, e) /\ Holding(p, f, e) /\ Looking(p, f) /\ Ends(p, f, e)
  BY <1>5 DEF InOrder
<1>7. /\ Headers(p)' /\ Ring(p, f, e)' /\ headers'[p] # << >>
      /\ RingSlots(blockIndex(p))' = RingSlots(blockIndex(p))
      /\ blockIndex(p)'.index = blockIndex(p).index
      /\ \A s \in RingSlots(blockIndex(p)) :
           /\ Age(p, s)' = Age(p, s)
           /\ s # NextSlot(p) => EntryAt(p, s)' = EntryAt(p, s)
           /\ Live(EntryAt(p, s)) => s # NextSlot(p)
  BY <1>4, <1>6, TouchedRing
<1>8. Ends(p, f, e)' /\ taken(p)' = taken(p) /\ filled(p)' = filled(p)
  BY <1>1, <1>2, <1>3, <1>6, FrameEnds
<1>9. Holding(p, f, e)'
  <2>1. ASSUME NEW s \in RingSlots(blockIndex(p)), Age(p, s) < e - f
        PROVE  Holds(p, f, e, e - 1 - Age(p, s), EntryAt(p, s).value)'
    <3>1. Live(EntryAt(p, s)) /\ Holds(p, f, e, e - 1 - Age(p, s), EntryAt(p, s).value)
      BY <1>2, <1>6, <2>1 DEF Ring, Holding
    <3>2. EntryAt(p, s)' = EntryAt(p, s) /\ Age(p, s)' = Age(p, s)
      BY <1>7, <3>1
    <3> DEFINE k == e - 1 - Age(p, s)
               b == EntryAt(p, s).value
    <3>3. k' = k /\ b' = b
      BY <3>2
    <3>4. Holds(p, f, e, k, b)
      BY <3>1
    <3> HIDE DEF k, b
    <3>5. (Holds(p, f, e, k, b))'
      BY <1>3, <1>8, <3>3, <3>4 DEF Holds
    <3> QED BY <3>5 DEF k, b
  <2> QED BY <1>2, <1>7, <2>1 DEF Holding
<1>10. Looking(p, f)'
  <2>1. SUFFICES ASSUME from = p PROVE Looking(p, f)'
    BY <1>3 DEF Looking
  <2>2. DOMAIN headers'[p] = DOMAIN headers[p] /\ Len(headers'[p]) = Len(headers[p])
        /\ DOMAIN entries'[p] = DOMAIN entries[p]
    BY <1>2 DEF SameEntries, OneEntry
  <2>3. ASSUME deq = "tail"
        PROVE  \/ localBlockIndex = Len(headers'[p])
               \/ Points(p, f, localBlockIndex, headers[p][localBlockIndex].tail)'
    <3>1. localBlockIndex \in DOMAIN headers[p]
      BY <1>6, <2>1, <2>3 DEF Looking
    <3>2. CASE localBlockIndex # Len(headers[p])
      <4>1. headers'[p][localBlockIndex] = headers[p][localBlockIndex]
        BY <1>2, <3>1, <3>2 DEF SameEntries
      <4>2. headers[p][localBlockIndex].tail \in RingSlots(headers[p][localBlockIndex])
        BY <1>4, <3>1 DEF Headers, HeaderOK
      <4>3. PICK t \in RingSlots(headers[p][localBlockIndex]) : t = headers[p][localBlockIndex].tail
        BY <4>2
      <4>4. Points(p, f, localBlockIndex, t)
        BY <1>6, <2>1, <2>3, <3>2, <4>3 DEF Looking
      <4>5. PICK L \in DOMAIN headers[p] : L = localBlockIndex
        BY <3>1
      <4>6. (Points(p, f, L, t))'
        BY <1>4, <4>3, <4>4, <4>5, TouchedLeads
      <4> QED BY <1>3, <4>1, <4>3, <4>5, <4>6
    <3> QED BY <2>2, <3>2
  <2>4. ASSUME deq = "entry"
        PROVE  /\ tail \in RingSlots(headers'[p][localBlockIndex])
               /\ Points(p, f, localBlockIndex, tail)'
    <3>1. PICK L \in DOMAIN headers[p] : L = localBlockIndex
      BY <1>6, <2>1, <2>4 DEF Looking
    <3>2. PICK t \in RingSlots(headers[p][L]) : t = tail
      BY <1>6, <2>1, <2>4, <3>1 DEF Looking
    <3>3. Points(p, f, L, t)
      BY <1>6, <2>1, <2>4, <3>1, <3>2 DEF Looking
    <3>4. (Points(p, f, L, t))'
      BY <1>4, <3>3, TouchedLeads
    <3>5. RingSlots(headers'[p][L]) = RingSlots(headers[p][L])
      BY <1>2 DEF SameEntries, RingSlots
    <3> QED BY <1>3, <3>1, <3>2, <3>4, <3>5
  <2>5. ASSUME deq \in {"element", "clear"}
        PROVE  /\ entry \in DOMAIN entries[p] /\ entries'[p][entry] = entries[p][entry]
               /\ entries[p][entry].key = Key(f) /\ Live(entries[p][entry])
               /\ deq = "clear" => entries[p][entry].value = block
    <3>1. /\ entry \in DOMAIN entries[p] /\ entries[p][entry].key = Key(f)
          /\ Live(entries[p][entry])
          /\ deq = "clear" => entries[p][entry].value = block
      BY <1>6, <2>1, <2>5 DEF Looking
    <3>2. entry # n
      BY <1>2, <3>1
    <3> QED BY <1>2, <3>1, <3>2 DEF OneEntry
  <2>6. deq \in {"tail", "entry"} => localBlockIndex \in DOMAIN headers'[p]
    BY <1>6, <2>1, <2>2 DEF Looking
  <2>7. deq' = "tail" =>
          \/ localBlockIndex' = Len(headers'[p])
          \/ Points(p, f, localBlockIndex, headers[p][localBlockIndex].tail)'
    BY <1>3, <2>3
  <2>8. deq' = "entry" =>
          /\ tail' \in RingSlots(headers[p][localBlockIndex])'
          /\ Points(p, f, localBlockIndex, tail)'
    BY <1>3, <2>4
  <2>9. /\ deq' \in {"element", "clear"} =>
             /\ entry' \in DOMAIN entries'[p]
             /\ entries'[p][entry'].key = Key(f) /\ Live(entries[p][entry])'
        /\ deq' = "clear" => entries'[p][entry'].value = block'
    BY <1>3, <2>2, <2>5 DEF Live
  <2>10. deq' \in {"tail", "entry"} => localBlockIndex' \in DOMAIN headers'[p]
    BY <1>3, <2>6
  <2> QED BY <2>7, <2>8, <2>9, <2>10 DEF Looking
<1>11. ProducerInv(p)'
  BY <1>7, <1>8, <1>9, <1>10 DEF ProducerInv, InOrder, Bare
<1>12. ASSUME NEW q \in Producers \ {p} PROVE SameRings(q) /\ SameBlocks(q)
  BY <1>2, <1>3 DEF SameRings, SameBlocks, SameEntries, OneEntry
<1>13. \A q \in Producers : ProducerInv(q)'
  BY <1>1, <1>2, <1>3, <1>11, <1>12, OtherProducers
<1>14. TypeInv'
  BY <1>1, <1>2, <1>3, <1>4 DEF TypeInv, SameEntries, OneEntry
<1>15. BlocksInv'
  <2>1. ASSUME NEW q \in Producers
        PROVE  /\ DOMAIN entries'[q] = DOMAIN entries[q]
               /\ \A m \in DOMAIN entries[q] :
                    Live(entries[q][m]) \/ Live(entries'[q][m]) =>
                      entries'[q][m].value = entries[q][m].value
    BY <1>2 DEF OneEntry
  <2> QED BY <1>3, <1>4, <2>1, FrameBlocks
<1>16. FromInv'
  BY <1>3 DEF FromInv, IInv
<1> QED BY <1>13, <1>14, <1>15, <1>16 DEF IInv

\* What holds in the middle of adding a block.
LEMMA WhileOpening ==
  ASSUME IInv, NEW p \in Producers, enq[p] \in Opening
  PROVE  /\ TypeInv /\ Headers(p) /\ headers[p] # << >>
         /\ Ahead(p) /\ (enq'[p] # "store" /\ tailIndex' = tailIndex => Ahead(p)')
         /\ NextSlot(p) \in RingSlots(blockIndex(p))
         /\ blockIndex(p).index[NextSlot(p)] \in DOMAIN entries[p]
         /\ enq[p] \in Keyed =>
              /\ ~ Live(entries[p][blockIndex(p).index[NextSlot(p)]])
              /\ entries[p][blockIndex(p).index[NextSlot(p)]].key = tailIndex[p]
<1>1. PICK f \in Int, e \in Int : InOrder(p, f, e)
  BY DEF IInv, ProducerInv
<1>2. /\ TypeInv /\ Headers(p) /\ Bare(p) /\ Ring(p, f, e) /\ Ends(p, f, e)
  BY <1>1 DEF IInv, ProducerInv, InOrder
<1>3. headers[p] # << >>
  BY <1>2 DEF Bare, Opening
<1>4. /\ NextSlot(p) \in RingSlots(blockIndex(p))
      /\ blockIndex(p).index[NextSlot(p)] \in DOMAIN entries[p]
  <2>1. /\ NextSlot(p) \in 0 .. capacity(p) - 1
        /\ RingSlots(blockIndex(p)) = 0 .. capacity(p) - 1
    BY <1>2, <1>3, RingFacts
  <2>2. \A s \in 0 .. capacity(p) - 1 : blockIndex(p).index[s] \in DOMAIN entries[p]
    BY <1>2, <1>3, RingFacts
  <2> QED BY <2>1, <2>2
<1>5. tailIndex[p] % BLOCK_SIZE = 0
  BY <1>2 DEF Ends
<1>6. Ahead(p) /\ (enq'[p] # "store" /\ tailIndex' = tailIndex => Ahead(p)')
  BY <1>5 DEF Ahead, Opening
<1>7. enq[p] \in Keyed =>
        /\ ~ Live(entries[p][blockIndex(p).index[NextSlot(p)]])
        /\ entries[p][blockIndex(p).index[NextSlot(p)]].key = tailIndex[p]
  BY <1>2, <1>3, <1>4 DEF Ring, EntryAt
<1> QED BY <1>2, <1>3, <1>4, <1>6, <1>7

\* The test for a free entry in insert_block_index_entry.
LEMMA FreeOrLive ==
  ASSUME TypeInv, NEW p \in Producers, headers[p] # << >>, Headers(p),
         NEW f \in Int, NEW e \in Int, Ring(p, f, e), enq[p] \notin Keyed
  PROVE  /\ Free(EntryAt(p, newTail(p))) <=> ~ Live(EntryAt(p, newTail(p)))
         /\ NextSlot(p) = newTail(p) /\ LastSlot(p) = blockIndex(p).tail
<1>1. NextSlot(p) = newTail(p) /\ LastSlot(p) = blockIndex(p).tail
  BY DEF NextSlot, LastSlot, Pending, Keyed
<1>2. newTail(p) \in RingSlots(blockIndex(p)) /\ capacity(p) \in Nat
      /\ Age(p, newTail(p)) \in Nat
  BY RingFacts
<1>3. ASSUME Live(EntryAt(p, newTail(p))) PROVE ~ Free(EntryAt(p, newTail(p)))
  <2>1. EntryAt(p, newTail(p)).key = Key(e - 1 - Age(p, newTail(p)))
    BY <1>2, <1>3 DEF Ring
  <2>2. PICK k \in Int : k = e - 1 - Age(p, newTail(p))
    BY <1>2
  <2>3. Key(k) % BLOCK_SIZE = 0
    BY KeyRange
  <2>4. 1 % BLOCK_SIZE = 1
    BY Sizes
  <2>5. EntryAt(p, newTail(p)).key # INVALID_BLOCK_BASE
    BY <2>1, <2>2, <2>3, <2>4 DEF INVALID_BLOCK_BASE
  <2> QED BY <1>3, <2>5, BlocksAssumption DEF Live, Free
<1>4. ASSUME ~ Live(EntryAt(p, newTail(p))) PROVE Free(EntryAt(p, newTail(p)))
  BY <1>2, <1>4 DEF Ring
<1> QED BY <1>1, <1>3, <1>4

LEMMA StoreKeyStep ==
  ASSUME IInv, NEW p \in Producers, StoreKey(p)
  PROVE  IInv'
<1> DEFINE n == blockIndex(p).index[newTail(p)]
<1>1. /\ enq[p] = "entry" /\ Goto(p, "tail") /\ Free(entries[p][n])
      /\ entries' = [entries EXCEPT ![p][n].key = tailIndex[p]]
      /\ UNCHANGED <<indices, headers, memory, consumer>>
  BY DEF StoreKey, idxEntry
<1>2. enq'[p] = "tail" /\ tailIndex' = tailIndex
  BY <1>1, EnqType DEF IInv, indices
<1>3. /\ TypeInv /\ Headers(p) /\ headers[p] # << >> /\ Ahead(p) /\ Ahead(p)'
      /\ NextSlot(p) \in RingSlots(blockIndex(p))
      /\ blockIndex(p).index[NextSlot(p)] \in DOMAIN entries[p]
  BY <1>1, <1>2, WhileOpening DEF Opening
<1>4. PICK f \in Int, e \in Int : Ring(p, f, e)
  BY DEF IInv, ProducerInv, InOrder
<1>5. /\ NextSlot(p) = newTail(p) /\ LastSlot(p) = blockIndex(p).tail
      /\ ~ Live(entries[p][n])
  BY <1>1, <1>3, <1>4, FreeOrLive DEF Keyed, EntryAt
<1>6. n \in DOMAIN entries[p] /\ tailIndex[p] \in Words
  BY <1>3, <1>5 DEF TypeInv
<1>7. OneEntry(p, n) /\ entries'[p][n].key = tailIndex[p]
      /\ entries'[p][n].value = entries[p][n].value
  <2> HIDE DEF n
  <2> QED BY <1>1, <1>3, <1>6, KeyStored
<1>8. ~ Live(entries'[p][n])
  BY <1>5, <1>7 DEF Live
<1>9. blockIndex(p)' = blockIndex(p)
  BY <1>1 DEF blockIndex
<1>10. NextSlot(p)' = NextSlot(p) /\ LastSlot(p)' = LastSlot(p)
  BY <1>1, <1>2, <1>9 DEF NextSlot, LastSlot, Pending, newTail, capacity
<1>11. SameEntries(p)
  BY <1>1, <1>3, RingsKept
<1>12. blockIndex(p)'.tail \in RingSlots(blockIndex(p))
  BY <1>3, <1>9, RingFacts, SeqTypes, HeaderType DEF capacity
<1>13. Touched(p)
  BY <1>1, <1>2, <1>3, <1>5, <1>7, <1>8, <1>10, <1>11, <1>12 DEF Touched, Keyed
<1> QED BY <1>1, <1>13, TouchStep DEF Opening

LEMMA StoreTailStep ==
  ASSUME IInv, NEW p \in Producers, StoreTail(p)
  PROVE  IInv'
<1> DEFINE n == blockIndex(p).index[NextSlot(p)]
           c == capacity(p)
<1>1. /\ enq[p] = "tail" /\ Goto(p, "block")
      /\ headers' = [headers EXCEPT ![p][Len(headers[p])].tail = newTail(p)]
      /\ UNCHANGED <<indices, entries, memory, consumer>>
  BY DEF StoreTail
<1>2. enq'[p] = "block" /\ tailIndex' = tailIndex
  BY <1>1, EnqType DEF IInv, indices
<1>3. /\ TypeInv /\ Headers(p) /\ headers[p] # << >> /\ Ahead(p) /\ Ahead(p)'
      /\ n \in DOMAIN entries[p]
      /\ ~ Live(entries[p][n]) /\ entries[p][n].key = tailIndex[p]
  BY <1>1, <1>2, WhileOpening DEF Opening, Keyed
<1>4. newTail(p) \in 0 .. c - 1 /\ RingSlots(blockIndex(p)) = 0 .. c - 1 /\ c \in Nat \ {0}
      /\ newTail(p) = IF blockIndex(p).tail = c - 1 THEN 0 ELSE blockIndex(p).tail + 1
  BY <1>3, RingFacts
<1>5. SameEntries(p) /\ blockIndex(p)'.tail = newTail(p)
  BY <1>1, <1>3, <1>4, TailStored
<1>6. capacity(p)' = c
  <2>1. Len(headers[p]) \in DOMAIN headers[p]
    BY <1>3, SeqTypes
  <2> QED BY <1>5, <2>1 DEF SameEntries, capacity, blockIndex
<1>7. blockIndex(p).tail \in 0 .. c - 1
  BY <1>3, SeqTypes, HeaderType DEF capacity
<1>8. NextSlot(p)' = NextSlot(p)
  BY <1>1, <1>2, <1>5 DEF NextSlot, Pending
<1>9. LastSlot(p)' = LastSlot(p)
  <2>1. LastSlot(p) = blockIndex(p).tail /\ LastSlot(p)' = Back(c, newTail(p), 1)
    BY <1>1, <1>2, <1>5, <1>6 DEF LastSlot, Pending
  <2> HIDE DEF c
  <2>2. Back(c, newTail(p), 1) = blockIndex(p).tail
    BY <1>4, <1>7 DEF Back
  <2> QED BY <2>1, <2>2
<1>10. OneEntry(p, n)
  BY <1>1, <1>3 DEF OneEntry, TypeInv
<1>11. Touched(p)
  BY <1>1, <1>2, <1>3, <1>4, <1>5, <1>8, <1>9, <1>10 DEF Touched, Keyed
<1> QED BY <1>1, <1>11, TouchStep DEF Opening

LEMMA RequisitionFailsStep ==
  ASSUME IInv, NEW p \in Producers, RequisitionFails(p)
  PROVE  IInv'
<1> DEFINE n == blockIndex(p).index[blockIndex(p).tail]
           c == capacity(p)
           t == blockIndex(p).tail
<1>1. /\ enq[p] = "malloc" /\ Goto(p, "idle")
      /\ entries' = [entries EXCEPT ![p][n].value = NoBlock]
      /\ headers' = [headers EXCEPT ![p][Len(headers[p])].tail = (@ - 1) % blockIndex(p).capacity]
      /\ UNCHANGED <<indices, memory, consumer>>
  BY DEF RequisitionFails, idxEntry
<1>2. headers' = [headers EXCEPT ![p][Len(headers[p])].tail = (t - 1) % c]
  BY <1>1 DEF blockIndex, capacity
<1>3. enq'[p] = "idle" /\ tailIndex' = tailIndex
  BY <1>1, EnqType DEF IInv, indices
<1>4. /\ TypeInv /\ Headers(p) /\ headers[p] # << >> /\ Ahead(p) /\ Ahead(p)'
      /\ NextSlot(p) = t /\ n \in DOMAIN entries[p]
      /\ ~ Live(entries[p][n]) /\ entries[p][n].key = tailIndex[p]
  <2>1. NextSlot(p) = t
    BY <1>1 DEF NextSlot, Pending
  <2> QED BY <1>1, <1>3, <2>1, WhileOpening DEF Opening, Keyed
<1>5. RingSlots(blockIndex(p)) = 0 .. c - 1 /\ c \in Nat \ {0} /\ t \in 0 .. c - 1
  BY <1>4, RingFacts, SeqTypes, HeaderType DEF capacity
<1>6. (t - 1) % c = Back(c, t, 1) /\ Back(c, t, 1) = LastSlot(p) /\ LastSlot(p) \in 0 .. c - 1
  <2>1. LastSlot(p) = Back(c, t, 1)
    BY <1>1 DEF LastSlot, Pending
  <2>2. LastSlot(p) \in 0 .. c - 1
    BY <1>4, RingFacts
  <2> QED BY <1>5, <2>1, <2>2, RingArithmetic
<1>7. SameEntries(p) /\ blockIndex(p)'.tail = LastSlot(p)
  BY <1>2, <1>4, <1>6, TailStored
<1>8. capacity(p)' = c
  <2>1. Len(headers[p]) \in DOMAIN headers[p]
    BY <1>4, SeqTypes
  <2> QED BY <1>7, <2>1 DEF SameEntries, capacity, blockIndex
<1>9. LastSlot(p)' = LastSlot(p)
  BY <1>3, <1>7 DEF LastSlot, Pending
<1>10. NextSlot(p)' = NextSlot(p)
  <2>1. NextSlot(p)' = (LastSlot(p) + 1) % c
    BY <1>3, <1>7, <1>8 DEF NextSlot, Pending, newTail, capacity
  <2>2. (LastSlot(p) + 1) % c = IF LastSlot(p) = c - 1 THEN 0 ELSE LastSlot(p) + 1
    BY <1>5, <1>6, RingArithmetic
  <2>3. NextSlot(p) = IF LastSlot(p) = c - 1 THEN 0 ELSE LastSlot(p) + 1
    BY <1>4, RingFacts
  <2> QED BY <2>1, <2>2, <2>3
<1>11. OneEntry(p, n) /\ entries'[p][n].value = NoBlock /\ entries'[p][n].key = tailIndex[p]
  BY <1>1, <1>4, ValueStored
<1>12. ~ Live(entries'[p][n]) /\ Free(entries'[p][n])
  BY <1>11, BlocksAssumption DEF Live, Free
<1>13. Touched(p)
  BY <1>1, <1>3, <1>4, <1>5, <1>6, <1>7, <1>9, <1>10, <1>11, <1>12 DEF Touched
<1> QED BY <1>1, <1>13, TouchStep DEF Opening

-----------------------------------------------------------------------------
(* A ring of twice the capacity.                                           *)

\* In the ring in use, the entry d slots behind the last one is that of block
\* e - 1 - d.
LEMMA EntryOfAge ==
  ASSUME TypeInv, NEW p \in Producers, Headers(p), headers[p] # << >>,
         NEW f \in Int, NEW e \in Int, Ring(p, f, e), NEW d \in 0 .. e - 1 - f
  PROVE  /\ d \in 0 .. capacity(p) - 1
         /\ Back(capacity(p), LastSlot(p), d) \in 0 .. capacity(p) - 1
         /\ Age(p, Back(capacity(p), LastSlot(p), d)) = d
         /\ Live(EntryAt(p, Back(capacity(p), LastSlot(p), d)))
         /\ EntryAt(p, Back(capacity(p), LastSlot(p), d)).key = Key(e - 1 - d)
<1> DEFINE c == capacity(p)
           s == Back(c, LastSlot(p), d)
<1>1. c \in Nat \ {0} /\ LastSlot(p) \in 0 .. c - 1 /\ RingSlots(blockIndex(p)) = 0 .. c - 1
  BY RingFacts
<1>2. e - f <= c
  BY DEF Ring
<1>3. d \in 0 .. c - 1
  BY <1>1, <1>2
<1>4. s \in 0 .. c - 1 /\ Back(c, LastSlot(p), s) = d
  BY <1>1, <1>3, BackFacts
<1>5. Age(p, s) = d
  BY <1>4 DEF Age
<1> HIDE DEF s
<1>6. Live(EntryAt(p, s)) /\ EntryAt(p, s).key = Key(e - 1 - Age(p, s))
  BY <1>1, <1>3, <1>4, <1>5 DEF Ring
<1> QED BY <1>3, <1>4, <1>5, <1>6 DEF s

\* The tail of the ring in use leads to the entry of block f.
LEMMA RingPoints ==
  ASSUME TypeInv, NEW p \in Producers, Headers(p), headers[p] # << >>,
         NEW f \in Int, NEW e \in Int, Ring(p, f, e), Ends(p, f, e), f < e
  PROVE  Points(p, f, Len(headers[p]), blockIndex(p).tail)
<1> DEFINE c == capacity(p)
           h == blockIndex(p)
           L == Len(headers[p])
           t == h.tail
           g == e - 1 - f
           s == Back(c, LastSlot(p), g)
<1>1. /\ c \in Nat \ {0} /\ LastSlot(p) \in 0 .. c - 1 /\ RingSlots(h) = 0 .. c - 1
      /\ NextSlot(p) \in 0 .. c - 1 /\ t \in 0 .. c - 1
      /\ NextSlot(p) = IF LastSlot(p) = c - 1 THEN 0 ELSE LastSlot(p) + 1
  BY RingFacts, SeqTypes, HeaderType DEF capacity
<1>2. /\ h = headers[p][L] /\ c = h.capacity
  BY DEF blockIndex, capacity
<1>3. /\ g \in 0 .. c - 1 /\ s \in 0 .. c - 1
      /\ Live(EntryAt(p, s)) /\ EntryAt(p, s).key = Key(f)
  <2>1. g \in 0 .. e - 1 - f /\ e - 1 - g = f
    OBVIOUS
  <2> QED BY <2>1, EntryOfAge
<1>4. CASE ~ Pending(p)
  <2>1. t = LastSlot(p)
    BY <1>4 DEF LastSlot
  <2>2. Live(EntryAt(p, t)) /\ EntryAt(p, t).key = Key(f + g)
    <3>1. 0 \in 0 .. e - 1 - f /\ e - 1 - 0 = f + g /\ Back(c, LastSlot(p), 0) = LastSlot(p)
      BY <1>1, BackFacts
    <3> QED BY <2>1, <3>1, EntryOfAge
  <2>3. Leads(p, f, L, t, g)
    BY <1>2, <1>3, <2>1, <2>2 DEF Leads, EntryAt
  <2> QED BY <1>1, <1>2, <1>3, <2>3 DEF Points
<1>5. CASE Pending(p)
  <2>1. t = NextSlot(p) /\ enq[p] \in Keyed /\ enq[p] \in Opening
    BY <1>5 DEF NextSlot, Pending, Keyed, Opening
  <2>2. ~ Live(EntryAt(p, t)) /\ EntryAt(p, t).key = tailIndex[p] /\ Ahead(p)
    BY <1>1, <2>1 DEF Ring, Ends, Ahead, Opening
  <2>3. tailIndex[p] = Key(e)
    <3>1. filled(p) = BLOCK_SIZE /\ e - 1 + 1 = e
      BY <2>2 DEF filled
    <3>2. tailIndex[p] = At(e - 1, BLOCK_SIZE)
      BY <3>1 DEF Ends
    <3> QED BY <3>1, <3>2 DEF At
  <2>4. g + 1 \in 0 .. c - 1
    <3>1. Age(p, t) = c - 1 /\ ~ Age(p, t) < e - f
      BY <1>1, <2>1, <2>2, RingFacts DEF Ring
    <3> QED BY <1>1, <1>3, <3>1
  <2>5. s = Back(c, t, g + 1)
    <3> HIDE DEF c, t, g
    <3>1. s = Back(c, LastSlot(p), g)
      OBVIOUS
    <3> QED BY <1>1, <1>3, <2>1, <2>4, <3>1 DEF Back
  <2>6. EntryAt(p, t).key = Key(f + (g + 1))
    BY <2>2, <2>3
  <2>7. Leads(p, f, L, t, g + 1)
    BY <1>2, <1>3, <2>1, <2>2, <2>5, <2>6 DEF Leads, EntryAt
  <2> QED BY <1>1, <1>2, <2>4, <2>7 DEF Points
<1> QED BY <1>4, <1>5

\* The slot an entry of the larger ring came from.
Old(p, s) ==
  Back(capacity(p), blockIndex(p).tail, capacity(p) - 1 - s)

LEMMA DoubledHeader ==
  ASSUME TypeInv, NEW p \in Producers, Headers(p), headers[p] # << >>
  PROVE  /\ Doubled(p) \in Header
         /\ Doubled(p).capacity = 2 * capacity(p) /\ Doubled(p).tail = capacity(p) - 1
         /\ \A s \in 0 .. capacity(p) - 1 :
              /\ Old(p, s) \in 0 .. capacity(p) - 1
              /\ Doubled(p).index[s] = blockIndex(p).index[Old(p, s)]
         /\ \A r \in 0 .. capacity(p) - 1 : \E s \in 0 .. capacity(p) - 1 : Old(p, s) = r
         /\ \A s \in capacity(p) .. 2 * capacity(p) - 1 : Doubled(p).index[s] = s + 1
         /\ Doubled(p).index \in [0 .. 2 * capacity(p) - 1 -> 1 .. 2 * capacity(p)]
<1> DEFINE h == blockIndex(p)
           c == capacity(p)
           d == Doubled(p)
<1>1. /\ c \in Nat \ {0} /\ h.tail \in 0 .. c - 1 /\ c = h.capacity
      /\ h.index \in [0 .. c - 1 -> 1 .. c] /\ Len(entries[p]) = c
  <2>1. /\ h \in Header /\ h = headers[p][Len(headers[p])]
        /\ Len(headers[p]) \in DOMAIN headers[p]
    BY SeqTypes DEF blockIndex
  <2>2. Len(entries[p]) = c /\ HeaderOK(h, Len(entries[p]))
    BY <2>1 DEF Headers
  <2> QED BY <2>1, <2>2, HeaderType DEF HeaderOK, RingSlots, capacity
<1> HIDE DEF c
<1>2. c \in Nat /\ c > 0
  BY <1>1
<1>3. d = [capacity |-> 2 * c, tail |-> c - 1,
           index |-> [i \in 0 .. 2 * c - 1 |->
                        IF i < c THEN Copied(h, i) ELSE c + 1 + i - c]]
  BY <1>1 DEF Doubled
<1> HIDE DEF d
<1>4. d.capacity = 2 * c /\ d.tail = c - 1
      /\ d.index = [i \in 0 .. 2 * c - 1 |-> IF i < c THEN Copied(h, i) ELSE c + 1 + i - c]
  BY <1>3
<1>5. ASSUME NEW s \in 0 .. c - 1
      PROVE  /\ Old(p, s) \in 0 .. c - 1 /\ d.index[s] = h.index[Old(p, s)]
             /\ d.index[s] \in 1 .. c
  <2> DEFINE t == h.tail
  <2>1. t + 1 + s = h.tail + 1 + s /\ t \in 0 .. c - 1
    BY <1>1
  <2>2. (t + 1 + s) % c = IF t + 1 + s < c THEN t + 1 + s ELSE t + 1 + s - c
    BY <1>1, <2>1, RingArithmetic
  <2>3. Old(p, s) = Back(c, t, c - 1 - s)
    BY DEF Old, c
  <2> HIDE DEF t
  <2>4. Back(c, t, c - 1 - s) = (t + 1 + s) % c /\ Back(c, t, c - 1 - s) \in 0 .. c - 1
    <3>1. PICK m \in Int : m = (t + 1 + s) % c
      BY <1>2, <2>1, <2>2
    <3> QED BY <1>2, <2>1, <2>2, <3>1 DEF Back
  <2>5. d.index[s] = Copied(h, s)
    BY <1>1, <1>4
  <2>6. d.index[s] = h.index[Old(p, s)]
    BY <1>1, <2>3, <2>4, <2>5 DEF Copied, t
  <2> QED BY <1>1, <2>3, <2>4, <2>6
<1>6. ASSUME NEW r \in 0 .. c - 1
      PROVE  \E s \in 0 .. c - 1 : Old(p, s) = r
  <2> DEFINE t == h.tail
             j == Back(c, t, r)
  <2>1. t \in 0 .. c - 1
    BY <1>1
  <2>2. j \in 0 .. c - 1 /\ Back(c, t, j) = r
    <3> HIDE DEF t
    <3> QED BY <1>1, <2>1, BackFacts
  <2> HIDE DEF j
  <2>3. c - 1 - j \in 0 .. c - 1 /\ c - 1 - (c - 1 - j) = j
    BY <1>2, <2>2
  <2>4. Old(p, c - 1 - j) = r
    BY <2>2, <2>3 DEF Old, c
  <2> QED BY <2>3, <2>4
<1>7. ASSUME NEW s \in c .. 2 * c - 1
      PROVE  d.index[s] = s + 1 /\ d.index[s] \in 1 .. 2 * c
  <2>1. s \in 0 .. 2 * c - 1 /\ ~ s < c /\ c + 1 + s - c = s + 1 /\ s + 1 \in 1 .. 2 * c
    BY <1>2
  <2> QED BY <1>4, <2>1
<1>8. d.index \in [0 .. 2 * c - 1 -> 1 .. 2 * c]
  <2>1. ASSUME NEW s \in 0 .. 2 * c - 1 PROVE d.index[s] \in 1 .. 2 * c
    <3>1. CASE s < c
      <4>1. s \in 0 .. c - 1 /\ \A n \in 1 .. c : n \in 1 .. 2 * c
        BY <1>2, <3>1
      <4> QED BY <1>5, <4>1
    <3>2. CASE s >= c
      <4>1. s \in c .. 2 * c - 1
        BY <1>2, <3>2
      <4> QED BY <1>7, <4>1
    <3> QED BY <1>2, <3>1, <3>2
  <2>2. d.index = [s \in 0 .. 2 * c - 1 |-> d.index[s]]
    BY <1>4
  <2> QED BY <2>1, <2>2
<1>9. d \in Header
  <2>1. d \in [capacity : {2 * c}, tail : 0 .. 2 * c - 1, index : [0 .. 2 * c - 1 -> Nat]]
    <3>1. d.index \in [0 .. 2 * c - 1 -> Nat]
      BY <1>1, <1>8
    <3>2. d = [capacity |-> d.capacity, tail |-> d.tail, index |-> d.index]
      BY <1>3
    <3>3. c - 1 \in 0 .. 2 * c - 1
      BY <1>2
    <3> QED BY <1>4, <3>1, <3>2, <3>3
  <2>2. 2 * c \in Nat
    BY <1>2
  <2>3. PICK k \in Nat : k = 2 * c
    BY <2>2
  <2> QED BY <2>1, <2>3 DEF Header
<1> QED BY <1>4, <1>5, <1>6, <1>7, <1>8, <1>9 DEF c, d

LEMMA DoubledState ==
  ASSUME TypeInv, NEW p \in Producers, Headers(p), headers[p] # << >>, NewBlockIndex(p)
  PROVE  /\ headers' \in [Producers -> Seq(Header)] /\ entries' \in [Producers -> Seq(Entry)]
         /\ \A q \in Producers \ {p} : SameRings(q)
         /\ Len(headers'[p]) = Len(headers[p]) + 1 /\ headers'[p] # << >>
         /\ DOMAIN headers'[p] = DOMAIN headers[p] \cup {Len(headers[p]) + 1}
         /\ \A i \in DOMAIN headers[p] : headers'[p][i] = headers[p][i]
         /\ blockIndex(p)' = Doubled(p) /\ headers'[p][Len(headers[p]) + 1] = Doubled(p)
         /\ DOMAIN entries[p] = 1 .. capacity(p)
         /\ DOMAIN entries'[p] = 1 .. 2 * capacity(p) /\ Len(entries'[p]) = 2 * capacity(p)
         /\ \A n \in DOMAIN entries[p] : entries'[p][n] = entries[p][n]
         /\ \A n \in capacity(p) + 1 .. 2 * capacity(p) : entries'[p][n] = NewEntry
<1> DEFINE c == capacity(p)
           s == headers[p]
           x == entries[p]
           y == [i \in 1 .. c |-> NewEntry]
<1>1. /\ headers' = [headers EXCEPT ![p] = Append(@, Doubled(p))]
      /\ entries' = [entries EXCEPT ![p] = @ \o [i \in 1 .. blockIndex(p).capacity |-> NewEntry]]
  BY DEF NewBlockIndex
<1>2. /\ s \in Seq(Header) /\ x \in Seq(Entry) /\ c \in Nat \ {0} /\ Len(x) = c
      /\ Doubled(p) \in Header /\ Len(s) \in Nat
      /\ DOMAIN s = 1 .. Len(s) /\ DOMAIN x = 1 .. c
      /\ headers \in [Producers -> Seq(Header)] /\ entries \in [Producers -> Seq(Entry)]
  BY SeqTypes, RingFacts, DoubledHeader DEF Headers, TypeInv
<1>3. NewEntry \in Entry
  <2>1. 1 \in Words
    BY Sizes, SizesAssumption DEF Words
  <2> QED BY <2>1 DEF NewEntry, Entry, INVALID_BLOCK_BASE
<1>4. y \in Seq(Entry) /\ Len(y) = c
  BY <1>2, <1>3, LenProperties
<1>5. headers'[p] = Append(s, Doubled(p)) /\ \A q \in Producers \ {p} : headers'[q] = headers[q]
  BY <1>1, <1>2
<1>6. entries'[p] = x \o y /\ \A q \in Producers \ {p} : entries'[q] = entries[q]
  BY <1>1, <1>2 DEF capacity
<1> HIDE DEF y, c
<1>7. /\ headers'[p] \in Seq(Header) /\ Len(headers'[p]) = Len(s) + 1
      /\ headers'[p] # << >>
      /\ \A i \in 1 .. Len(s) : headers'[p][i] = s[i]
      /\ headers'[p][Len(s) + 1] = Doubled(p)
  BY <1>2, <1>5, AppendProperties
<1>8. DOMAIN headers'[p] = DOMAIN s \cup {Len(s) + 1}
  <2>1. DOMAIN headers'[p] = 1 .. Len(s) + 1
    BY <1>7, LenProperties
  <2> QED BY <1>2, <2>1
<1>9. /\ entries'[p] \in Seq(Entry) /\ Len(entries'[p]) = 2 * c
      /\ \A n \in 1 .. 2 * c : entries'[p][n] = IF n <= c THEN x[n] ELSE y[n - c]
  <2>1. /\ x \o y \in Seq(Entry) /\ Len(x \o y) = Len(x) + Len(y)
        /\ \A n \in 1 .. Len(x) + Len(y) : (x \o y)[n] = IF n <= Len(x) THEN x[n] ELSE y[n - Len(x)]
    BY <1>2, <1>4, ConcatProperties
  <2>2. Len(x) + Len(y) = 2 * c
    BY <1>2, <1>4
  <2> QED BY <1>2, <1>6, <2>1, <2>2
<1>10. DOMAIN entries'[p] = 1 .. 2 * c
  BY <1>9, LenProperties
<1>11. ASSUME NEW n \in 1 .. c PROVE entries'[p][n] = entries[p][n]
  <2>1. n \in 1 .. 2 * c /\ n <= c
    BY <1>2
  <2> QED BY <1>9, <2>1
<1>12. ASSUME NEW n \in c + 1 .. 2 * c PROVE entries'[p][n] = NewEntry
  <2>1. n \in 1 .. 2 * c /\ ~ n <= c /\ n - c \in 1 .. c
    BY <1>2
  <2>2. y[n - c] = NewEntry
    BY <2>1 DEF y
  <2> QED BY <1>9, <2>1, <2>2
<1>13. headers' \in [Producers -> Seq(Header)]
  BY <1>1, <1>2, <1>5, <1>7
<1>14. entries' \in [Producers -> Seq(Entry)]
  BY <1>1, <1>2, <1>6, <1>9
<1>15. blockIndex(p)' = Doubled(p)
  BY <1>7 DEF blockIndex
<1> QED BY <1>2, <1>5, <1>6, <1>7, <1>8, <1>9, <1>10, <1>11, <1>12, <1>13, <1>14, <1>15
        DEF SameRings, c

\* The ring is full when it is replaced, with a block in every slot.
LEMMA WhenFull ==
  ASSUME IInv, NEW p \in Producers, NewBlockIndex(p),
         NEW f \in Int, NEW e \in Int, InOrder(p, f, e)
  PROVE  /\ headers[p] # << >> /\ e - f = capacity(p) /\ 2 * capacity(p) <= nb
         /\ nb % (2 * capacity(p)) = 0
         /\ LastSlot(p) = blockIndex(p).tail /\ Live(EntryAt(p, NextSlot(p)))
         /\ enq[p] = "entry" /\ enq'[p] = "entry"
         /\ \A s \in RingSlots(blockIndex(p)) : Live(EntryAt(p, s))
<1> DEFINE c == capacity(p)
<1>1. enq[p] = "entry" /\ ~ Free(EntryAt(p, newTail(p))) /\ enq' = enq
  BY DEF NewBlockIndex, idxEntry, EntryAt
<1>2. TypeInv /\ Headers(p) /\ headers[p] # << >> /\ Ring(p, f, e) /\ Ends(p, f, e)
  BY <1>1, WhileOpening DEF IInv, InOrder, Opening
<1>3. /\ NextSlot(p) = newTail(p) /\ LastSlot(p) = blockIndex(p).tail
      /\ Live(EntryAt(p, NextSlot(p)))
  BY <1>1, <1>2, FreeOrLive DEF Keyed
<1>4. /\ c \in Nat \ {0} /\ NextSlot(p) \in 0 .. c - 1 /\ RingSlots(blockIndex(p)) = 0 .. c - 1
      /\ \A s \in 0 .. c - 1 : Age(p, s) \in 0 .. c - 1
      /\ Age(p, NextSlot(p)) = c - 1
  BY <1>2, RingFacts
<1>5. e - f = c
  <2>1. c - 1 < e - f /\ e - f <= c
    BY <1>2, <1>3, <1>4 DEF Ring
  <2> QED BY <1>4, <2>1
<1>6. ASSUME NEW s \in 0 .. c - 1 PROVE Live(EntryAt(p, s))
  <2>1. Age(p, s) < e - f
    BY <1>4, <1>5
  <2> QED BY <1>2, <1>4, <2>1 DEF Ring
<1>7. c + 1 <= Half
  <2>1. Near(p, f, e + 1)
    BY <1>1, <1>2 DEF Ends, Opening
  <2> QED BY <1>4, <1>5, <2>1, Sizes DEF Near
<1>8. nb % c = 0 /\ c < nb /\ 2 * c <= nb
  <2>1. nb % c = 0
    BY <1>2, SeqTypes DEF Headers, HeaderOK, capacity, blockIndex
  <2>2. Half \in Nat /\ nb = 2 * Half
    BY Sizes
  <2>3. c < nb /\ 2 * c <= nb
    BY <1>4, <1>7, <2>2
  <2> QED BY <2>1, <2>3
<1>9. nb % (2 * c) = 0
  BY <1>4, <1>8, Doubling
<1> QED BY <1>1, <1>2, <1>3, <1>4, <1>5, <1>6, <1>8, <1>9

LEMMA DoubledRing ==
  ASSUME IInv, NEW p \in Producers, NewBlockIndex(p),
         NEW f \in Int, NEW e \in Int, InOrder(p, f, e)
  PROVE  /\ \A s \in 0 .. capacity(p) - 1 :
              /\ Age(p, s)' = capacity(p) - 1 - s /\ Age(p, Old(p, s)) = capacity(p) - 1 - s
              /\ EntryAt(p, s)' = EntryAt(p, Old(p, s))
         /\ \A s \in capacity(p) .. 2 * capacity(p) - 1 :
              Age(p, s)' >= capacity(p) /\ EntryAt(p, s)' = NewEntry
         /\ RingSlots(blockIndex(p))' = 0 .. 2 * capacity(p) - 1
         /\ capacity(p)' = 2 * capacity(p)
<1> DEFINE c == capacity(p)
           t == blockIndex(p).tail
<1>1. /\ TypeInv /\ Headers(p) /\ headers[p] # << >> /\ LastSlot(p) = t
      /\ enq'[p] = "entry"
  BY WhenFull DEF IInv, ProducerInv
<1>2. c \in Nat \ {0} /\ t \in 0 .. c - 1
  BY <1>1, RingFacts
<1>3. blockIndex(p)' = Doubled(p)
  BY <1>1, DoubledState
<1>4. /\ Doubled(p).capacity = 2 * c /\ Doubled(p).tail = c - 1
      /\ \A s \in 0 .. c - 1 :
           /\ Old(p, s) \in 0 .. c - 1
           /\ Doubled(p).index[s] = blockIndex(p).index[Old(p, s)]
      /\ \A s \in c .. 2 * c - 1 : Doubled(p).index[s] = s + 1
  BY <1>1, DoubledHeader
<1>5. capacity(p)' = 2 * c /\ RingSlots(blockIndex(p))' = 0 .. 2 * c - 1
  BY <1>3, <1>4 DEF capacity, RingSlots
<1>6. LastSlot(p)' = c - 1
  BY <1>1, <1>3, <1>4 DEF LastSlot, Pending
<1>7. \A s : Age(p, s)' = Back(2 * c, c - 1, s)
  BY <1>5, <1>6 DEF Age
<1>8. ASSUME NEW s \in 0 .. c - 1
      PROVE  /\ Age(p, s)' = c - 1 - s /\ Age(p, Old(p, s)) = c - 1 - s
             /\ EntryAt(p, s)' = EntryAt(p, Old(p, s))
  <2> HIDE DEF c, t
  <2>1. c - 1 - s \in 0 .. c - 1 /\ c \in Nat
    BY <1>2
  <2>2. Back(c, t, Back(c, t, c - 1 - s)) = c - 1 - s
    BY <1>2, <2>1, BackFacts
  <2>3. Age(p, Old(p, s)) = c - 1 - s
    BY <1>1, <2>2 DEF Age, Old, c, t
  <2>4. Back(2 * c, c - 1, s) = c - 1 - s
    BY <2>1 DEF Back
  <2>5. EntryAt(p, s)' = entries'[p][blockIndex(p).index[Old(p, s)]]
    BY <1>3, <1>4 DEF EntryAt
  <2>6. blockIndex(p).index[Old(p, s)] \in DOMAIN entries[p]
    BY <1>1, <1>4, RingFacts DEF c
  <2>7. entries'[p][blockIndex(p).index[Old(p, s)]] = entries[p][blockIndex(p).index[Old(p, s)]]
    BY <1>1, <2>6, DoubledState
  <2> QED BY <1>7, <2>3, <2>4, <2>5, <2>7 DEF EntryAt
<1>9. ASSUME NEW s \in c .. 2 * c - 1
      PROVE  Age(p, s)' >= c /\ EntryAt(p, s)' = NewEntry
  <2> HIDE DEF c
  <2>1. Back(2 * c, c - 1, s) >= c
    BY <1>2 DEF Back
  <2>2. s + 1 \in c + 1 .. 2 * c
    BY <1>2
  <2>3. entries'[p][s + 1] = NewEntry
    BY <1>1, <2>2, DoubledState DEF c
  <2> QED BY <1>3, <1>4, <1>7, <2>1, <2>3 DEF EntryAt
<1> QED BY <1>5, <1>8, <1>9

LEMMA DoubledPoints ==
  ASSUME IInv, NEW p \in Producers, NewBlockIndex(p),
         NEW f \in Int, NEW e \in Int, InOrder(p, f, e),
         NEW L \in DOMAIN headers[p], NEW t \in RingSlots(headers[p][L]), Points(p, f, L, t)
  PROVE  Points(p, f, L, t)'
<1> DEFINE h == headers[p][L]
<1>1. TypeInv /\ Headers(p) /\ headers[p] # << >> /\ Live(EntryAt(p, NextSlot(p)))
  BY WhenFull DEF IInv, ProducerInv
<1>2. PICK d \in RingSlots(h) : Leads(p, f, L, t, d)
  BY DEF Points
<1>3. h' = h /\ \A n \in DOMAIN entries[p] : entries'[p][n] = entries[p][n]
  BY <1>1, DoubledState
<1>4. h.index[t] \in DOMAIN entries[p] /\ h.index[Back(h.capacity, t, d)] \in DOMAIN entries[p]
  <2>1. HeaderOK(h, Len(entries[p])) /\ h \in Header /\ DOMAIN entries[p] = 1 .. Len(entries[p])
    BY <1>1, SeqTypes DEF Headers
  <2>2. Back(h.capacity, t, d) \in RingSlots(h)
    BY <1>2, <2>1, HeaderType, BackFacts DEF RingSlots
  <2> QED BY <2>1, <2>2 DEF HeaderOK
<1>5. Live(entries[p][h.index[t]])
  <2>1. ASSUME L = Len(headers[p]), t = NextSlot(p) PROVE Live(entries[p][h.index[t]])
    BY <1>1, <2>1 DEF EntryAt, blockIndex
  <2> QED BY <1>2, <2>1 DEF Leads
<1>6. Leads(p, f, L, t, d)'
  BY <1>2, <1>3, <1>4, <1>5 DEF Leads, Live
<1> QED BY <1>2, <1>3, <1>6 DEF Points

LEMMA DoubledHeaders ==
  ASSUME IInv, NEW p \in Producers, NewBlockIndex(p),
         NEW f \in Int, NEW e \in Int, InOrder(p, f, e)
  PROVE  Headers(p)'
<1> DEFINE c == capacity(p)
           d == Doubled(p)
           h == blockIndex(p)
<1>1. /\ TypeInv /\ Headers(p) /\ headers[p] # << >> /\ 2 * c <= nb /\ nb % (2 * c) = 0
  BY WhenFull DEF IInv, ProducerInv
<1>2. c \in Nat \ {0} /\ Len(entries[p]) = c /\ DOMAIN entries[p] = 1 .. c
  BY <1>1, RingFacts, SeqTypes DEF Headers
<1>3. \A r, s \in 0 .. c - 1 : h.index[r] = h.index[s] => r = s
  BY <1>1, RingFacts
<1>4. \A s \in 0 .. c - 1 : h.index[s] \in 1 .. c
  BY <1>1, <1>2, RingFacts
<1>5. \A n \in 1 .. c : \E r \in 0 .. c - 1 : h.index[r] = n
  BY <1>1, <1>2, RingFacts
<1>6. d.capacity = 2 * c /\ d.tail = c - 1 /\ d.index \in [0 .. 2 * c - 1 -> 1 .. 2 * c]
  BY <1>1, DoubledHeader
<1>7. \A s \in 0 .. c - 1 : Old(p, s) \in 0 .. c - 1 /\ d.index[s] = h.index[Old(p, s)]
  BY <1>1, DoubledHeader
<1>8. \A r \in 0 .. c - 1 : \E s \in 0 .. c - 1 : Old(p, s) = r
  BY <1>1, DoubledHeader
<1>9. \A s \in c .. 2 * c - 1 : d.index[s] = s + 1
  BY <1>1, DoubledHeader
<1>10. \A s \in 0 .. c - 1 : Age(p, Old(p, s)) = c - 1 - s
  BY DoubledRing
<1>11. /\ DOMAIN headers'[p] = DOMAIN headers[p] \cup {Len(headers[p]) + 1}
       /\ \A i \in DOMAIN headers[p] : headers'[p][i] = headers[p][i]
       /\ blockIndex(p)' = d /\ headers'[p][Len(headers[p]) + 1] = d
       /\ DOMAIN entries'[p] = 1 .. 2 * c /\ Len(entries'[p]) = 2 * c
  BY <1>1, DoubledState
<1> HIDE DEF c, d, h
<1>12. c \in Nat /\ c > 0 /\ 2 * c \in Nat
  BY <1>2
<1>13. ASSUME NEW s \in 0 .. 2 * c - 1, NEW r \in 0 .. 2 * c - 1, d.index[s] = d.index[r]
       PROVE  s = r
  <2>1. CASE s < c /\ r < c
    <3>1. s \in 0 .. c - 1 /\ r \in 0 .. c - 1
      BY <1>12, <2>1
    <3>2. Old(p, s) = Old(p, r)
      BY <1>3, <1>7, <1>13, <3>1
    <3>3. c - 1 - s = c - 1 - r
      BY <1>10, <3>1, <3>2
    <3> QED BY <1>12, <3>1, <3>3
  <2>2. ASSUME NEW x \in 0 .. 2 * c - 1, NEW y \in 0 .. 2 * c - 1, x < c, y >= c
        PROVE  d.index[x] # d.index[y]
    <3>1. x \in 0 .. c - 1 /\ y \in c .. 2 * c - 1
      BY <1>12, <2>2
    <3>2. d.index[x] \in 1 .. c /\ d.index[y] = y + 1
      BY <1>4, <1>7, <1>9, <3>1
    <3> QED BY <1>12, <3>1, <3>2
  <2>3. CASE s >= c /\ r >= c
    <3>1. s \in c .. 2 * c - 1 /\ r \in c .. 2 * c - 1
      BY <1>12, <2>3
    <3>2. s + 1 = r + 1
      BY <1>9, <1>13, <3>1
    <3> QED BY <1>12, <3>1, <3>2
  <2> QED BY <1>12, <1>13, <2>1, <2>2, <2>3
<1>14. HeaderOK(d, 2 * c)
  <2>1. RingSlots(d) = 0 .. 2 * c - 1 /\ c - 1 \in 0 .. 2 * c - 1 /\ 2 * c > 0
    BY <1>12, <1>6 DEF RingSlots
  <2> QED BY <1>1, <1>6, <1>13, <2>1 DEF HeaderOK
<1>15. ASSUME NEW i \in DOMAIN headers[p] PROVE HeaderOK(headers[p][i], 2 * c)
  <2>1. HeaderOK(headers[p][i], c)
    BY <1>1, <1>2 DEF Headers
  <2>2. \A n \in 1 .. c : n \in 1 .. 2 * c
    BY <1>12
  <2>3. headers[p][i].index \in [RingSlots(headers[p][i]) -> 1 .. 2 * c]
    BY <2>1, <2>2 DEF HeaderOK
  <2> QED BY <2>1, <2>3 DEF HeaderOK
<1>16. ASSUME NEW n \in 1 .. 2 * c PROVE \E s \in 0 .. 2 * c - 1 : d.index[s] = n
  <2>1. CASE n <= c
    <3>1. PICK r \in 0 .. c - 1 : h.index[r] = n
      BY <1>12, <1>5, <2>1
    <3>2. PICK s \in 0 .. c - 1 : Old(p, s) = r
      BY <1>8
    <3>3. s \in 0 .. 2 * c - 1 /\ d.index[s] = n
      BY <1>12, <1>7, <3>1, <3>2
    <3> QED BY <3>3
  <2>2. CASE n > c
    <3>1. n - 1 \in c .. 2 * c - 1 /\ n - 1 \in 0 .. 2 * c - 1 /\ (n - 1) + 1 = n
      BY <1>12, <2>2
    <3>2. d.index[n - 1] = n
      BY <1>9, <3>1
    <3> QED BY <3>1, <3>2
  <2> QED BY <1>12, <2>1, <2>2
<1>17. RingSlots(blockIndex(p))' = 0 .. 2 * c - 1 /\ capacity(p)' = 2 * c
  BY DoubledRing DEF c
<1>18. ASSUME NEW i \in DOMAIN headers'[p]
       PROVE  HeaderOK(headers'[p][i], Len(entries'[p]))
  BY <1>11, <1>14, <1>15
<1>19. ASSUME NEW n \in DOMAIN entries'[p]
       PROVE  \E s \in RingSlots(blockIndex(p))' : blockIndex(p)'.index[s] = n
  BY <1>11, <1>16, <1>17
<1>20. capacity(p)' = Len(entries'[p])
  BY <1>11, <1>17
<1> QED BY <1>18, <1>19, <1>20 DEF Headers

LEMMA NewBlockIndexStep ==
  ASSUME IInv, NEW p \in Producers, NewBlockIndex(p)
  PROVE  IInv'
<1> DEFINE c == capacity(p)
           L == Len(headers[p])
<1>1. PICK f \in Int, e \in Int : InOrder(p, f, e)
  BY DEF IInv, ProducerInv
<1>2. /\ TypeInv /\ Headers(p) /\ Bare(p) /\ BlocksInv /\ FromInv
      /\ Ring(p, f, e) /\ Holding(p, f, e) /\ Looking(p, f) /\ Ends(p, f, e)
  BY <1>1 DEF InOrder, IInv, ProducerInv
<1>3. /\ headers[p] # << >> /\ e - f = c /\ enq[p] = "entry" /\ enq'[p] = "entry"
      /\ LastSlot(p) = blockIndex(p).tail
      /\ \A s \in RingSlots(blockIndex(p)) : Live(EntryAt(p, s))
  BY <1>1, WhenFull
<1>4. UNCHANGED <<tailIndex, headIndex, tailBlock, contents, elementsCompletelyDequeued,
                  pool, freeList, heap, enq, deq, from, index, localBlockIndex, tail, entry,
                  block, element>>
  BY DEF NewBlockIndex, indices, memory, consumer, locals
<1>5. c \in Nat /\ c > 0 /\ RingSlots(blockIndex(p)) = 0 .. c - 1
  BY <1>2, <1>3, RingFacts
<1>6. /\ \A s \in 0 .. c - 1 :
              /\ Age(p, s)' = c - 1 - s /\ Age(p, Old(p, s)) = c - 1 - s
              /\ EntryAt(p, s)' = EntryAt(p, Old(p, s))
      /\ \A s \in c .. 2 * c - 1 : Age(p, s)' >= c /\ EntryAt(p, s)' = NewEntry
      /\ RingSlots(blockIndex(p))' = 0 .. 2 * c - 1 /\ capacity(p)' = 2 * c
  BY <1>1, DoubledRing
<1>7. \A s \in 0 .. c - 1 : Old(p, s) \in 0 .. c - 1
  BY <1>2, <1>3, DoubledHeader
<1>8. /\ headers' \in [Producers -> Seq(Header)] /\ entries' \in [Producers -> Seq(Entry)]
      /\ \A q \in Producers \ {p} : SameRings(q)
      /\ DOMAIN headers'[p] = DOMAIN headers[p] \cup {L + 1} /\ headers'[p] # << >>
      /\ \A i \in DOMAIN headers[p] : headers'[p][i] = headers[p][i]
      /\ DOMAIN entries[p] = 1 .. c /\ DOMAIN entries'[p] = 1 .. 2 * c
      /\ \A n \in DOMAIN entries[p] : entries'[p][n] = entries[p][n]
      /\ \A n \in c + 1 .. 2 * c : entries'[p][n] = NewEntry
  BY <1>2, <1>3, DoubledState
<1>9. Ahead(p) /\ Ahead(p)'
  BY <1>3, <1>4, <1>2 DEF Ends, Ahead, Opening
<1>10. Ends(p, f, e)' /\ taken(p)' = taken(p) /\ filled(p)' = filled(p)
  BY <1>2, <1>3, <1>4, <1>9, FrameEnds
<1> HIDE DEF c, L
<1>11. ~ Live(NewEntry) /\ Free(NewEntry)
  BY BlocksAssumption DEF Live, Free, NewEntry
<1>12. Ring(p, f, e)'
  <2>1. ASSUME NEW s \in 0 .. 2 * c - 1
        PROVE  IF Age(p, s)' < e - f
               THEN Live(EntryAt(p, s)') /\ EntryAt(p, s)'.key = Key(e - 1 - Age(p, s)')
               ELSE ~ Live(EntryAt(p, s)') /\ Free(EntryAt(p, s)')
    <3>1. CASE s < c
      <4>1. PICK r \in 0 .. c - 1 : r = Old(p, s)
        BY <1>5, <1>7, <3>1
      <4>2. /\ Age(p, s)' = c - 1 - s /\ Age(p, r) = c - 1 - s /\ c - 1 - s < e - f
            /\ EntryAt(p, s)' = EntryAt(p, r)
        BY <1>3, <1>5, <1>6, <3>1, <4>1
      <4>3. Live(EntryAt(p, r)) /\ EntryAt(p, r).key = Key(e - 1 - Age(p, r))
        BY <1>2, <1>3, <1>5, <4>2 DEF Ring
      <4> QED BY <4>2, <4>3
    <3>2. CASE s >= c
      <4>1. s \in c .. 2 * c - 1
        BY <1>5, <3>2
      <4>2. Age(p, s)' >= c /\ EntryAt(p, s)' = NewEntry
        BY <1>6, <4>1
      <4>3. ~ Age(p, s)' < e - f
        <5>1. Age(p, s)' \in Int
          <6>1. Age(p, s)' = Back(2 * c, LastSlot(p)', s) /\ LastSlot(p)' = c - 1
            <7>1. blockIndex(p)' = Doubled(p) /\ Doubled(p).tail = c - 1
              BY <1>2, <1>3, DoubledState, DoubledHeader DEF c
            <7> QED BY <1>3, <1>6, <7>1 DEF Age, LastSlot, Pending
          <6> QED BY <1>5, <6>1 DEF Back
        <5> QED BY <1>3, <1>5, <4>2, <5>1
      <4> QED BY <1>11, <4>2, <4>3
    <3> QED BY <1>5, <3>1, <3>2
  <2>2. e - f <= 2 * c
    BY <1>3, <1>5
  <2>3. enq'[p] \notin Keyed
    BY <1>3 DEF Keyed
  <2> QED BY <1>6, <2>1, <2>2, <2>3 DEF Ring, Live, Free
<1>13. Holding(p, f, e)'
  <2>1. ASSUME NEW s \in 0 .. 2 * c - 1, Age(p, s)' < e - f
        PROVE  Holds(p, f, e, e - 1 - Age(p, s), EntryAt(p, s).value)'
    <3>1. s \in 0 .. c - 1
      <4>1. ASSUME s >= c PROVE FALSE
        <5>1. s \in c .. 2 * c - 1
          BY <1>5, <4>1
        <5>2. EntryAt(p, s)' = NewEntry
          BY <1>6, <5>1
        <5>3. Live(EntryAt(p, s)')
          BY <1>6, <1>8, <1>12, <2>1 DEF Ring, Live
        <5> QED BY <1>11, <5>2, <5>3
      <4> QED BY <1>5, <4>1
    <3>2. PICK r \in 0 .. c - 1 : r = Old(p, s)
      BY <1>7, <3>1
    <3>3. Age(p, s)' = Age(p, r) /\ EntryAt(p, s)' = EntryAt(p, r) /\ Age(p, r) = c - 1 - s
      BY <1>6, <3>1, <3>2
    <3>4. Holds(p, f, e, e - 1 - Age(p, r), EntryAt(p, r).value)
      BY <1>2, <1>3, <1>5, <2>1, <3>3 DEF Holding
    <3> DEFINE k == e - 1 - Age(p, s)
               b == EntryAt(p, s).value
               l == e - 1 - Age(p, r)
               a == EntryAt(p, r).value
    <3>5. k' = l /\ b' = a
      BY <3>3
    <3>6. Holds(p, f, e, l, a)
      BY <3>4
    <3> HIDE DEF k, b, l, a
    <3>7. (Holds(p, f, e, k, b))'
      BY <1>4, <1>10, <3>5, <3>6 DEF Holds
    <3> QED BY <3>7 DEF k, b
  <2> QED BY <1>6, <1>9, <2>1 DEF Holding
<1>14. Looking(p, f)'
  <2> SUFFICES ASSUME from = p PROVE Looking(p, f)'
    BY <1>4 DEF Looking
  <2>1. deq \in {"tail", "entry"} =>
          /\ localBlockIndex \in DOMAIN headers[p] /\ localBlockIndex \in DOMAIN headers'[p]
          /\ headers'[p][localBlockIndex] = headers[p][localBlockIndex]
    BY <1>2, <1>8 DEF Looking
  <2>2. ASSUME deq \in {"tail", "entry"}, NEW t \in RingSlots(headers[p][localBlockIndex]),
               Points(p, f, localBlockIndex, t)
        PROVE  Points(p, f, localBlockIndex, t)'
    <3>1. PICK M \in DOMAIN headers[p] : M = localBlockIndex
      BY <2>1, <2>2
    <3>2. (Points(p, f, M, t))'
      BY <1>1, <2>2, <3>1, DoubledPoints
    <3> QED BY <1>4, <3>1, <3>2
  <2>3. ASSUME deq = "tail"
        PROVE  Points(p, f, localBlockIndex, headers[p][localBlockIndex].tail)'
    <3>1. PICK t \in RingSlots(headers[p][localBlockIndex]) : t = headers[p][localBlockIndex].tail
      BY <1>2, <2>1, <2>3 DEF Headers, HeaderOK
    <3>2. Points(p, f, localBlockIndex, t)
      <4>1. CASE localBlockIndex = L
        <5>1. f < e
          BY <1>2 DEF Ends
        <5>2. Points(p, f, L, blockIndex(p).tail)
          BY <1>2, <1>3, <5>1, RingPoints DEF L
        <5> QED BY <3>1, <4>1, <5>2 DEF blockIndex, L
      <4>2. CASE localBlockIndex # L
        BY <1>2, <2>3, <3>1, <4>2 DEF Looking, L
      <4> QED BY <4>1, <4>2
    <3> QED BY <1>4, <2>1, <2>2, <2>3, <3>1, <3>2
  <2>4. ASSUME deq = "entry"
        PROVE  /\ tail \in RingSlots(headers[p][localBlockIndex])
               /\ Points(p, f, localBlockIndex, tail)'
    <3>1. PICK t \in RingSlots(headers[p][localBlockIndex]) : t = tail
      BY <1>2, <2>4 DEF Looking
    <3>2. Points(p, f, localBlockIndex, t)
      BY <1>2, <2>4, <3>1 DEF Looking
    <3> QED BY <1>4, <2>2, <2>4, <3>1, <3>2
  <2>5. deq \in {"element", "clear"} =>
          /\ entry \in DOMAIN entries[p] /\ entry \in DOMAIN entries'[p]
          /\ entries'[p][entry] = entries[p][entry]
    <3>1. deq \in {"element", "clear"} => entry \in DOMAIN entries[p]
      BY <1>2 DEF Looking
    <3>2. \A n \in 1 .. c : n \in 1 .. 2 * c
      BY <1>5
    <3> QED BY <1>8, <3>1, <3>2
  <2>6. deq' = "tail" => Points(p, f, localBlockIndex, headers[p][localBlockIndex].tail)'
    BY <1>4, <2>3
  <2>7. deq' = "entry" =>
          /\ tail' \in RingSlots(headers[p][localBlockIndex])'
          /\ Points(p, f, localBlockIndex, tail)'
    BY <1>4, <2>1, <2>4 DEF RingSlots
  <2>8. /\ deq' \in {"element", "clear"} =>
             /\ entry' \in DOMAIN entries'[p]
             /\ entries'[p][entry'].key = Key(f) /\ Live(entries[p][entry])'
        /\ deq' = "clear" => entries'[p][entry'].value = block'
    BY <1>2, <1>4, <2>5 DEF Looking, Live
  <2>9. deq' \in {"tail", "entry"} => localBlockIndex' \in DOMAIN headers'[p]
    BY <1>4, <2>1
  <2> QED BY <2>6, <2>7, <2>8, <2>9 DEF Looking
<1>15. Headers(p)'
  BY <1>1, DoubledHeaders
<1>16. ProducerInv(p)'
  BY <1>8, <1>10, <1>12, <1>13, <1>14, <1>15 DEF ProducerInv, InOrder, Bare
<1>17. \A q \in Producers \ {p} : SameRings(q) /\ SameBlocks(q)
  BY <1>4, <1>8 DEF SameBlocks
<1>18. \A q \in Producers : ProducerInv(q)'
  BY <1>4, <1>16, <1>17, OtherProducers DEF consumer, locals
<1>19. TypeInv'
  BY <1>2, <1>4, <1>8 DEF TypeInv
<1>20. FromInv'
  BY <1>2, <1>4 DEF FromInv
<1>21. BlocksInv'
  <2>1. ASSUME NEW n \in DOMAIN entries'[p], Live(entries'[p][n])
        PROVE  n \in DOMAIN entries[p]
    <3>1. n \notin c + 1 .. 2 * c
      BY <1>8, <1>11, <2>1
    <3> QED BY <1>5, <1>8, <3>1
  <2>2. \A n \in DOMAIN entries[p] : n \in DOMAIN entries'[p]
    BY <1>5, <1>8
  <2>3. ASSUME NEW q \in Producers, NEW n \in DOMAIN entries[q] \cup DOMAIN entries'[q],
               (n \in DOMAIN entries[q] /\ Live(entries[q][n]))
                 \/ (n \in DOMAIN entries'[q] /\ Live(entries'[q][n]))
        PROVE  /\ n \in DOMAIN entries[q] /\ n \in DOMAIN entries'[q]
               /\ entries'[q][n].value = entries[q][n].value
    <3>1. CASE q = p
      BY <1>8, <2>1, <2>2, <2>3, <3>1
    <3>2. CASE q # p
      BY <1>8, <2>3, <3>2 DEF SameRings
    <3> QED BY <3>1, <3>2
  <2> QED BY <1>2, <1>4, <2>3, FrameBlocks
<1> QED BY <1>18, <1>19, <1>20, <1>21 DEF IInv

-----------------------------------------------------------------------------
(* A block goes into the next entry.                                       *)

\* What is common to RequisitionBlock and Allocate.
Installed(p, b) ==
  /\ enq[p] \in {"block", "malloc"} /\ Goto(p, "store") /\ b \in Unused /\ Install(p, b)
  /\ UNCHANGED <<tailIndex, headIndex, headers, contents, consumer>>
  /\ pool' \subseteq pool /\ freeList' \subseteq freeList /\ heap' \subseteq heap
  /\ Unused' = Unused \ {b}

\* The entry that gets the block becomes the last one.
LEMMA InstalledRing ==
  ASSUME IInv, NEW p \in Producers, NEW b \in Blocks, Installed(p, b),
         NEW f \in Int, NEW e \in Int, InOrder(p, f, e)
  PROVE  /\ enq'[p] = "store" /\ (\A q \in Producers \ {p} : enq'[q] = enq[q])
         /\ headers[p] # << >> /\ headers' = headers /\ Headers(p)
         /\ blockIndex(p).index[NextSlot(p)] \in DOMAIN entries[p]
         /\ OneEntry(p, blockIndex(p).index[NextSlot(p)])
         /\ EntryAt(p, NextSlot(p)).key = Key(e) /\ ~ Live(EntryAt(p, NextSlot(p)))
         /\ LastSlot(p)' = NextSlot(p) /\ capacity(p)' = capacity(p)
         /\ NextSlot(p) \in 0 .. capacity(p) - 1 /\ e + 1 - f <= capacity(p)
         /\ \A s \in 0 .. capacity(p) - 1 :
              IF s = NextSlot(p)
              THEN Age(p, s)' = 0 /\ EntryAt(p, s)'.value = b /\ EntryAt(p, s)'.key = Key(e)
              ELSE Age(p, s)' = Age(p, s) + 1 /\ EntryAt(p, s)' = EntryAt(p, s)
         /\ filled(p) = BLOCK_SIZE /\ filled(p)' = 0 /\ tailIndex[p] = Key(e)
         /\ tailIndex[p] % BLOCK_SIZE = 0
         /\ RingSlots(blockIndex(p)) = 0 .. capacity(p) - 1
<1> DEFINE c == capacity(p)
           N == NextSlot(p)
           n == blockIndex(p).index[N]
<1>1. /\ enq[p] \in {"block", "malloc"} /\ Goto(p, "store")
      /\ entries' = [entries EXCEPT ![p][idxEntry(p, blockIndex(p).tail)].value = b]
      /\ UNCHANGED <<tailIndex, headers>>
  BY DEF Installed, Install
<1>2. enq'[p] = "store" /\ \A q \in Producers \ {p} : enq'[q] = enq[q]
  BY <1>1, EnqType DEF IInv
<1>3. N = blockIndex(p).tail /\ Pending(p)
  BY <1>1 DEF NextSlot, Pending
<1>4. /\ TypeInv /\ Headers(p) /\ headers[p] # << >> /\ Ahead(p)
      /\ n \in DOMAIN entries[p] /\ ~ Live(entries[p][n]) /\ entries[p][n].key = tailIndex[p]
  BY <1>1, WhileOpening DEF Opening, Keyed
<1>5. OneEntry(p, n) /\ entries'[p][n].value = b /\ entries'[p][n].key = tailIndex[p]
  <2>1. entries' = [entries EXCEPT ![p][n].value = b]
    BY <1>1, <1>3 DEF idxEntry
  <2> HIDE DEF n
  <2> QED BY <1>4, <2>1, ValueStored
<1>6. /\ tailIndex[p] % BLOCK_SIZE = 0 /\ filled(p) = BLOCK_SIZE /\ filled(p)' = 0
      /\ Ring(p, f, e) /\ Ends(p, f, e)
  BY <1>1, <1>2, <1>4 DEF InOrder, filled, Ahead
<1>7. tailIndex[p] = Key(e)
  <2>1. tailIndex[p] = At(e - 1, BLOCK_SIZE) /\ e - 1 + 1 = e
    BY <1>6 DEF Ends
  <2> QED BY <2>1 DEF At
<1>8. /\ c \in Nat \ {0} /\ N \in 0 .. c - 1 /\ LastSlot(p) \in 0 .. c - 1
      /\ N = IF LastSlot(p) = c - 1 THEN 0 ELSE LastSlot(p) + 1
      /\ RingSlots(blockIndex(p)) = 0 .. c - 1
  BY <1>4, RingFacts
<1>9. Age(p, N) = c - 1
  BY <1>4, <1>8, RingFacts
<1>10. blockIndex(p)' = blockIndex(p) /\ capacity(p)' = c
  BY <1>1 DEF blockIndex, capacity
<1>11. LastSlot(p)' = N
  BY <1>2, <1>3, <1>10 DEF LastSlot, Pending
<1>12. e + 1 - f <= c
  <2>1. ~ Live(EntryAt(p, N))
    BY <1>4 DEF EntryAt
  <2>2. ~ Age(p, N) < e - f
    BY <1>4, <1>6, <1>8, <2>1 DEF Ring
  <2> QED BY <1>8, <1>9, <2>2
<1>13. ASSUME NEW s \in 0 .. c - 1
       PROVE  /\ Age(p, s)' = IF s = N THEN 0 ELSE Age(p, s) + 1
              /\ EntryAt(p, s)' = entries'[p][blockIndex(p).index[s]]
              /\ s # N => EntryAt(p, s)' = EntryAt(p, s)
  <2>1. Age(p, s)' = Back(c, N, s) /\ Age(p, s) = Back(c, LastSlot(p), s)
    BY <1>10, <1>11 DEF Age
  <2>2. Back(c, N, s) = IF s = N THEN 0 ELSE Back(c, LastSlot(p), s) + 1
    <3> HIDE DEF c, N
    <3> QED BY <1>8 DEF Back
  <2>3. EntryAt(p, s)' = entries'[p][blockIndex(p).index[s]]
    BY <1>10 DEF EntryAt
  <2>4. s # N => blockIndex(p).index[s] \in DOMAIN entries[p] \ {n}
    BY <1>4, <1>8, RingFacts
  <2> QED BY <1>5, <2>1, <2>2, <2>3, <2>4 DEF OneEntry, EntryAt
<1>14. ASSUME NEW s \in 0 .. c - 1
       PROVE  IF s = N
              THEN Age(p, s)' = 0 /\ EntryAt(p, s)'.value = b /\ EntryAt(p, s)'.key = Key(e)
              ELSE Age(p, s)' = Age(p, s) + 1 /\ EntryAt(p, s)' = EntryAt(p, s)
  BY <1>5, <1>7, <1>13
<1>15. EntryAt(p, N).key = Key(e) /\ ~ Live(EntryAt(p, N))
  BY <1>4, <1>7 DEF EntryAt
<1> QED BY <1>1, <1>2, <1>4, <1>5, <1>6, <1>7, <1>8, <1>10, <1>11, <1>12, <1>14, <1>15

\* A block nobody uses is in no entry, and of no use to the consumer.
LEMMA UnusedBlock ==
  ASSUME IInv, NEW b \in Unused
  PROVE  b \in Blocks /\ \A p \in Producers : \A n \in DOMAIN entries[p] : entries[p][n].value # b
BY DEF IInv, TypeInv, BlocksInv, InEntry, Unused

LEMMA InstalledProducer ==
  ASSUME IInv, NEW p \in Producers, NEW b \in Blocks, Installed(p, b)
  PROVE  ProducerInv(p)'
<1> DEFINE c == capacity(p)
           N == NextSlot(p)
           n == blockIndex(p).index[N]
<1>1. PICK f \in Int, e \in Int : InOrder(p, f, e)
  BY DEF IInv, ProducerInv
<1>2. /\ TypeInv /\ Headers(p) /\ BlocksInv /\ FromInv
      /\ Ring(p, f, e) /\ Holding(p, f, e) /\ Looking(p, f) /\ Ends(p, f, e)
  BY <1>1 DEF InOrder, IInv, ProducerInv
<1>3. /\ enq[p] \in {"block", "malloc"} /\ b \in Unused
      /\ elementsCompletelyDequeued' = [elementsCompletelyDequeued EXCEPT ![b] = 0]
      /\ tailBlock' = [tailBlock EXCEPT ![p] = b]
      /\ UNCHANGED <<tailIndex, headIndex, headers, contents, deq, from, index,
                     localBlockIndex, tail, entry, block, element>>
  BY DEF Installed, Install, consumer, locals
<1>4. /\ enq'[p] = "store" /\ headers[p] # << >> /\ headers' = headers
      /\ n \in DOMAIN entries[p] /\ OneEntry(p, n)
      /\ EntryAt(p, N).key = Key(e) /\ ~ Live(EntryAt(p, N))
      /\ LastSlot(p)' = N /\ capacity(p)' = c
      /\ N \in 0 .. c - 1 /\ e + 1 - f <= c
      /\ filled(p) = BLOCK_SIZE /\ filled(p)' = 0 /\ tailIndex[p] = Key(e)
      /\ tailIndex[p] % BLOCK_SIZE = 0
      /\ RingSlots(blockIndex(p)) = 0 .. c - 1
  BY <1>1, InstalledRing
<1>5. \A s \in 0 .. c - 1 :
        IF s = N
        THEN Age(p, s)' = 0 /\ EntryAt(p, s)'.value = b /\ EntryAt(p, s)'.key = Key(e)
        ELSE Age(p, s)' = Age(p, s) + 1 /\ EntryAt(p, s)' = EntryAt(p, s)
  BY <1>1, InstalledRing
<1>6. \A s \in 0 .. c - 1 : Age(p, s) \in 0 .. c - 1
  BY <1>2, <1>4, RingFacts
<1>7. b \in Blocks /\ \A m \in DOMAIN entries[p] : entries[p][m].value # b
  BY <1>3, UnusedBlock
<1>8. /\ elementsCompletelyDequeued'[b] = 0 /\ tailBlock'[p] = b
      /\ \A x \in Blocks \ {b} : elementsCompletelyDequeued'[x] = elementsCompletelyDequeued[x]
  BY <1>2, <1>3, <1>7 DEF TypeInv
<1>9. taken(p)' = taken(p) /\ claimed(p)' = claimed(p)
  <2>1. taken(p)' = taken(p)
    BY <1>3 DEF taken
  <2> QED BY <1>3, <2>1 DEF claimed
<1>10. f <= e /\ (f = e => taken(p) = 0)
  <2>1. f = e => from # p
    BY <1>2 DEF Ends
  <2>2. from # p => claimed(p) = taken(p)
    BY DEF claimed
  <2> QED BY <1>2, <2>1, <2>2 DEF Ends
<1>11. blockIndex(p)' = blockIndex(p)
  BY <1>4 DEF blockIndex
<1> HIDE DEF c, N, n
<1>12. PICK g \in Int : g = e + 1
  OBVIOUS
<1>13. Ends(p, f, e + 1)'
  <2>1. tailIndex'[p] = At(e + 1 - 1, 0)
    <3>1. e + 1 - 1 = e /\ 0 \in 0 .. BLOCK_SIZE
      BY Sizes
    <3> QED BY <1>3, <1>4, <3>1, AtWord
  <2>2. Near(p, f, e + 1)' <=> Near(p, f, e + 1)
    BY <1>9 DEF Near
  <2>3. Near(p, f, e + 1)
    BY <1>2, <1>3 DEF Ends, Opening
  <2>4. enq'[p] \notin Opening
    BY <1>4 DEF Opening
  <2>5. /\ f <= e + 1 /\ f # e + 1 /\ (f = e => claimed(p) = 0)
        /\ (f = e + 1 - 1 <=> f = e)
    BY <1>2, <1>10 DEF Ends
  <2>6. /\ headIndex'[p] = At(f, claimed(p)) /\ (from = p => f < e + 1)
        /\ (from = p /\ deq # "clear" => index = At(f, taken(p)))
    BY <1>2, <1>3 DEF Ends
  <2>7. 0 <= 0
    OBVIOUS
  <2> QED BY <1>3, <1>4, <1>9, <2>1, <2>2, <2>3, <2>4, <2>5, <2>6, <2>7 DEF Ends
<1>14. Ring(p, f, g)'
  <2>1. ASSUME NEW s \in 0 .. c - 1
        PROVE  IF Age(p, s)' < g - f
               THEN Live(EntryAt(p, s)') /\ EntryAt(p, s)'.key = Key(g - 1 - Age(p, s)')
               ELSE ~ Live(EntryAt(p, s)') /\ Free(EntryAt(p, s)')
    <3>1. CASE s = N
      <4>1. /\ Age(p, s)' = 0 /\ EntryAt(p, s)'.value = b /\ EntryAt(p, s)'.key = Key(e)
            /\ g - 1 - 0 = e /\ 0 < g - f
        BY <1>12, <1>5, <1>10, <3>1
      <4> QED BY <1>7, <4>1 DEF Live
    <3>2. CASE s # N
      <4>1. Age(p, s)' = Age(p, s) + 1 /\ EntryAt(p, s)' = EntryAt(p, s) /\ Age(p, s) \in Int
        BY <1>5, <1>6, <3>2
      <4>2. g - 1 - Age(p, s)' = e - 1 - Age(p, s) /\ (Age(p, s)' < g - f <=> Age(p, s) < e - f)
        BY <1>12, <4>1
      <4>3. IF Age(p, s) < e - f
            THEN Live(EntryAt(p, s)) /\ EntryAt(p, s).key = Key(e - 1 - Age(p, s))
            ELSE ~ Live(EntryAt(p, s)) /\ Free(EntryAt(p, s))
        BY <1>2, <1>4, <3>2 DEF Ring, N
      <4> QED BY <4>1, <4>2, <4>3
    <3> QED BY <3>1, <3>2
  <2>2. enq'[p] \notin Keyed
    BY <1>4 DEF Keyed
  <2>3. RingSlots(blockIndex(p))' = 0 .. c - 1
    BY <1>4, <1>11
  <2>4. g - f <= c
    BY <1>12, <1>4
  <2> QED BY <1>4, <2>1, <2>2, <2>3, <2>4 DEF Ring, Live, Free
<1>15. Holding(p, f, g)'
  <2>1. ASSUME NEW s \in 0 .. c - 1, Age(p, s)' < g - f
        PROVE  Holds(p, f, g, g - 1 - Age(p, s), EntryAt(p, s).value)'
    <3> DEFINE k == g - 1 - Age(p, s)
               x == EntryAt(p, s).value
    <3>1. CASE s = N
      <4>1. k' = e /\ x' = b
        BY <1>12, <1>5, <3>1
      <4> HIDE DEF k, x
      <4>2. (e = f => taken(p) = 0) /\ (\A r \in Slots : ~ r < 0) /\ e = g - 1
        BY <1>12, <1>10, Sizes DEF Slots
      <4>3. (Holds(p, f, g, k, x))'
        BY <1>4, <1>8, <1>9, <4>1, <4>2 DEF Holds
      <4> QED BY <4>3 DEF k, x
    <3>2. CASE s # N
      <4> DEFINE l == e - 1 - Age(p, s)
                 a == EntryAt(p, s).value
      <4>1. Age(p, s)' = Age(p, s) + 1 /\ EntryAt(p, s)' = EntryAt(p, s) /\ Age(p, s) \in Nat
        BY <1>5, <1>6, <3>2
      <4>2. k' = l /\ x' = a /\ l \in Int /\ l <= e - 1 /\ Age(p, s) < e - f
        BY <1>12, <2>1, <4>1
      <4>3. Holds(p, f, e, l, a) /\ Live(EntryAt(p, s))
        BY <1>2, <1>4, <4>2 DEF Holding, Ring
      <4>4. a \in Blocks \ {b}
        <5>1. blockIndex(p).index[s] \in DOMAIN entries[p]
          BY <1>2, <1>4, RingFacts DEF c
        <5> QED BY <1>7, <4>3, <5>1 DEF Live, EntryAt
      <4> HIDE DEF k, x, l, a
      <4>5. /\ l # g - 1 /\ elementsCompletelyDequeued'[a] = elementsCompletelyDequeued[a]
            /\ \A r \in Slots : r < BLOCK_SIZE
        BY <1>12, <1>8, <4>2, <4>4, Sizes DEF Slots
      <4>6. \A r \in Slots : (l = f => r >= taken(p)) => contents[a][r] = <<p, Key(l) + r>>
        BY <1>4, <4>3, <4>5 DEF Holds
      <4>7. elementsCompletelyDequeued[a] = IF l = f THEN taken(p) ELSE 0
        BY <4>3 DEF Holds
      <4>8. (Holds(p, f, g, k, x))'
        BY <1>3, <1>9, <4>2, <4>5, <4>6, <4>7 DEF Holds
      <4> QED BY <4>8 DEF k, x
    <3> QED BY <3>1, <3>2
  <2>2. EntryAt(p, LastSlot(p))'.value = b
    BY <1>4, <1>5 DEF EntryAt
  <2>3. RingSlots(blockIndex(p))' = 0 .. c - 1
    BY <1>4, <1>11
  <2> QED BY <1>4, <1>8, <2>1, <2>2, <2>3 DEF Holding
<1>16. Looking(p, f)'
  <2> SUFFICES ASSUME from = p PROVE Looking(p, f)'
    BY <1>3 DEF Looking
  <2>1. /\ ~ Live(entries[p][n]) /\ Live(entries'[p][n]) /\ entries'[p][n].key = entries[p][n].key
    <3>1. entries'[p][n].value = b /\ entries'[p][n].key = Key(e)
      BY <1>4, <1>5, <1>11 DEF EntryAt, n, N
    <3> QED BY <1>4, <1>7, <3>1 DEF EntryAt, Live, n, N
  <2>2. ASSUME NEW L \in DOMAIN headers[p], NEW t \in RingSlots(headers[p][L]), Points(p, f, L, t)
        PROVE  Points(p, f, L, t)'
    <3> DEFINE h == headers[p][L]
    <3>1. PICK d \in RingSlots(h) : Leads(p, f, L, t, d)
      BY <2>2 DEF Points
    <3> DEFINE i == h.index[t]
               j == h.index[Back(h.capacity, t, d)]
    <3>2. i \in DOMAIN entries[p] /\ j \in DOMAIN entries[p]
      <4>1. HeaderOK(h, Len(entries[p])) /\ h \in Header /\ DOMAIN entries[p] = 1 .. Len(entries[p])
        BY <1>2, SeqTypes DEF Headers
      <4>2. Back(h.capacity, t, d) \in RingSlots(h)
        BY <3>1, <4>1, HeaderType, BackFacts DEF RingSlots
      <4> QED BY <4>1, <4>2 DEF HeaderOK
    <3>3. /\ entries[p][i].key = Key(f + d) /\ entries[p][j].key = Key(f) /\ Live(entries[p][j])
          /\ Live(entries[p][i]) \/ (L = Len(headers[p]) /\ t = N)
      BY <3>1 DEF Leads, N
    <3>4. i = n \/ Live(entries[p][i])
      BY <3>3 DEF n, blockIndex
    <3> HIDE DEF i, j
    <3>5. entries'[p][j] = entries[p][j]
      BY <1>4, <2>1, <3>2, <3>3 DEF OneEntry
    <3>6. entries'[p][i].key = Key(f + d) /\ Live(entries'[p][i])
      <4>1. CASE i = n
        BY <2>1, <3>3, <4>1
      <4>2. CASE i # n
        BY <1>4, <3>2, <3>3, <3>4, <4>2 DEF OneEntry
      <4> QED BY <4>1, <4>2
    <3>7. Leads(p, f, L, t, d)'
      BY <1>4, <3>3, <3>5, <3>6 DEF Leads, Live, i, j
    <3> QED BY <1>4, <3>7 DEF Points
  <2>3. deq \in {"tail", "entry"} => localBlockIndex \in DOMAIN headers[p]
    BY <1>2 DEF Looking
  <2>4. ASSUME deq = "tail"
        PROVE  \/ localBlockIndex = Len(headers[p])
               \/ Points(p, f, localBlockIndex, headers[p][localBlockIndex].tail)'
    <3>1. PICK L \in DOMAIN headers[p] : L = localBlockIndex
      BY <2>3, <2>4
    <3>2. PICK t \in RingSlots(headers[p][L]) : t = headers[p][localBlockIndex].tail
      BY <1>2, <3>1 DEF Headers, HeaderOK
    <3>3. L = Len(headers[p]) \/ Points(p, f, L, t)
      BY <1>2, <2>4, <3>1, <3>2 DEF Looking
    <3>4. L = Len(headers[p]) \/ (Points(p, f, L, t))'
      BY <2>2, <3>3
    <3> QED BY <1>3, <3>1, <3>2, <3>4
  <2>5. ASSUME deq = "entry"
        PROVE  tail \in RingSlots(headers[p][localBlockIndex]) /\ Points(p, f, localBlockIndex, tail)'
    <3>1. PICK L \in DOMAIN headers[p] : L = localBlockIndex
      BY <2>3, <2>5
    <3>2. PICK t \in RingSlots(headers[p][L]) : t = tail
      BY <1>2, <2>5, <3>1 DEF Looking
    <3>3. Points(p, f, L, t)
      BY <1>2, <2>5, <3>1, <3>2 DEF Looking
    <3> QED BY <1>3, <2>2, <3>1, <3>2, <3>3
  <2>6. ASSUME deq \in {"element", "clear"}
        PROVE  /\ entry \in DOMAIN entries'[p] /\ entries'[p][entry].key = Key(f)
               /\ Live(entries'[p][entry])
               /\ deq = "clear" => entries'[p][entry].value = block
    <3>1. /\ entry \in DOMAIN entries[p] /\ entries[p][entry].key = Key(f)
          /\ Live(entries[p][entry])
          /\ deq = "clear" => entries[p][entry].value = block
      BY <1>2, <2>6 DEF Looking
    <3> QED BY <1>4, <2>1, <3>1 DEF OneEntry
  <2>7. deq' = "tail" =>
          \/ localBlockIndex' = Len(headers'[p])
          \/ Points(p, f, localBlockIndex, headers[p][localBlockIndex].tail)'
    BY <1>3, <2>4
  <2>8. deq' = "entry" =>
          /\ tail' \in RingSlots(headers[p][localBlockIndex])'
          /\ Points(p, f, localBlockIndex, tail)'
    BY <1>3, <2>5
  <2>9. /\ deq' \in {"element", "clear"} =>
             /\ entry' \in DOMAIN entries'[p]
             /\ entries'[p][entry'].key = Key(f) /\ Live(entries[p][entry])'
        /\ deq' = "clear" => entries'[p][entry'].value = block'
    BY <1>3, <2>6 DEF Live
  <2>10. deq' \in {"tail", "entry"} => localBlockIndex' \in DOMAIN headers'[p]
    BY <1>3, <2>3
  <2> QED BY <2>7, <2>8, <2>9, <2>10 DEF Looking
<1>17. Headers(p)'
  BY <1>2, <1>4, <1>11 DEF Headers, OneEntry, capacity
<1>18. Bare(p)'
  BY <1>4 DEF Bare
<1>19. Ends(p, f, g)'
  BY <1>12, <1>13
<1> QED BY <1>14, <1>15, <1>16, <1>17, <1>18, <1>19 DEF ProducerInv, InOrder

LEMMA InstalledStep ==
  ASSUME IInv, NEW p \in Producers, NEW b, Installed(p, b)
  PROVE  IInv'
<1> DEFINE n == blockIndex(p).index[NextSlot(p)]
<1>1. /\ enq[p] \in {"block", "malloc"} /\ b \in Unused /\ Goto(p, "store")
      /\ elementsCompletelyDequeued' = [elementsCompletelyDequeued EXCEPT ![b] = 0]
      /\ tailBlock' = [tailBlock EXCEPT ![p] = b]
      /\ UNCHANGED <<tailIndex, headIndex, headers, contents, deq, from, index,
                     localBlockIndex, tail, entry, block, element>>
      /\ pool' \subseteq pool /\ freeList' \subseteq freeList /\ heap' \subseteq heap
      /\ Unused' = Unused \ {b}
  BY DEF Installed, Install, consumer, locals
<1>2. b \in Blocks /\ \A q \in Producers : \A m \in DOMAIN entries[q] : entries[q][m].value # b
  BY <1>1, UnusedBlock
<1>3. PICK f \in Int, e \in Int : InOrder(p, f, e)
  BY DEF IInv, ProducerInv
<1>4. /\ \A q \in Producers \ {p} : enq'[q] = enq[q]
      /\ n \in DOMAIN entries[p] /\ OneEntry(p, n) /\ ~ Live(entries[p][n])
      /\ entries'[p][n].value = b
  <2>1. /\ \A q \in Producers \ {p} : enq'[q] = enq[q]
        /\ n \in DOMAIN entries[p] /\ OneEntry(p, n) /\ ~ Live(EntryAt(p, NextSlot(p)))
        /\ NextSlot(p) \in 0 .. capacity(p) - 1 /\ headers' = headers
    BY <1>2, <1>3, InstalledRing
  <2>2. \A s \in 0 .. capacity(p) - 1 : s = NextSlot(p) => EntryAt(p, s)'.value = b
    BY <1>2, <1>3, InstalledRing
  <2>3. \A s : EntryAt(p, s)' = entries'[p][blockIndex(p).index[s]]
    BY <2>1 DEF EntryAt, blockIndex
  <2> QED BY <2>1, <2>2, <2>3 DEF EntryAt
<1>5. /\ \A q \in Producers : DOMAIN entries'[q] = DOMAIN entries[q]
      /\ \A q \in Producers : \A m \in DOMAIN entries[q] :
           q # p \/ m # n => entries'[q][m] = entries[q][m]
  BY <1>4 DEF OneEntry
<1>6. TypeInv'
  <2>1. 0 \in 0 .. BLOCK_SIZE
    BY Sizes
  <2>2. TypeInv /\ entries' \in [Producers -> Seq(Entry)]
    BY <1>4 DEF IInv, OneEntry
  <2>3. elementsCompletelyDequeued' \in [Blocks -> 0 .. BLOCK_SIZE]
        /\ tailBlock' \in [Producers -> Blocks \cup {NoBlock}]
    BY <1>1, <1>2, <2>1, <2>2 DEF TypeInv
  <2>4. enq' \in [Producers -> {"idle", "entry", "tail", "block", "malloc", "store"}]
    BY <1>1, <2>2 DEF TypeInv, Goto
  <2> QED BY <1>1, <2>2, <2>3, <2>4 DEF TypeInv
<1>7. ASSUME NEW q \in Producers \ {p}
      PROVE  /\ SameRings(q) /\ SameBlocks(q)
             /\ tailIndex'[q] = tailIndex[q] /\ tailBlock'[q] = tailBlock[q] /\ enq'[q] = enq[q]
  <2>1. SameRings(q)
    BY <1>1, <1>4 DEF SameRings, OneEntry
  <2>2. SameBlocks(q)
    BY <1>1, <1>2 DEF SameBlocks, Live, IInv, TypeInv
  <2> QED BY <1>1, <1>4, <2>1, <2>2 DEF IInv, TypeInv
<1>8. \A q \in Producers : ProducerInv(q)'
  <2>1. ProducerInv(p)'
    BY <1>2, InstalledProducer
  <2> QED BY <1>1, <1>7, <2>1, OtherProducers DEF consumer, locals
<1>9. BlocksInv'
  <2>1. BlocksInv
    BY DEF IInv
  <2>2. /\ pool' \cap freeList' = {} /\ pool' \cap heap' = {} /\ heap' \cap freeList' = {}
    BY <1>1, <2>1 DEF BlocksInv
  <2>3. ASSUME NEW x \in Producers, NEW y \in Producers,
               NEW i \in DOMAIN entries'[x], NEW j \in DOMAIN entries'[y],
               Live(entries'[x][i]), entries'[x][i].value = entries'[y][j].value
        PROVE  x = y /\ i = j
    <3>1. CASE x = p /\ i = n
      BY <1>2, <1>4, <1>5, <2>3, <3>1
    <3>2. CASE y = p /\ j = n
      BY <1>2, <1>4, <1>5, <2>3, <3>2
    <3>3. CASE ~ (x = p /\ i = n) /\ ~ (y = p /\ j = n)
      BY <1>5, <2>1, <2>3, <3>3 DEF BlocksInv
    <3> QED BY <3>1, <3>2, <3>3
  <2>4. ASSUME NEW x, x # b, InEntry(x)' PROVE InEntry(x)
    <3>1. PICK q \in Producers : \E m \in DOMAIN entries'[q] : entries'[q][m].value = x
      BY <2>4 DEF InEntry
    <3>2. PICK m \in DOMAIN entries'[q] : entries'[q][m].value = x
      BY <3>1
    <3> QED BY <1>4, <1>5, <2>4, <3>2 DEF InEntry
  <2>5. ASSUME NEW x \in Blocks, InEntry(x) PROVE InEntry(x)'
    <3>1. PICK q \in Producers : \E m \in DOMAIN entries[q] : entries[q][m].value = x
      BY <2>5 DEF InEntry
    <3>2. PICK m \in DOMAIN entries[q] : entries[q][m].value = x
      BY <3>1
    <3>3. m \in DOMAIN entries'[q] /\ entries'[q][m].value = x
      BY <1>4, <1>5, <3>2 DEF Live
    <3> QED BY <3>3 DEF InEntry
  <2>6. InEntry(b)'
    BY <1>4, <1>5 DEF InEntry
  <2>7. \A x \in Unused' : ~ InEntry(x)'
    BY <1>1, <2>1, <2>4 DEF BlocksInv
  <2>8. deq' = "add" => block' \in Blocks \ Unused' /\ ~ InEntry(block)'
    <3>1. deq = "add" => block \in Blocks \ Unused /\ ~ InEntry(block) /\ block # b
      BY <1>1, <2>1 DEF BlocksInv
    <3>2. ASSUME InEntry(block)', deq = "add" PROVE FALSE
      <4>1. PICK q \in Producers : \E m \in DOMAIN entries'[q] : entries'[q][m].value = block
        BY <1>1, <3>2 DEF InEntry
      <4>2. PICK m \in DOMAIN entries'[q] : entries'[q][m].value = block
        BY <4>1
      <4>3. entries[q][m].value = block /\ m \in DOMAIN entries[q]
        BY <1>4, <1>5, <3>1, <3>2, <4>2
      <4> QED BY <3>1, <3>2, <4>3 DEF InEntry
    <3> QED BY <1>1, <3>1, <3>2
  <2>9. \A x \in Blocks : x \in Unused' \/ (deq' = "add" /\ x = block') \/ InEntry(x)'
    BY <1>1, <2>1, <2>5, <2>6 DEF BlocksInv
  <2> QED BY <2>2, <2>3, <2>7, <2>8, <2>9 DEF BlocksInv, Live
<1>10. FromInv'
  BY <1>1 DEF FromInv, IInv
<1> QED BY <1>6, <1>8, <1>9, <1>10 DEF IInv

LEMMA RequisitionBlockStep ==
  ASSUME IInv, NEW p \in Producers, RequisitionBlock(p)
  PROVE  IInv'
<1>1. PICK b \in Blocks :
        /\ \/ b \in pool /\ pool' = pool \ {b} /\ UNCHANGED freeList
           \/ pool = {} /\ b \in freeList /\ freeList' = freeList \ {b} /\ UNCHANGED pool
        /\ Install(p, b)
  BY DEF RequisitionBlock
<1>2. /\ enq[p] = "block" /\ Goto(p, "store")
      /\ UNCHANGED <<tailIndex, headIndex, headers, contents, heap, consumer>>
  BY DEF RequisitionBlock
<1>3. /\ b \in Unused /\ Unused' = Unused \ {b}
      /\ pool' \subseteq pool /\ freeList' \subseteq freeList /\ heap' \subseteq heap
  BY <1>1, <1>2 DEF Unused, IInv, BlocksInv
<1>4. Installed(p, b)
  BY <1>1, <1>2, <1>3 DEF Installed
<1> QED BY <1>4, InstalledStep

LEMMA AllocateStep ==
  ASSUME IInv, NEW p \in Producers, Allocate(p)
  PROVE  IInv'
<1>1. PICK b \in heap : heap' = heap \ {b} /\ Install(p, b)
  BY DEF Allocate
<1>2. /\ enq[p] = "malloc" /\ Goto(p, "store")
      /\ UNCHANGED <<tailIndex, headIndex, headers, contents, pool, freeList, consumer>>
  BY DEF Allocate
<1>3. /\ b \in Unused /\ Unused' = Unused \ {b}
      /\ pool' \subseteq pool /\ freeList' \subseteq freeList /\ heap' \subseteq heap
  BY <1>1, <1>2 DEF Unused, IInv, BlocksInv
<1>4. Installed(p, b)
  BY <1>1, <1>2, <1>3 DEF Installed
<1> QED BY <1>4, InstalledStep

-----------------------------------------------------------------------------
(* A message is stored.                                                    *)

\* There is room in the last block.
LEMMA AtStore ==
  ASSUME IInv, NEW p \in Producers, Store(p),
         NEW f \in Int, NEW e \in Int, InOrder(p, f, e)
  PROVE  /\ headers[p] # << >> /\ ~ Ahead(p) /\ f < e
         /\ filled(p) \in 0 .. BLOCK_SIZE - 1 /\ filled(p)' = filled(p) + 1
         /\ filled(p) = tailIndex[p] % BLOCK_SIZE
         /\ tailIndex[p] = Key(e - 1) + filled(p) /\ tailIndex'[p] = At(e - 1, filled(p) + 1)
         /\ enq'[p] = "idle" /\ (\A q \in Producers \ {p} : enq'[q] = enq[q])
         /\ LastSlot(p) \in RingSlots(blockIndex(p)) /\ Age(p, LastSlot(p)) = 0
         /\ Live(EntryAt(p, LastSlot(p))) /\ tailBlock[p] = EntryAt(p, LastSlot(p)).value
         /\ tailBlock[p] \in Blocks
<1> DEFINE r == tailIndex[p] % BLOCK_SIZE
<1>1. /\ enq[p] = "store" /\ Goto(p, "idle")
      /\ tailIndex' = [tailIndex EXCEPT ![p] = Plus(@, 1)]
  BY DEF Store
<1>2. TypeInv /\ Headers(p) /\ Bare(p) /\ Ring(p, f, e) /\ Holding(p, f, e) /\ Ends(p, f, e)
  BY DEF IInv, ProducerInv, InOrder
<1>3. enq'[p] = "idle" /\ \A q \in Producers \ {p} : enq'[q] = enq[q]
  BY <1>1, <1>2, EnqType
<1>4. ~ Ahead(p) /\ filled(p) = r /\ headers[p] # << >>
  BY <1>1, <1>2 DEF Ahead, filled, Bare
<1>5. r \in 0 .. BLOCK_SIZE - 1 /\ BLOCK_SIZE \in Nat
  <2>1. tailIndex[p] \in Nat /\ BLOCK_SIZE \in Nat \ {0}
    BY <1>2, Sizes DEF TypeInv, Words
  <2>2. PICK i \in Int : i = tailIndex[p]
    BY <2>1
  <2>3. i % BLOCK_SIZE \in 0 .. BLOCK_SIZE - 1
    BY <2>1, DivMod
  <2> QED BY <2>1, <2>2, <2>3
<1>6. f < e
  BY <1>2, <1>4, <1>5 DEF Ends
<1>7. tailIndex[p] = At(e - 1, r) /\ tailIndex'[p] = Plus(tailIndex[p], 1)
  BY <1>1, <1>2, <1>4 DEF Ends, TypeInv
<1>8. tailIndex[p] = Key(e - 1) + r
  BY <1>5, <1>7 DEF At
<1> HIDE DEF r
<1>9. tailIndex'[p] = At(e - 1, r + 1)
  BY <1>5, <1>7, AtNext
<1>10. filled(p)' = r + 1
  <2>1. tailIndex'[p] % BLOCK_SIZE = IF r + 1 = BLOCK_SIZE THEN 0 ELSE r + 1
    BY <1>5, <1>9, AtWord
  <2> QED BY <1>3, <1>5, <2>1 DEF filled, Ahead
<1>11. LastSlot(p) \in RingSlots(blockIndex(p)) /\ Age(p, LastSlot(p)) = 0
  BY <1>2, <1>4, RingFacts
<1>12. Live(EntryAt(p, LastSlot(p))) /\ tailBlock[p] = EntryAt(p, LastSlot(p)).value
  BY <1>2, <1>4, <1>6, <1>11 DEF Ring, Holding
<1>13. tailBlock[p] \in Blocks
  BY <1>12 DEF Live
<1> QED BY <1>3, <1>4, <1>5, <1>6, <1>8, <1>9, <1>10, <1>11, <1>12, <1>13 DEF r

LEMMA StoreStep ==
  ASSUME IInv, NEW p \in Producers, Store(p)
  PROVE  IInv'
<1> DEFINE B == BLOCK_SIZE
           r == filled(p)
           b == tailBlock[p]
<1>1. PICK f \in Int, e \in Int : InOrder(p, f, e)
  BY DEF IInv, ProducerInv
<1>2. /\ TypeInv /\ Headers(p) /\ BlocksInv /\ FromInv
      /\ Ring(p, f, e) /\ Holding(p, f, e) /\ Looking(p, f) /\ Ends(p, f, e)
  BY <1>1 DEF InOrder, IInv, ProducerInv
<1>3. /\ enq[p] = "store"
      /\ contents' = [contents EXCEPT ![b][tailIndex[p] % B] = <<p, tailIndex[p]>>]
      /\ tailIndex' = [tailIndex EXCEPT ![p] = Plus(@, 1)] /\ Goto(p, "idle")
      /\ UNCHANGED <<headIndex, tailBlock, headers, entries, elementsCompletelyDequeued,
                     pool, freeList, heap, deq, from, index, localBlockIndex, tail, entry,
                     block, element>>
  BY DEF Store, consumer, locals
<1>4. /\ headers[p] # << >> /\ ~ Ahead(p) /\ f < e
      /\ r \in 0 .. B - 1 /\ filled(p)' = r + 1 /\ r = tailIndex[p] % B
      /\ tailIndex[p] = Key(e - 1) + r /\ tailIndex'[p] = At(e - 1, r + 1)
      /\ enq'[p] = "idle" /\ \A q \in Producers \ {p} : enq'[q] = enq[q]
  BY <1>1, AtStore
<1>5. /\ LastSlot(p) \in RingSlots(blockIndex(p)) /\ Age(p, LastSlot(p)) = 0
      /\ Live(EntryAt(p, LastSlot(p))) /\ b = EntryAt(p, LastSlot(p)).value /\ b \in Blocks
  BY <1>1, AtStore
<1> HIDE DEF r, b
<1>6. /\ \A x \in Blocks \ {b} : contents'[x] = contents[x]
      /\ \A s \in Slots : contents'[b][s] = IF s = r THEN <<p, tailIndex[p]>> ELSE contents[b][s]
      /\ contents' \in [Blocks -> [Slots -> Messages \cup {NoMessage}]]
  <2>1. contents \in [Blocks -> [Slots -> Messages \cup {NoMessage}]]
    BY <1>2 DEF TypeInv
  <2>2. r \in Slots /\ <<p, tailIndex[p]>> \in Messages
    BY <1>2, <1>4 DEF Slots, TypeInv, Messages
  <2>3. contents' = [contents EXCEPT ![b][r] = <<p, tailIndex[p]>>]
    BY <1>3, <1>4
  <2> QED BY <1>5, <2>1, <2>2, <2>3
<1>7. taken(p)' = taken(p) /\ claimed(p)' = claimed(p)
  <2>1. taken(p)' = taken(p)
    BY <1>3 DEF taken
  <2> QED BY <1>3, <2>1 DEF claimed
<1>8. SameRings(p) /\ SameConsumer(p) /\ ~ Pending(p) /\ ~ Pending(p)'
      /\ enq[p] \notin Keyed /\ enq'[p] \notin Keyed
  BY <1>3, <1>4 DEF SameRings, SameConsumer, Pending, Keyed
<1>9. /\ blockIndex(p)' = blockIndex(p) /\ capacity(p)' = capacity(p)
      /\ LastSlot(p)' = LastSlot(p) /\ NextSlot(p)' = NextSlot(p)
      /\ \A s : Age(p, s)' = Age(p, s) /\ EntryAt(p, s)' = EntryAt(p, s)
  <2>1. blockIndex(p)' = blockIndex(p) /\ capacity(p)' = capacity(p)
    BY <1>3 DEF blockIndex, capacity
  <2>2. LastSlot(p)' = LastSlot(p) /\ NextSlot(p)' = NextSlot(p)
    BY <1>8, <2>1 DEF LastSlot, NextSlot, newTail
  <2> QED BY <1>3, <2>1, <2>2 DEF Age, EntryAt
<1>10. Ends(p, f, e)'
  <2>1. Near(p, f, e)' <=> Near(p, f, e)
    BY <1>7 DEF Near
  <2>2. /\ f <= e /\ f # e /\ headIndex'[p] = At(f, claimed(p)) /\ (from = p => f < e)
        /\ (from = p /\ deq # "clear" => index = At(f, taken(p))) /\ Near(p, f, e)
    BY <1>2, <1>3, <1>4 DEF Ends
  <2>3. f = e - 1 => claimed(p) <= r + 1
    <3>1. f = e - 1 => claimed(p) <= r
      BY <1>2 DEF Ends, r
    <3>2. claimed(p) \in Int /\ r \in Int
      BY <1>2, <1>4, Ranges
    <3> QED BY <3>1, <3>2
  <2>4. enq'[p] \notin Opening
    BY <1>4 DEF Opening
  <2> QED BY <1>3, <1>4, <1>7, <2>1, <2>2, <2>3, <2>4 DEF Ends
<1>11. Ring(p, f, e)'
  BY <1>2, <1>3, <1>8, <1>9 DEF Ring
<1>12. Holding(p, f, e)'
  <2>1. ASSUME NEW s \in RingSlots(blockIndex(p)), Age(p, s) < e - f
        PROVE  Holds(p, f, e, e - 1 - Age(p, s), EntryAt(p, s).value)'
    <3> DEFINE k == e - 1 - Age(p, s)
               x == EntryAt(p, s).value
    <3>1. k' = k /\ x' = x
      BY <1>9
    <3>2. Holds(p, f, e, k, x) /\ x \in Blocks
      BY <1>2, <1>4, <2>1 DEF Holding, Ring, Live
    <3>3. CASE s = LastSlot(p)
      <4>1. k = e - 1 /\ x = b
        BY <1>5, <3>3
      <4> HIDE DEF k, x
      <4>2. ASSUME NEW i \in Slots, k = f => i >= taken(p), i < r + 1
            PROVE  contents'[b][i] = <<p, Key(k) + i>>
        <5>1. CASE i = r
          BY <1>4, <1>6, <4>1, <5>1
        <5>2. CASE i # r
          <6>1. i < r
            BY <1>4, <4>2, <5>2 DEF Slots
          <6>2. contents[b][i] = <<p, Key(k) + i>>
            BY <3>2, <4>1, <4>2, <6>1 DEF Holds, r
          <6> QED BY <1>6, <5>2, <6>2
        <5> QED BY <5>1, <5>2
      <4>3. elementsCompletelyDequeued[x] = IF k = f THEN taken(p) ELSE 0
        BY <3>2 DEF Holds
      <4>4. (Holds(p, f, e, k, x))'
        BY <1>3, <1>4, <1>7, <3>1, <4>1, <4>2, <4>3 DEF Holds
      <4> QED BY <4>4 DEF k, x
    <3>4. CASE s # LastSlot(p)
      <4>1. /\ s \in 0 .. capacity(p) - 1 /\ LastSlot(p) \in 0 .. capacity(p) - 1
            /\ capacity(p) \in Nat
        BY <1>2, <1>4, RingFacts
      <4>2. Age(p, s) \in Nat \ {0}
        <5>1. Age(p, s) \in 0 .. capacity(p) - 1 /\ Age(p, s) # 0
          BY <1>2, <1>4, <3>4, <4>1, RingFacts
        <5> QED BY <5>1
      <4>3. k # e - 1
        BY <4>2
      <4>4. x # b
        <5>1. /\ blockIndex(p).index[s] \in DOMAIN entries[p]
              /\ blockIndex(p).index[LastSlot(p)] \in DOMAIN entries[p]
              /\ blockIndex(p).index[s] # blockIndex(p).index[LastSlot(p)]
          BY <1>2, <1>4, <3>4, <4>1, RingFacts
        <5> QED BY <1>2, <1>5, <5>1 DEF BlocksInv, EntryAt
      <4> HIDE DEF k, x
      <4>5. contents'[x] = contents[x]
        BY <1>6, <3>2, <4>4
      <4>6. elementsCompletelyDequeued[x] = IF k = f THEN taken(p) ELSE 0
        BY <3>2 DEF Holds
      <4>7. \A i \in Slots : (k = f => i >= taken(p)) => contents[x][i] = <<p, Key(k) + i>>
        BY <3>2, <4>3 DEF Holds
      <4>8. (Holds(p, f, e, k, x))'
        BY <1>3, <1>7, <3>1, <4>3, <4>5, <4>6, <4>7 DEF Holds
      <4> QED BY <4>8 DEF k, x
    <3> QED BY <3>3, <3>4
  <2>2. tailBlock'[p] = EntryAt(p, LastSlot(p))'.value
    BY <1>3, <1>5, <1>9 DEF b
  <2> QED BY <1>9, <2>1, <2>2 DEF Holding
<1>13. Looking(p, f)'
  BY <1>2, <1>4, <1>8, FrameLooking
<1>14. Headers(p)'
  BY <1>2, <1>3, <1>9 DEF Headers
<1>15. ProducerInv(p)'
  BY <1>3, <1>4, <1>10, <1>11, <1>12, <1>13, <1>14 DEF ProducerInv, InOrder, Bare
<1>16. ASSUME NEW q \in Producers \ {p}
       PROVE  /\ SameRings(q) /\ SameBlocks(q)
              /\ tailIndex'[q] = tailIndex[q] /\ tailBlock'[q] = tailBlock[q] /\ enq'[q] = enq[q]
  <2>1. SameRings(q) /\ tailIndex'[q] = tailIndex[q]
    BY <1>2, <1>3 DEF SameRings, TypeInv
  <2>2. ASSUME NEW n \in DOMAIN entries[q], Live(entries[q][n])
        PROVE  contents'[entries[q][n].value] = contents[entries[q][n].value]
    <3>1. blockIndex(p).index[LastSlot(p)] \in DOMAIN entries[p]
      BY <1>2, <1>4, <1>5, RingFacts
    <3>2. entries[q][n].value # b
      BY <1>2, <1>5, <2>2, <3>1 DEF BlocksInv, EntryAt
    <3> QED BY <1>6, <2>2, <3>2 DEF Live
  <2>3. SameBlocks(q)
    BY <1>3, <2>2 DEF SameBlocks
  <2> QED BY <1>3, <1>4, <2>1, <2>3
<1>17. \A q \in Producers : ProducerInv(q)'
  BY <1>3, <1>15, <1>16, OtherProducers DEF consumer, locals
<1>18. TypeInv'
  <2>1. tailIndex' \in [Producers -> Words]
    <3>1. Plus(tailIndex[p], 1) \in Words
      <4>1. 1 \in Words
        BY Sizes, SizesAssumption DEF Words
      <4> QED BY <1>2, <4>1, WordArithmetic DEF TypeInv
    <3> QED BY <1>2, <1>3, <3>1 DEF TypeInv
  <2>2. enq' \in [Producers -> {"idle", "entry", "tail", "block", "malloc", "store"}]
    BY <1>2, <1>3 DEF TypeInv, Goto
  <2> QED BY <1>2, <1>3, <1>6, <2>1, <2>2 DEF TypeInv
<1>19. BlocksInv'
  BY <1>2, <1>3, FrameBlocks
<1>20. FromInv'
  BY <1>2, <1>3 DEF FromInv
<1> QED BY <1>17, <1>18, <1>19, <1>20 DEF IInv

-----------------------------------------------------------------------------
(* The steps of the consumer.                                              *)

\* The consumer looks up the block of its index, and changes nothing.
LEMMA LookStep ==
  ASSUME IInv, NEW p \in Producers, from = p,
         UNCHANGED <<tailIndex, headIndex, tailBlock, headers, entries, memory, enq,
                     from, index, block, element>>,
         deq \in {"index", "tail", "entry"}, deq' \in {"tail", "entry", "element"},
         \A f, e \in Int : InOrder(p, f, e) => Looking(p, f)'
  PROVE  IInv'
<1>1. PICK f \in Int, e \in Int : InOrder(p, f, e)
  BY DEF IInv, ProducerInv
<1>2. /\ TypeInv /\ Headers(p) /\ Bare(p) /\ BlocksInv /\ FromInv
      /\ Ring(p, f, e) /\ Holding(p, f, e) /\ Looking(p, f)' /\ Ends(p, f, e)
  BY <1>1 DEF InOrder, IInv, ProducerInv
<1>3. UNCHANGED <<contents, elementsCompletelyDequeued, pool, freeList, heap>>
  BY DEF memory
<1>4. \A q \in Producers : SameRings(q) /\ SameBlocks(q)
  BY <1>3 DEF SameRings, SameBlocks
<1>5. (Ahead(p)' <=> Ahead(p)) /\ (Pending(p)' <=> Pending(p))
  BY DEF Ahead, Pending
<1>6. Ends(p, f, e)' /\ taken(p)' = taken(p) /\ filled(p)' = filled(p)
  BY <1>2, <1>5, FrameEnds
<1>7. Headers(p)' /\ Ring(p, f, e)'
  BY <1>2, <1>4, <1>5, FrameRing
<1>8. Holding(p, f, e)'
  BY <1>2, <1>4, <1>5, <1>6, FrameHolding
<1>9. Bare(p)'
  BY <1>2 DEF Bare
<1>10. ASSUME NEW q \in Producers, q # p PROVE ProducerInv(q)'
  <2>1. SameConsumer(q)
    BY <1>10 DEF SameConsumer
  <2> QED BY <1>2, <1>4, <2>1, Others DEF IInv
<1>11. \A q \in Producers : ProducerInv(q)'
  BY <1>2, <1>6, <1>7, <1>8, <1>9, <1>10 DEF ProducerInv, InOrder
<1>12. TypeInv'
  BY <1>2, <1>3 DEF TypeInv
<1>13. BlocksInv'
  BY <1>2, <1>3, FrameBlocks
<1>14. FromInv'
  BY DEF FromInv
<1> QED BY <1>11, <1>12, <1>13, <1>14 DEF IInv

LEMMA LoadBlockIndexStep ==
  ASSUME IInv, LoadBlockIndex
  PROVE  IInv'
<1>1. /\ deq = "index" /\ localBlockIndex' = Len(headers[from]) /\ deq' = "tail"
      /\ UNCHANGED <<tailIndex, headIndex, tailBlock, headers, entries, memory, enq,
                     from, index, block, element>>
  BY DEF LoadBlockIndex, producerSide
<1>2. PICK p \in Producers : from = p
  BY <1>1 DEF IInv, FromInv
<1>3. Len(headers[p]) \in DOMAIN headers[p]
  BY <1>2, SeqTypes DEF IInv, ProducerInv, Bare
<1>4. \A f : Looking(p, f)'
  BY <1>1, <1>2, <1>3 DEF Looking
<1> QED BY <1>1, <1>2, <1>4, LookStep

LEMMA LoadTailStep ==
  ASSUME IInv, LoadTail
  PROVE  IInv'
<1>1. /\ deq = "tail" /\ tail' = headers[from][localBlockIndex].tail /\ deq' = "entry"
      /\ UNCHANGED <<tailIndex, headIndex, tailBlock, headers, entries, memory, enq,
                     from, index, localBlockIndex, block, element>>
  BY DEF LoadTail, producerSide
<1>2. PICK p \in Producers : from = p
  BY <1>1 DEF IInv, FromInv
<1>3. ASSUME NEW f \in Int, NEW e \in Int, InOrder(p, f, e) PROVE Looking(p, f)'
  <2>1. /\ TypeInv /\ Headers(p) /\ headers[p] # << >>
        /\ Ring(p, f, e) /\ Looking(p, f) /\ Ends(p, f, e) /\ f < e
    BY <1>2, <1>3 DEF InOrder, IInv, ProducerInv, Bare, Ends
  <2>2. PICK L \in DOMAIN headers[p] : L = localBlockIndex
    BY <1>1, <1>2, <2>1 DEF Looking
  <2>3. PICK t \in RingSlots(headers[p][L]) : t = headers[p][L].tail
    BY <2>1 DEF Headers, HeaderOK
  <2>4. Points(p, f, L, t)
    <3>1. CASE L = Len(headers[p])
      <4>1. Points(p, f, Len(headers[p]), blockIndex(p).tail)
        BY <2>1, RingPoints
      <4> QED BY <2>3, <3>1, <4>1 DEF blockIndex
    <3>2. CASE L # Len(headers[p])
      BY <1>1, <1>2, <2>1, <2>2, <2>3, <3>2 DEF Looking
    <3> QED BY <3>1, <3>2
  <2>5. (Points(p, f, L, t))'
    <3>1. /\ NextSlot(p)' = NextSlot(p) /\ (Ahead(p)' <=> Ahead(p))
      BY <1>1 DEF NextSlot, Pending, newTail, blockIndex, Ahead
    <3> QED BY <1>1, <2>4, <3>1 DEF Points, Leads
  <2>6. tail' = t /\ localBlockIndex' = L
    BY <1>1, <1>2, <2>2, <2>3
  <2>7. tail' \in RingSlots(headers[p][localBlockIndex])' /\ Points(p, f, localBlockIndex, tail)'
    BY <1>1, <2>2, <2>3, <2>5, <2>6 DEF RingSlots
  <2> QED BY <1>1, <2>2, <2>6, <2>7 DEF Looking
<1> QED BY <1>1, <1>2, <1>3, LookStep

LEMMA FindEntryStep ==
  ASSUME IInv, FindEntry
  PROVE  IInv'
<1>1. /\ deq = "entry" /\ deq' = "element"
      /\ UNCHANGED <<tailIndex, headIndex, tailBlock, headers, entries, memory, enq,
                     from, index, localBlockIndex, tail, block, element>>
  BY DEF FindEntry, producerSide
<1>2. PICK p \in Producers : from = p
  BY <1>1 DEF IInv, FromInv
<1>3. ASSUME NEW f \in Int, NEW e \in Int, InOrder(p, f, e) PROVE Looking(p, f)'
  <2>1. /\ TypeInv /\ Headers(p) /\ Looking(p, f) /\ index = At(f, taken(p))
    BY <1>1, <1>2, <1>3 DEF InOrder, IInv, ProducerInv, Ends
  <2>2. PICK L \in DOMAIN headers[p] : L = localBlockIndex
    BY <1>1, <1>2, <2>1 DEF Looking
  <2> DEFINE h == headers[p][L]
             c == h.capacity
  <2>3. PICK t \in RingSlots(h) : t = tail
    BY <1>1, <1>2, <2>1, <2>2 DEF Looking
  <2>4. Points(p, f, L, t)
    BY <1>1, <1>2, <2>1, <2>2, <2>3 DEF Looking
  <2>5. PICK d \in RingSlots(h) : Leads(p, f, L, t, d)
    BY <2>4 DEF Points
  <2> DEFINE x == entries[p][h.index[t]]
             i == h.index[Back(c, t, d)]
             offset == Minus(Base(index), x.key) \div BLOCK_SIZE
  <2>6. /\ h \in Header /\ c \in Nat \ {0} /\ nb % c = 0 /\ c <= nb
        /\ t \in 0 .. c - 1 /\ d \in 0 .. c - 1
        /\ h.index \in [0 .. c - 1 -> 1 .. Len(entries[p])]
    <3>1. h \in Header /\ HeaderOK(h, Len(entries[p]))
      BY <2>1, SeqTypes DEF Headers
    <3> QED BY <2>3, <2>5, <3>1, HeaderType DEF HeaderOK, RingSlots
  <2>7. x.key = Key(f + d) /\ entries[p][i].key = Key(f) /\ Live(entries[p][i])
    BY <2>5 DEF Leads
  <2>8. entry' = h.index[(t + offset) % c]
    BY <1>2, <2>2, <2>3 DEF FindEntry
  <2> HIDE DEF x, i, h
  <2>9. Base(index) = Key(f)
    <3>1. taken(p) \in 0 .. BLOCK_SIZE /\ taken(p) # BLOCK_SIZE
      BY <1>1, <1>2, <2>1, Ranges, Sizes
    <3> QED BY <2>1, <3>1, AtWord
  <2>10. offset = (0 - d) % nb
    <3>1. PICK k \in Int : k = f + d
      BY <2>6
    <3>2. offset = (f - k) % nb
      BY <2>7, <2>9, <3>1, KeyDistance
    <3>3. f - k = 0 - d
      BY <2>6, <3>1
    <3> QED BY <3>2, <3>3
  <2> HIDE DEF offset, c
  <2>11. (t + offset) % c = Back(c, t, d)
    BY <2>6, <2>10, RingLookup
  <2>12. entry' = i
    BY <2>8, <2>11 DEF i
  <2>13. i \in DOMAIN entries[p]
    <3>1. Back(c, t, d) \in 0 .. c - 1
      BY <2>6, BackFacts
    <3> QED BY <2>1, <2>6, <3>1, SeqTypes DEF i
  <2> QED BY <1>1, <2>7, <2>12, <2>13 DEF Looking, Live
<1> QED BY <1>1, <1>2, <1>3, LookStep

\* The test for messages in dequeue is right, since the ends of the queue are
\* less than half the range apart.
LEMMA MessagesLeft ==
  ASSUME TypeInv, NEW p \in Producers, NEW f \in Int, NEW e \in Int, Ends(p, f, e),
         from # p
  PROVE  circular_less_than(headIndex[p], tailIndex[p]) <=>
           f < e /\ (f = e - 1 => claimed(p) < filled(p))
<1> DEFINE B == BLOCK_SIZE
           g == claimed(p)
           r == filled(p)
           d == (e - 1 - f) * B + r - g
<1>1. B \in Nat /\ B > 1 /\ Half \in Nat /\ Half >= 2 /\ IndexRange = (2 * Half) * B
  BY Sizes
<1>2. g \in 0 .. B - 1 /\ r \in 0 .. B
  BY Ranges
<1>3. /\ f <= e /\ e - f <= Half /\ (f = e => g = 0 /\ r = B) /\ (f = e - 1 => g <= r)
      /\ headIndex[p] = At(f, g) /\ tailIndex[p] = At(e - 1, r)
  BY <1>1 DEF Ends, Near
<1> HIDE DEF g, r
<1>4. (Half - 1) * B + B = Half * B /\ Half * B < IndexRange /\ Half * B \in Nat
  BY <1>1
<1>5. /\ d \in Int
      /\ d \in 0 .. Half * B /\ (d > 0 <=> (f < e /\ (f = e - 1 => g < r)))
      /\ g # 0 => d < Half * B
  <2>1. CASE f = e
    <3>1. (e - 1 - f) * B = - B
      BY <1>1, <2>1
    <3> QED BY <1>1, <1>2, <1>3, <1>4, <2>1, <3>1
  <2>2. CASE f = e - 1
    <3>1. (e - 1 - f) * B = 0
      BY <1>1, <2>2
    <3>2. B <= Half * B /\ B < Half * B
      <4>1. 2 * B <= Half * B
        BY <1>1, Scaled
      <4> QED BY <1>1, <4>1
    <3> QED BY <1>1, <1>2, <1>3, <1>4, <2>2, <3>1, <3>2
  <2>3. CASE f < e - 1
    <3>1. 1 * B <= (e - 1 - f) * B /\ (e - 1 - f) * B <= (Half - 1) * B
      BY <1>1, <1>3, <2>3, Scaled
    <3>2. (e - 1 - f) * B \in Int
      BY <1>1
    <3> QED BY <1>1, <1>2, <1>3, <1>4, <2>3, <3>1, <3>2
  <2> QED BY <1>3, <2>1, <2>2, <2>3
<1>6. d < Half * B
  <2>1. ASSUME g = 0 PROVE e - f < Half
    BY <2>1 DEF Ends, Near, g
  <2>2. ASSUME g = 0 PROVE d < Half * B
    <3>1. (e - 1 - f) * B <= (Half - 2) * B /\ (Half - 2) * B = Half * B - 2 * B
      BY <1>1, <2>1, <2>2, Scaled
    <3>2. (e - 1 - f) * B \in Int /\ (Half - 2) * B \in Int
      BY <1>1
    <3> QED BY <1>1, <1>2, <1>4, <2>2, <3>1, <3>2
  <2> QED BY <1>5, <2>2
<1> HIDE DEF d
<1>7. d \in 0 .. IndexRange - 1
  BY <1>1, <1>4, <1>5, <1>6
<1>8. circular_less_than(At(f, g), At(e - 1, r)) <=> d > 0 /\ d < Half * B
  <2>1. g \in 0 .. B /\ e - 1 \in Int
    BY <1>1, <1>2
  <2> QED BY <1>2, <1>7, <2>1, LessThan DEF d
<1> QED BY <1>3, <1>5, <1>6, <1>8 DEF g, r

LEMMA ClaimStep ==
  ASSUME IInv, NEW p \in Producers, Claim(p)
  PROVE  IInv'
<1> DEFINE B == BLOCK_SIZE
           g == claimed(p)
<1>1. /\ deq = "idle" /\ circular_less_than(headIndex[p], tailIndex[p])
      /\ from' = p /\ index' = headIndex[p] /\ deq' = "index"
      /\ headIndex' = [headIndex EXCEPT ![p] = Plus(@, 1)]
      /\ UNCHANGED <<tailIndex, tailBlock, headers, enq, entries, contents,
                     elementsCompletelyDequeued, pool, freeList, heap,
                     localBlockIndex, tail, entry, block, element>>
  BY DEF Claim, producerSide, memory
<1>2. PICK f \in Int, e \in Int : InOrder(p, f, e)
  BY DEF IInv, ProducerInv
<1>3. /\ TypeInv /\ Headers(p) /\ Bare(p) /\ BlocksInv
      /\ Ring(p, f, e) /\ Holding(p, f, e) /\ Ends(p, f, e)
  BY <1>2 DEF InOrder, IInv, ProducerInv
<1>4. from = NoMessage /\ \A q \in Producers : from # q
  BY <1>1, NoMessageAssumption DEF IInv, FromInv
<1>5. f < e /\ (f = e - 1 => g < filled(p))
  BY <1>1, <1>3, <1>4, MessagesLeft
<1>6. g \in 0 .. B - 1 /\ g = taken(p) /\ B \in Nat /\ filled(p) \in 0 .. B
  BY <1>3, <1>4, Ranges, Sizes
<1>7. headIndex[p] = At(f, g) /\ headIndex'[p] = At(f, g + 1)
      /\ \A q \in Producers \ {p} : headIndex'[q] = headIndex[q]
  <2>1. headIndex[p] = At(f, g)
    BY <1>3 DEF Ends
  <2> HIDE DEF g
  <2>2. Plus(At(f, g), 1) = At(f, g + 1)
    BY <1>6, AtNext
  <2> QED BY <1>1, <1>3, <2>1, <2>2 DEF TypeInv
<1>8. taken(p)' = g /\ claimed(p)' = g + 1 /\ index' = At(f, g)
  <2>1. index' % B = g
    <3> HIDE DEF g
    <3>1. g \in 0 .. B /\ g # B
      BY <1>6
    <3> QED BY <1>1, <1>7, <3>1, AtWord
  <2>2. taken(p)' = g
    BY <1>1, <2>1 DEF taken
  <2> QED BY <1>1, <1>7, <2>2 DEF claimed
<1>9. (Ahead(p)' <=> Ahead(p)) /\ (Pending(p)' <=> Pending(p)) /\ filled(p)' = filled(p)
  BY <1>1 DEF Ahead, Pending, filled
<1>10. \A q \in Producers : SameRings(q) /\ SameBlocks(q)
  BY <1>1 DEF SameRings, SameBlocks
<1>11. Ends(p, f, e)'
  <2>1. /\ Near(p, f, e) => Near(p, f, e)'
        /\ Near(p, f, e + 1) => Near(p, f, e + 1)'
    BY <1>6, <1>8 DEF Near
  <2>2. f = e - 1 => g + 1 <= filled(p)
    BY <1>5, <1>6
  <2>3. /\ f <= e /\ f # e /\ tailIndex[p] = At(e - 1, filled(p)) /\ Near(p, f, e)
        /\ (enq[p] \in Opening => Near(p, f, e + 1) /\ tailIndex[p] % B = 0)
    BY <1>3, <1>5 DEF Ends
  <2> QED BY <1>1, <1>5, <1>7, <1>8, <1>9, <2>1, <2>2, <2>3 DEF Ends
<1>12. Headers(p)' /\ Ring(p, f, e)'
  BY <1>1, <1>3, <1>9, <1>10, FrameRing
<1>13. Holding(p, f, e)'
  BY <1>1, <1>3, <1>6, <1>8, <1>9, <1>10, FrameHolding
<1>14. Looking(p, f)'
  BY <1>1 DEF Looking
<1>15. Bare(p)'
  <2>1. headers[p] # << >>
    <3>1. ASSUME headers[p] = << >> PROVE FALSE
      <4>1. tailIndex[p] = 0 /\ headIndex[p] = 0
        BY <1>3, <3>1 DEF Bare
      <4>2. Minus(0, 0) = 0
        BY Sizes DEF Minus
      <4>3. 0 > IndexRange \div 2
        BY <1>1, <4>1, <4>2 DEF circular_less_than
      <4>4. IndexRange \div 2 >= 0
        BY Sizes
      <4> QED BY <4>3, <4>4, Sizes
    <3> QED BY <3>1
  <2> QED BY <1>1, <2>1 DEF Bare
<1>16. ASSUME NEW q \in Producers, q # p PROVE ProducerInv(q)'
  <2>1. SameConsumer(q)
    BY <1>1, <1>4, <1>16 DEF SameConsumer
  <2> QED BY <1>1, <1>3, <1>7, <1>10, <1>16, <2>1, Others DEF IInv
<1>17. \A q \in Producers : ProducerInv(q)'
  BY <1>11, <1>12, <1>13, <1>14, <1>15, <1>16 DEF ProducerInv, InOrder
<1>18. TypeInv'
  <2>1. index' \in Words /\ headIndex' \in [Producers -> Words]
    <3>1. headIndex[p] \in Words /\ 1 \in Words
      BY <1>3, Sizes, SizesAssumption DEF TypeInv, Words
    <3>2. Plus(headIndex[p], 1) \in Words
      BY <3>1, WordArithmetic
    <3> QED BY <1>1, <1>3, <3>1, <3>2 DEF TypeInv
  <2> QED BY <1>1, <1>3, <2>1 DEF TypeInv
<1>19. BlocksInv'
  BY <1>1, <1>3, FrameBlocks
<1>20. FromInv'
  BY <1>1 DEF FromInv
<1> QED BY <1>17, <1>18, <1>19, <1>20 DEF IInv

\* The entry the consumer found is the oldest in use.
LEMMA OldestEntry ==
  ASSUME IInv, NEW p \in Producers, from = p, deq \in {"element", "clear"},
         NEW f \in Int, NEW e \in Int, InOrder(p, f, e)
  PROVE  /\ f < e /\ headers[p] # << >>
         /\ entry \in DOMAIN entries[p] /\ Live(entries[p][entry])
         /\ entries[p][entry].value \in Blocks
         /\ Holds(p, f, e, f, entries[p][entry].value)
         /\ \A s \in RingSlots(blockIndex(p)) :
              /\ blockIndex(p).index[s] = entry <=> Age(p, s) = e - 1 - f
              /\ Age(p, s) < e - f => e - 1 - Age(p, s) \in f .. e - 1
         /\ \A q \in Producers : \A n \in DOMAIN entries[q] :
              q # p \/ n # entry => entries[q][n].value # entries[p][entry].value
<1>1. /\ TypeInv /\ Headers(p) /\ BlocksInv /\ headers[p] # << >>
      /\ Ring(p, f, e) /\ Holding(p, f, e) /\ Looking(p, f) /\ Ends(p, f, e)
  BY DEF InOrder, IInv, ProducerInv, Bare
<1>2. /\ entry \in DOMAIN entries[p] /\ Live(entries[p][entry]) /\ entries[p][entry].key = Key(f)
      /\ f < e /\ e - f <= Half
  BY <1>1, Sizes DEF Looking, Ends, Near
<1>3. \A s \in RingSlots(blockIndex(p)) :
        Age(p, s) \in Nat /\ blockIndex(p).index[s] \in DOMAIN entries[p]
  BY <1>1, RingFacts
<1>4. PICK s \in RingSlots(blockIndex(p)) : blockIndex(p).index[s] = entry
  BY <1>1, <1>2 DEF Headers
<1>5. Age(p, s) = e - 1 - f
  <2>1. /\ Age(p, s) < e - f /\ EntryAt(p, s).key = Key(e - 1 - Age(p, s))
    BY <1>1, <1>2, <1>4 DEF Ring, EntryAt
  <2>2. PICK k \in Int : k = e - 1 - Age(p, s)
    BY <1>3
  <2>3. Key(k) = Key(f)
    BY <1>2, <1>4, <2>1, <2>2 DEF EntryAt
  <2>4. k - f < nb /\ f - k < nb
    <3>1. Age(p, s) \in Nat /\ Half < nb /\ Half \in Nat /\ nb \in Nat
      BY <1>3, Sizes
    <3> QED BY <1>2, <2>1, <2>2, <3>1
  <2>5. k = f
    BY <2>3, <2>4, KeySame
  <2> QED BY <1>3, <2>2, <2>5
<1>6. \A r \in RingSlots(blockIndex(p)) : Age(p, r) = e - 1 - f => r = s
  <2>1. ASSUME NEW r \in RingSlots(blockIndex(p)), Age(p, r) = e - 1 - f PROVE r = s
    <3>1. /\ capacity(p) \in Nat \ {0} /\ LastSlot(p) \in 0 .. capacity(p) - 1
          /\ RingSlots(blockIndex(p)) = 0 .. capacity(p) - 1
      BY <1>1, RingFacts
    <3>2. /\ Back(capacity(p), LastSlot(p), Age(p, r)) = r
          /\ Back(capacity(p), LastSlot(p), Age(p, s)) = s
      BY <3>1, BackFacts DEF Age
    <3> QED BY <1>5, <2>1, <3>2
  <2> QED BY <2>1
<1>7. Holds(p, f, e, f, entries[p][entry].value)
  <2>1. Age(p, s) < e - f /\ e - 1 - Age(p, s) = f
    BY <1>2, <1>5
  <2>2. Holds(p, f, e, e - 1 - Age(p, s), EntryAt(p, s).value)
    BY <1>1, <2>1 DEF Holding
  <2> QED BY <1>4, <2>1, <2>2 DEF EntryAt
<1>8. ASSUME NEW r \in RingSlots(blockIndex(p))
      PROVE  /\ blockIndex(p).index[r] = entry <=> Age(p, r) = e - 1 - f
             /\ Age(p, r) < e - f => e - 1 - Age(p, r) \in f .. e - 1
  <2>1. blockIndex(p).index[r] = entry => r = s
    <3>1. r \in 0 .. capacity(p) - 1 /\ s \in 0 .. capacity(p) - 1
      BY <1>1, <1>4, RingFacts
    <3> QED BY <1>1, <1>4, <3>1, RingFacts
  <2>2. Age(p, r) < e - f => e - 1 - Age(p, r) \in f .. e - 1
    BY <1>3
  <2> QED BY <1>4, <1>5, <1>6, <2>1, <2>2
<1>9. ASSUME NEW q \in Producers, NEW n \in DOMAIN entries[q], q # p \/ n # entry
      PROVE  entries[q][n].value # entries[p][entry].value
  BY <1>1, <1>2, <1>9 DEF BlocksInv
<1>10. entries[p][entry].value \in Blocks
  BY <1>2 DEF Live
<1> QED BY <1>1, <1>2, <1>7, <1>8, <1>9, <1>10

LEMMA TakeElementStep ==
  ASSUME IInv, TakeElement
  PROVE  IInv'
<1> DEFINE B == BLOCK_SIZE
           b == entries[from][entry].value
           g == index % B
           n == elementsCompletelyDequeued[b] + 1
<1>1. /\ deq = "element"
      /\ element' = contents[b][g]
      /\ contents' = [contents EXCEPT ![b][g] = NoMessage]
      /\ elementsCompletelyDequeued' = [elementsCompletelyDequeued EXCEPT ![b] = n]
      /\ IF n = B
         THEN deq' = "clear" /\ block' = b /\ UNCHANGED <<from, entry>>
         ELSE deq' = "idle" /\ from' = NoMessage /\ entry' = 0 /\ UNCHANGED block
      /\ index' = 0
      /\ UNCHANGED <<tailIndex, tailBlock, headers, enq, headIndex, entries, pool, freeList, heap>>
  BY DEF TakeElement, Emptied, producerSide
<1>2. PICK p \in Producers : from = p
  BY <1>1 DEF IInv, FromInv
<1>3. PICK f \in Int, e \in Int : InOrder(p, f, e)
  BY DEF IInv, ProducerInv
<1>4. /\ TypeInv /\ Headers(p) /\ Bare(p) /\ BlocksInv
      /\ Ring(p, f, e) /\ Holding(p, f, e) /\ Looking(p, f) /\ Ends(p, f, e)
  BY <1>3 DEF InOrder, IInv, ProducerInv
<1>5. /\ f < e /\ headers[p] # << >> /\ b \in Blocks /\ Holds(p, f, e, f, b)
      /\ entry \in DOMAIN entries[p] /\ Live(entries[p][entry])
      /\ \A s \in RingSlots(blockIndex(p)) :
           /\ blockIndex(p).index[s] = entry <=> Age(p, s) = e - 1 - f
           /\ Age(p, s) < e - f => e - 1 - Age(p, s) \in f .. e - 1
      /\ \A q \in Producers : \A m \in DOMAIN entries[q] :
           q # p \/ m # entry => entries[q][m].value # b
  BY <1>1, <1>2, <1>3, OldestEntry
<1>6. /\ taken(p) = g /\ claimed(p) = g + 1 /\ g \in 0 .. B - 1 /\ B \in Nat
      /\ filled(p) \in 0 .. B
  BY <1>1, <1>2, <1>4, Ranges, Sizes DEF taken
<1>7. n = g + 1
  BY <1>5, <1>6 DEF Holds
<1>8. NoMessage \notin Producers /\ (n # B => from' # p)
  BY <1>1, <1>2, NoMessageAssumption
<1> HIDE DEF b, g, n
<1>9. headIndex[p] = At(f, g + 1) /\ (g + 1 # B => headIndex[p] % B = g + 1)
  <2>1. headIndex[p] = At(f, g + 1)
    BY <1>4, <1>6 DEF Ends
  <2>2. g + 1 \in 0 .. B
    BY <1>6
  <2> QED BY <2>1, <2>2, AtWord
<1>10. taken(p)' = g + 1 /\ claimed(p)' = g + 1
  <2>1. CASE n = B
    <3>1. from' = p /\ deq' = "clear"
      BY <1>1, <1>2, <2>1
    <3> QED BY <1>7, <2>1, <3>1 DEF taken, claimed
  <2>2. CASE n # B
    <3>1. from' # p /\ taken(p)' = headIndex[p] % B
      BY <1>1, <1>8, <2>2 DEF taken
    <3> QED BY <1>7, <1>9, <2>2, <3>1 DEF claimed
  <2> QED BY <2>1, <2>2
<1>11. filled(p)' = filled(p) /\ (Ahead(p)' <=> Ahead(p)) /\ (Pending(p)' <=> Pending(p))
  BY <1>1 DEF filled, Ahead, Pending
<1>12. Ends(p, f, e)'
  <2>1. /\ Near(p, f, e)' <=> Near(p, f, e)
        /\ Near(p, f, e + 1)' <=> Near(p, f, e + 1)
    BY <1>6, <1>10 DEF Near
  <2>2. deq' = "clear" \/ from' # p
    BY <1>1, <1>8
  <2> QED BY <1>1, <1>4, <1>5, <1>6, <1>10, <1>11, <2>1, <2>2 DEF Ends
<1>13. /\ \A x \in Blocks \ {b} : contents'[x] = contents[x]
                /\ elementsCompletelyDequeued'[x] = elementsCompletelyDequeued[x]
       /\ \A s \in Slots : s # g => contents'[b][s] = contents[b][s]
       /\ elementsCompletelyDequeued'[b] = g + 1
       /\ contents' \in [Blocks -> [Slots -> Messages \cup {NoMessage}]]
       /\ elementsCompletelyDequeued' \in [Blocks -> 0 .. B]
       /\ element' \in Messages \cup {NoMessage}
  <2>1. /\ contents \in [Blocks -> [Slots -> Messages \cup {NoMessage}]]
        /\ elementsCompletelyDequeued \in [Blocks -> 0 .. B]
    BY <1>4 DEF TypeInv
  <2>2. g \in Slots /\ n \in 0 .. B
    BY <1>6, <1>7 DEF Slots
  <2>3. elementsCompletelyDequeued' \in [Blocks -> 0 .. B] /\ elementsCompletelyDequeued'[b] = g + 1
    BY <1>1, <1>5, <1>7, <2>1, <2>2
  <2>4. contents' \in [Blocks -> [Slots -> Messages \cup {NoMessage}]]
        /\ \A s \in Slots : s # g => contents'[b][s] = contents[b][s]
    BY <1>1, <1>5, <2>1, <2>2
  <2>5. \A x \in Blocks \ {b} : contents'[x] = contents[x]
                /\ elementsCompletelyDequeued'[x] = elementsCompletelyDequeued[x]
    BY <1>1, <1>5, <2>1
  <2>6. element' \in Messages \cup {NoMessage}
    BY <1>1, <1>5, <2>1, <2>2
  <2> QED BY <2>3, <2>4, <2>5, <2>6
<1>14. SameRings(p) /\ Headers(p)' /\ Ring(p, f, e)' /\ LastSlot(p)' = LastSlot(p)
       /\ blockIndex(p)' = blockIndex(p)
       /\ \A s : Age(p, s)' = Age(p, s) /\ EntryAt(p, s)' = EntryAt(p, s)
  <2>1. SameRings(p)
    BY <1>1 DEF SameRings
  <2> QED BY <1>1, <1>4, <1>11, <2>1, FrameRing
<1>15. Holding(p, f, e)'
  <2>1. ASSUME NEW s \in RingSlots(blockIndex(p)), Age(p, s) < e - f
        PROVE  Holds(p, f, e, e - 1 - Age(p, s), EntryAt(p, s).value)'
    <3> DEFINE k == e - 1 - Age(p, s)
               x == EntryAt(p, s).value
    <3>1. k' = k /\ x' = x
      BY <1>14
    <3>2. Holds(p, f, e, k, x) /\ x \in Blocks
      BY <1>4, <1>5, <2>1 DEF Holding, Ring, Live
    <3>3. Age(p, s) \in Nat /\ blockIndex(p).index[s] \in DOMAIN entries[p]
      <4>1. s \in 0 .. capacity(p) - 1 /\ capacity(p) \in Nat
        BY <1>4, <1>5, RingFacts
      <4>2. Age(p, s) \in 0 .. capacity(p) - 1 /\ blockIndex(p).index[s] \in DOMAIN entries[p]
        BY <1>4, <1>5, <4>1, RingFacts
      <4> QED BY <4>1, <4>2
    <3>4. CASE Age(p, s) = e - 1 - f
      <4>1. k = f /\ x = b
        BY <1>2, <1>5, <3>4 DEF EntryAt, b
      <4> HIDE DEF k, x
      <4>2. ASSUME NEW i \in Slots, i >= g + 1, k = e - 1 => i < filled(p)
            PROVE  contents'[b][i] = <<p, Key(k) + i>>
        <5>1. i >= taken(p) /\ i # g
          BY <1>6, <4>2 DEF Slots
        <5>2. contents[b][i] = <<p, Key(k) + i>>
          BY <3>2, <4>1, <4>2, <5>1 DEF Holds
        <5> QED BY <1>13, <5>1, <5>2
      <4>3. (Holds(p, f, e, k, x))'
        BY <1>10, <1>11, <1>13, <3>1, <4>1, <4>2 DEF Holds
      <4> QED BY <4>3 DEF k, x
    <3>5. CASE Age(p, s) # e - 1 - f
      <4>1. k # f
        BY <3>3, <3>5
      <4>2. x # b
        BY <1>5, <3>3, <3>5 DEF EntryAt
      <4> HIDE DEF k, x
      <4>3. contents'[x] = contents[x]
            /\ elementsCompletelyDequeued'[x] = elementsCompletelyDequeued[x]
        BY <1>13, <3>2, <4>2
      <4>4. (Holds(p, f, e, k, x))'
        BY <1>11, <3>1, <3>2, <4>1, <4>3 DEF Holds
      <4> QED BY <4>4 DEF k, x
    <3> QED BY <3>4, <3>5
  <2>2. ~ Ahead(p)' => tailBlock'[p] = EntryAt(p, LastSlot(p))'.value
    BY <1>1, <1>4, <1>5, <1>11, <1>14 DEF Holding
  <2> QED BY <1>14, <2>1, <2>2 DEF Holding
<1>16. Looking(p, f)'
  <2>1. CASE n = B
    <3>1. deq' = "clear" /\ block' = b /\ entry' = entry
      BY <1>1, <2>1
    <3> QED BY <1>1, <1>2, <1>4, <3>1 DEF Looking, Live, b
  <2>2. CASE n # B
    BY <1>8, <2>2 DEF Looking
  <2> QED BY <2>1, <2>2
<1>17. Bare(p)'
  BY <1>1, <1>5 DEF Bare
<1>18. ASSUME NEW q \in Producers, q # p PROVE ProducerInv(q)'
  <2>1. SameConsumer(q)
    BY <1>1, <1>2, <1>8, <1>18 DEF SameConsumer
  <2>2. SameRings(q) /\ SameBlocks(q)
    BY <1>1, <1>5, <1>13, <1>18 DEF SameRings, SameBlocks, Live
  <2> QED BY <1>1, <1>4, <1>18, <2>1, <2>2, Others DEF IInv
<1>19. \A q \in Producers : ProducerInv(q)'
  BY <1>12, <1>14, <1>15, <1>16, <1>17, <1>18 DEF ProducerInv, InOrder
<1>20. TypeInv'
  <2>1. 0 \in Words
    BY Sizes, SizesAssumption DEF Words
  <2>2. block' \in Blocks \cup {NoBlock}
    BY <1>1, <1>4, <1>5 DEF TypeInv
  <2>3. deq' \in {"idle", "index", "tail", "entry", "element", "clear", "add"}
    BY <1>1
  <2> QED BY <1>1, <1>4, <1>13, <2>1, <2>2, <2>3 DEF TypeInv
<1>21. BlocksInv'
  <2>1. deq # "add" /\ deq' # "add"
    BY <1>1
  <2> QED BY <1>1, <1>4, <2>1, FrameBlocks
<1>22. FromInv'
  BY <1>1, <1>2 DEF FromInv
<1> QED BY <1>19, <1>20, <1>21, <1>22 DEF IInv

\* The emptied block of number f leaves its entry, which is free from then on.
LEMMA ClearEntryStep ==
  ASSUME IInv, ClearEntry
  PROVE  IInv'
<1> DEFINE B == BLOCK_SIZE
           b == entries[from][entry].value
<1>1. /\ deq = "clear" /\ deq' = "add" /\ from' = NoMessage /\ entry' = 0
      /\ entries' = [entries EXCEPT ![from][entry].value = NoBlock]
      /\ UNCHANGED <<tailIndex, tailBlock, headers, enq, headIndex, contents,
                     elementsCompletelyDequeued, pool, freeList, heap,
                     index, localBlockIndex, tail, block, element>>
  BY DEF ClearEntry, producerSide, memory
<1>2. PICK p \in Producers : from = p
  BY <1>1 DEF IInv, FromInv
<1>3. PICK f \in Int, e \in Int : InOrder(p, f, e)
  BY DEF IInv, ProducerInv
<1>4. /\ TypeInv /\ Headers(p) /\ Bare(p) /\ BlocksInv
      /\ Ring(p, f, e) /\ Holding(p, f, e) /\ Looking(p, f) /\ Ends(p, f, e)
  BY <1>3 DEF InOrder, IInv, ProducerInv
<1>5. /\ f < e /\ headers[p] # << >> /\ b \in Blocks
      /\ entry \in DOMAIN entries[p] /\ Live(entries[p][entry])
      /\ \A s \in RingSlots(blockIndex(p)) :
           /\ blockIndex(p).index[s] = entry <=> Age(p, s) = e - 1 - f
           /\ Age(p, s) < e - f => e - 1 - Age(p, s) \in f .. e - 1
      /\ \A q \in Producers : \A m \in DOMAIN entries[q] :
           q # p \/ m # entry => entries[q][m].value # b
  BY <1>1, <1>2, <1>3, OldestEntry
<1>6. PICK a \in Blocks : a = b /\ block = a
  BY <1>1, <1>2, <1>4, <1>5 DEF Looking
<1> HIDE DEF b
<1>7. NoBlock \notin Blocks /\ \A q \in Producers : from' # q
  BY <1>1, BlocksAssumption, NoMessageAssumption
<1>8. OneEntry(p, entry) /\ entries'[p][entry].value = NoBlock
      /\ entries'[p][entry].key = entries[p][entry].key
  <2>1. PICK n \in DOMAIN entries[p] : n = entry
    BY <1>5
  <2>2. entries' = [entries EXCEPT ![p][n].value = NoBlock]
    BY <1>1, <1>2, <2>1
  <2>3. /\ OneEntry(p, n)
        /\ entries'[p][n].value = NoBlock /\ entries'[p][n].key = entries[p][n].key
    BY <1>4, <2>2, ValueStored
  <2> QED BY <2>1, <2>3 DEF OneEntry
<1>9. PICK g \in Int : g = f + 1
  OBVIOUS
<1>10. /\ B \in Nat /\ filled(p) \in 0 .. B /\ taken(p) = B /\ claimed(p) = B
       /\ headIndex[p] = At(g, 0) /\ taken(p)' = 0 /\ claimed(p)' = 0
  <2>1. B \in Nat /\ B > 1 /\ filled(p) \in 0 .. B
    BY <1>4, Ranges, Sizes
  <2>2. taken(p) = B /\ claimed(p) = B
    BY <1>1, <1>2 DEF taken, claimed
  <2>3. headIndex[p] = At(f, B)
    BY <1>4, <2>2 DEF Ends
  <2>4. headIndex[p] = At(g, 0)
    <3>1. 0 \in 0 .. B
      BY <2>1
    <3>2. At(f, B) = Key(f + 1) /\ At(g, 0) = Key(g)
      BY <3>1, <2>1, AtWord
    <3> QED BY <1>9, <2>3, <3>2
  <2>5. headIndex[p] % B = 0
    BY <2>1, <2>4, AtWord
  <2>6. taken(p)' = headIndex[p] % B
    BY <1>1, <1>7 DEF taken
  <2>7. claimed(p)' = taken(p)'
    BY <1>7 DEF claimed
  <2> QED BY <2>1, <2>2, <2>4, <2>5, <2>6, <2>7
<1>11. filled(p)' = filled(p) /\ (Ahead(p)' <=> Ahead(p))
  BY <1>1 DEF filled, Ahead
<1>12. Ends(p, g, e)'
  <2>1. /\ tailIndex[p] = At(e - 1, filled(p)) /\ f < e
        /\ (f = e - 1 => claimed(p) <= filled(p)) /\ Near(p, f, e)
        /\ (enq[p] \in Opening => Near(p, f, e + 1))
        /\ (enq[p] \in Opening => tailIndex[p] % BLOCK_SIZE = 0)
    BY <1>4, <1>5 DEF Ends
  <2>2. Half \in Nat /\ e - f <= Half
    BY <2>1, Sizes DEF Near
  <2>3. enq[p] \in Opening => e + 1 - f <= Half
    BY <2>1, Sizes DEF Near
  <2>4. e - g < Half /\ (enq[p] \in Opening => e + 1 - g < Half)
    BY <1>9, <2>2, <2>3
  <2>5. Near(p, g, e)' /\ (enq'[p] \in Opening => Near(p, g, e + 1)')
    BY <1>1, <2>4 DEF Near
  <2>6. g <= e /\ (g = e => filled(p) = B) /\ 0 <= filled(p)
    BY <1>9, <1>10, <2>1
  <2> QED BY <1>1, <1>7, <1>10, <1>11, <2>1, <2>5, <2>6 DEF Ends
<1>13. /\ blockIndex(p)' = blockIndex(p) /\ NextSlot(p)' = NextSlot(p)
       /\ LastSlot(p)' = LastSlot(p) /\ capacity(p)' = capacity(p)
       /\ \A s : Age(p, s)' = Age(p, s)
  <2>1. blockIndex(p)' = blockIndex(p) /\ capacity(p)' = capacity(p)
    BY <1>1 DEF blockIndex, capacity
  <2>2. newTail(p)' = newTail(p)
    BY <2>1 DEF newTail
  <2>3. NextSlot(p)' = NextSlot(p) /\ LastSlot(p)' = LastSlot(p)
    BY <1>1, <2>1, <2>2 DEF NextSlot, LastSlot, Pending
  <2> QED BY <2>1, <2>3 DEF Age
<1>14. ASSUME NEW s \in RingSlots(blockIndex(p))
       PROVE  /\ s \in 0 .. capacity(p) - 1 /\ Age(p, s) \in Nat
              /\ blockIndex(p).index[s] \in DOMAIN entries[p]
              /\ blockIndex(p).index[s] # entry => EntryAt(p, s)' = EntryAt(p, s)
              /\ blockIndex(p).index[s] = entry =>
                   EntryAt(p, s)'.value = NoBlock /\ Live(EntryAt(p, s))
  <2>1. s \in 0 .. capacity(p) - 1 /\ capacity(p) \in Nat
    BY <1>4, <1>5, RingFacts
  <2>2. Age(p, s) \in 0 .. capacity(p) - 1 /\ blockIndex(p).index[s] \in DOMAIN entries[p]
    BY <1>4, <1>5, <2>1, RingFacts
  <2>3. EntryAt(p, s)' = entries'[p][blockIndex(p).index[s]]
    BY <1>13 DEF EntryAt
  <2>4. blockIndex(p).index[s] # entry => EntryAt(p, s)' = EntryAt(p, s)
    BY <1>8, <2>2, <2>3 DEF OneEntry, EntryAt
  <2> QED BY <1>5, <1>8, <2>1, <2>2, <2>3, <2>4 DEF EntryAt
<1>15. Ring(p, g, e)'
  <2>1. capacity(p) \in Nat /\ e - f <= capacity(p)
    BY <1>4, <1>5, RingFacts DEF Ring
  <2>2. ASSUME NEW s \in RingSlots(blockIndex(p))
        PROVE  IF Age(p, s)' < e - g
               THEN Live(EntryAt(p, s)') /\ EntryAt(p, s)'.key = Key(e - 1 - Age(p, s)')
               ELSE ~ Live(EntryAt(p, s)') /\ (Free(EntryAt(p, s)')
                    \/ (s = NextSlot(p)' /\ enq'[p] \in Keyed))
    <3>1. CASE Age(p, s) < e - g
      <4>1. Age(p, s) < e - f /\ Age(p, s) # e - 1 - f
        BY <1>9, <1>14, <3>1
      <4>2. EntryAt(p, s)' = EntryAt(p, s)
        BY <1>5, <1>14, <4>1
      <4> QED BY <1>4, <1>5, <1>13, <3>1, <4>1, <4>2 DEF Ring
    <3>2. CASE Age(p, s) = e - 1 - f
      <4>1. EntryAt(p, s)'.value = NoBlock /\ ~ (Age(p, s) < e - g)
        BY <1>5, <1>9, <1>14, <3>2
      <4> QED BY <1>7, <1>13, <4>1 DEF Live, Free
    <3>3. CASE ~ (Age(p, s) < e - f)
      <4>1. ~ (Age(p, s) < e - g) /\ Age(p, s) # e - 1 - f
        BY <1>9, <1>14, <3>3
      <4>2. EntryAt(p, s)' = EntryAt(p, s)
        BY <1>5, <1>14, <4>1
      <4> QED BY <1>1, <1>4, <1>5, <1>13, <3>3, <4>1, <4>2 DEF Ring
    <3>4. (Age(p, s) < e - g) \/ (Age(p, s) = e - 1 - f) \/ ~ (Age(p, s) < e - f)
      BY <1>9, <1>14
    <3> QED BY <3>1, <3>2, <3>3, <3>4
  <2>3. ASSUME NEW s \in RingSlots(blockIndex(p)), s = NextSlot(p)', enq'[p] \in Keyed
        PROVE  ~ Live(EntryAt(p, s)') /\ EntryAt(p, s)'.key = tailIndex'[p]
    <3>1. ~ Live(EntryAt(p, s)) /\ EntryAt(p, s).key = tailIndex[p]
      BY <1>1, <1>4, <1>5, <1>13, <2>3 DEF Ring
    <3>2. EntryAt(p, s)' = EntryAt(p, s)
      BY <1>14, <3>1
    <3> QED BY <1>1, <3>1, <3>2
  <2>4. e - g <= capacity(p)
    BY <1>9, <2>1
  <2>5. /\ \A s \in RingSlots(blockIndex(p))' :
             IF Age(p, s)' < e - g
             THEN Live(EntryAt(p, s)') /\ EntryAt(p, s)'.key = Key(e - 1 - Age(p, s)')
             ELSE ~ Live(EntryAt(p, s)') /\ (Free(EntryAt(p, s)')
                  \/ (s = NextSlot(p)' /\ enq'[p] \in Keyed))
        /\ \A s \in RingSlots(blockIndex(p))' : s = NextSlot(p)' /\ enq'[p] \in Keyed =>
             ~ Live(EntryAt(p, s)') /\ EntryAt(p, s)'.key = tailIndex'[p]
    BY <1>13, <2>2, <2>3
  <2> QED BY <1>13, <2>4, <2>5 DEF Ring, Live, Free
<1>16. Holding(p, g, e)'
  <2>1. ASSUME NEW s \in RingSlots(blockIndex(p)), Age(p, s) < e - g
        PROVE  Holds(p, g, e, e - 1 - Age(p, s), EntryAt(p, s).value)'
    <3> DEFINE k == e - 1 - Age(p, s)
               x == EntryAt(p, s).value
    <3>1. Age(p, s) < e - f /\ Age(p, s) # e - 1 - f
      BY <1>9, <1>14, <2>1
    <3>2. EntryAt(p, s)' = EntryAt(p, s) /\ Age(p, s)' = Age(p, s)
      BY <1>5, <1>13, <1>14, <3>1
    <3>3. k' = k /\ x' = x
      BY <3>2
    <3>4. Holds(p, f, e, k, x)
      BY <1>4, <1>5, <3>1 DEF Holding
    <3>5. k # f
      BY <1>14, <3>1
    <3> HIDE DEF k, x
    <3>6. elementsCompletelyDequeued'[x] = 0
      BY <1>1, <3>4, <3>5 DEF Holds
    <3>7. \A r \in Slots : (k = e - 1 => r < filled(p)) => contents'[x][r] = <<p, Key(k) + r>>
      BY <1>1, <3>4, <3>5 DEF Holds
    <3>8. (Holds(p, g, e, k, x))'
      BY <1>10, <1>11, <3>3, <3>6, <3>7 DEF Holds
    <3> QED BY <3>8 DEF k, x
  <2>2. ~ Ahead(p)' => tailBlock'[p] = EntryAt(p, LastSlot(p))'.value
    <3>1. ASSUME ~ Ahead(p)
          PROVE  tailBlock[p] = EntryAt(p, LastSlot(p))'.value
      <4>1. filled(p) < B
        <5>1. filled(p) = tailIndex[p] % B /\ tailIndex[p] \in Words
          BY <1>4, <3>1 DEF filled, TypeInv
        <5> QED BY <5>1, Sizes DEF Words
      <4>2. f # e - 1
        BY <1>4, <1>10, <4>1 DEF Ends
      <4>3. LastSlot(p) \in 0 .. capacity(p) - 1 /\ RingSlots(blockIndex(p)) = 0 .. capacity(p) - 1
        BY <1>4, <1>5, RingFacts
      <4>4. Age(p, LastSlot(p)) = 0
        BY <1>4, <1>5, <4>3, RingFacts
      <4>5. blockIndex(p).index[LastSlot(p)] # entry
        BY <1>5, <4>2, <4>3, <4>4
      <4>6. \A s \in RingSlots(blockIndex(p)) :
              blockIndex(p).index[s] # entry => EntryAt(p, s)' = EntryAt(p, s)
        BY <1>14
      <4>7. EntryAt(p, LastSlot(p))' = EntryAt(p, LastSlot(p))
        BY <1>13, <4>3, <4>5, <4>6
      <4> QED BY <1>4, <1>5, <3>1, <4>7 DEF Holding
    <3> QED BY <1>1, <1>11, <3>1
  <2>3. \A s \in RingSlots(blockIndex(p))' : Age(p, s)' < e - g =>
          Holds(p, g, e, e - 1 - Age(p, s), EntryAt(p, s).value)'
    BY <1>13, <2>1
  <2> QED BY <2>2, <2>3 DEF Holding
<1>17. Looking(p, g)' /\ Bare(p)'
  BY <1>1, <1>5, <1>7 DEF Looking, Bare
<1>18. Headers(p)'
  BY <1>1, <1>4, <1>8, <1>13 DEF Headers, OneEntry
<1>19. ASSUME NEW q \in Producers, q # p PROVE ProducerInv(q)'
  <2>1. SameConsumer(q)
    BY <1>2, <1>7, <1>19 DEF SameConsumer
  <2>2. SameRings(q) /\ SameBlocks(q)
    BY <1>1, <1>8, <1>19 DEF SameRings, SameBlocks, OneEntry
  <2> QED BY <1>1, <1>4, <1>19, <2>1, <2>2, Others DEF IInv
<1>20. \A q \in Producers : ProducerInv(q)'
  BY <1>12, <1>15, <1>16, <1>17, <1>18, <1>19 DEF ProducerInv, InOrder
<1>21. TypeInv'
  BY <1>1, <1>4, <1>8 DEF TypeInv, OneEntry
<1>22. ASSUME NEW q \in Producers, NEW n \in DOMAIN entries'[q]
       PROVE  /\ n \in DOMAIN entries[q]
              /\ entries'[q][n].value \in Blocks =>
                   /\ entries'[q][n].value = entries[q][n].value
                   /\ entries'[q][n].value # b
  <2>1. n \in DOMAIN entries[q]
    BY <1>8, <1>22 DEF OneEntry
  <2>2. CASE q = p /\ n = entry
    BY <1>7, <1>8, <2>1, <2>2
  <2>3. CASE q # p \/ n # entry
    BY <1>5, <1>8, <2>1, <2>3 DEF OneEntry
  <2> QED BY <2>2, <2>3
<1>23. \A x \in Blocks \ {b} : InEntry(x) => InEntry(x)'
  <2>1. ASSUME NEW x \in Blocks \ {b}, NEW q \in Producers, NEW n \in DOMAIN entries[q],
               entries[q][n].value = x
        PROVE  n \in DOMAIN entries'[q] /\ entries'[q][n].value = x
    <3>1. q # p \/ n # entry
      BY <1>2, <2>1 DEF b
    <3> QED BY <1>8, <2>1, <3>1 DEF OneEntry
  <2> QED BY <2>1 DEF InEntry
<1>24. BlocksInv'
  <2>1. ASSUME NEW q \in Producers, NEW r \in Producers,
               NEW n \in DOMAIN entries'[q], NEW m \in DOMAIN entries'[r],
               entries'[q][n].value \in Blocks, entries'[q][n].value = entries'[r][m].value
        PROVE  q = r /\ n = m
    <3>1. /\ n \in DOMAIN entries[q] /\ m \in DOMAIN entries[r]
          /\ entries[q][n].value \in Blocks /\ entries[q][n].value = entries[r][m].value
      BY <1>22, <2>1
    <3> QED BY <1>4, <3>1 DEF BlocksInv, Live
  <2>2. \A x \in Blocks : InEntry(x)' => InEntry(x) /\ x # b
    BY <1>22 DEF InEntry
  <2>3. InEntry(b)
    BY <1>2, <1>5 DEF InEntry, b
  <2>4. Unused' = Unused /\ Unused \subseteq Blocks
    BY <1>1, <1>4 DEF Unused, TypeInv
  <2>5. /\ pool \cap freeList = {} /\ pool \cap heap = {} /\ heap \cap freeList = {}
        /\ \A x \in Unused : ~ InEntry(x)
        /\ \A x \in Blocks : x \in Unused \/ InEntry(x)
    BY <1>1, <1>4 DEF BlocksInv
  <2>6. a \in Blocks \ Unused /\ ~ InEntry(a)'
    BY <1>6, <2>2, <2>3, <2>5
  <2>7. ~ InEntry(block)' /\ block' = a
    BY <1>1, <1>6, <2>6 DEF InEntry
  <2>8. \A x \in Unused : ~ InEntry(x)'
    BY <2>2, <2>4, <2>5
  <2>9. \A x \in Blocks : x \in Unused \/ x = b \/ InEntry(x)'
    BY <1>23, <2>5
  <2> QED BY <1>1, <1>6, <2>1, <2>4, <2>5, <2>6, <2>7, <2>8, <2>9 DEF BlocksInv, Live
<1>25. FromInv'
  BY <1>1 DEF FromInv
<1> QED BY <1>20, <1>21, <1>24, <1>25 DEF IInv

\* The block joins the free ones.
LEMMA AddToFreeListStep ==
  ASSUME IInv, AddToFreeList
  PROVE  IInv'
<1>1. /\ deq = "add" /\ deq' = "idle" /\ block' = NoBlock
      /\ freeList' = freeList \cup {block}
      /\ UNCHANGED <<tailIndex, tailBlock, headers, enq, headIndex, entries, contents,
                     elementsCompletelyDequeued, pool, heap, from, index,
                     localBlockIndex, tail, entry, element>>
  BY DEF AddToFreeList, producerSide
<1>2. TypeInv /\ BlocksInv /\ from = NoMessage
  BY <1>1 DEF IInv, FromInv
<1>3. ASSUME NEW q \in Producers PROVE ProducerInv(q)'
  <2>1. SameConsumer(q)
    BY <1>1, <1>2, NoMessageAssumption DEF SameConsumer
  <2>2. SameRings(q) /\ SameBlocks(q)
    BY <1>1 DEF SameRings, SameBlocks
  <2> QED BY <1>1, <1>2, <2>1, <2>2, Others DEF IInv
<1>4. block \in Blocks \ Unused /\ ~ InEntry(block)
  BY <1>1, <1>2 DEF BlocksInv
<1>5. TypeInv'
  BY <1>1, <1>2, <1>4 DEF TypeInv
<1>6. BlocksInv'
  <2>1. \A x : InEntry(x)' <=> InEntry(x)
    BY <1>1 DEF InEntry
  <2>2. Unused' = Unused \cup {block}
    BY <1>1 DEF Unused
  <2>3. /\ pool' \cap freeList' = {} /\ pool' \cap heap' = {} /\ heap' \cap freeList' = {}
    BY <1>1, <1>2, <1>4 DEF BlocksInv, Unused
  <2>4. \A x \in Unused' : ~ InEntry(x)'
    BY <1>2, <1>4, <2>1, <2>2 DEF BlocksInv
  <2>5. \A x \in Blocks : x \in Unused' \/ InEntry(x)'
    BY <1>2, <2>1, <2>2 DEF BlocksInv
  <2> QED BY <1>1, <1>2, <2>3, <2>4, <2>5 DEF BlocksInv, Live
<1>7. FromInv'
  BY <1>1, <1>2 DEF FromInv
<1> QED BY <1>3, <1>5, <1>6, <1>7 DEF IInv

LEMMA NoStep ==
  ASSUME IInv, UNCHANGED vars
  PROVE  IInv'
<1>1. UNCHANGED <<tailIndex, headIndex, tailBlock, headers, entries, contents,
                  elementsCompletelyDequeued, pool, freeList, heap, enq, deq, from,
                  index, localBlockIndex, tail, entry, block, element>>
  BY DEF vars, indices, memory, consumer, locals
<1>2. ASSUME NEW q \in Producers PROVE ProducerInv(q)'
  <2>1. SameConsumer(q) /\ SameRings(q) /\ SameBlocks(q)
    BY <1>1 DEF SameConsumer, SameRings, SameBlocks
  <2> QED BY <1>1, <2>1, Others DEF IInv
<1>3. TypeInv' /\ FromInv'
  BY <1>1 DEF IInv, TypeInv, FromInv
<1>4. BlocksInv'
  BY <1>1, FrameBlocks DEF IInv
<1> QED BY <1>2, <1>3, <1>4 DEF IInv

-----------------------------------------------------------------------------
(* The invariant.                                                          *)

LEMMA InitInv ==
  ASSUME Init
  PROVE  IInv
<1> DEFINE B == BLOCK_SIZE
           I == IMPLICIT_INITIAL_INDEX_SIZE
<1>1. /\ B \in Nat /\ B > 1 /\ I \in Nat /\ I > 1 /\ Half \in Nat /\ Half >= 2
      /\ nb \in Nat /\ nb = 2 * Half /\ nb % I = 0 /\ IndexRange \in Nat
      /\ IndexRange = nb * B /\ IndexRange >= 4 * B
  BY Sizes, SizesAssumption
<1>2. I <= nb
  <2>1. I > nb => nb % I = nb
    BY <1>1
  <2> QED BY <1>1, <2>1
<1>3. 0 \in Words /\ 1 \in Words
  BY <1>1 DEF Words
<1>4. NewEntry \in Entry /\ ~ Live(NewEntry) /\ Free(NewEntry)
  BY <1>3, BlocksAssumption DEF NewEntry, Entry, Live, Free, INVALID_BLOCK_BASE
<1>5. /\ FirstHeader \in Header /\ HeaderOK(FirstHeader, I)
      /\ FirstHeader.capacity = I /\ FirstHeader.tail = I - 1
      /\ RingSlots(FirstHeader) = 0 .. I - 1
      /\ \A s \in 0 .. I - 1 : FirstHeader.index[s] = s + 1
  <2>1. /\ FirstHeader.capacity = I /\ FirstHeader.tail = I - 1
        /\ FirstHeader.index = [i \in 0 .. I - 1 |-> i + 1]
    BY DEF FirstHeader
  <2>2. [i \in 0 .. I - 1 |-> i + 1] \in [0 .. I - 1 -> 1 .. I]
    BY <1>1
  <2>3. FirstHeader \in [capacity : {I}, tail : 0 .. I - 1, index : [0 .. I - 1 -> Nat]]
    BY <1>1 DEF FirstHeader
  <2>4. FirstHeader \in Header
    BY <1>1, <2>3 DEF Header
  <2>5. RingSlots(FirstHeader) = 0 .. I - 1
    BY <2>1 DEF RingSlots
  <2>6. \A s \in 0 .. I - 1 : FirstHeader.index[s] = s + 1
    BY <2>1
  <2>7. HeaderOK(FirstHeader, I)
    BY <1>1, <1>2, <2>1, <2>2, <2>5, <2>6 DEF HeaderOK
  <2> QED BY <2>1, <2>4, <2>5, <2>6, <2>7
<1>6. ASSUME NEW p \in Producers
      PROVE  /\ tailIndex[p] = 0 /\ headIndex[p] = 0 /\ enq[p] = "idle" /\ from # p
             /\ headers[p] = << >> \/ headers[p] = <<FirstHeader>>
             /\ headers[p] \in Seq(Header) /\ entries[p] \in Seq(Entry)
             /\ Len(entries[p]) = I /\ DOMAIN entries[p] = 1 .. I
             /\ \A n \in 1 .. I : entries[p][n] = NewEntry
  <2>1. /\ tailIndex[p] = 0 /\ headIndex[p] = 0 /\ enq[p] = "idle" /\ from # p
        /\ headers[p] = << >> \/ headers[p] = <<FirstHeader>>
        /\ entries[p] = [n \in 1 .. I |-> NewEntry]
    BY NoMessageAssumption DEF Init, NoneTaken
  <2>2. [n \in 1 .. I |-> NewEntry] \in Seq(Entry)
    BY <1>1, <1>4, IsASeq
  <2>3. Len(entries[p]) = I /\ DOMAIN entries[p] = 1 .. I
    BY <1>1, <2>1, <2>2, LenProperties
  <2>4. headers[p] \in Seq(Header)
    <3>1. << >> \in Seq(Header)
      BY EmptySeq
    <3>2. <<FirstHeader>> \in Seq(Header)
      BY <1>5
    <3> QED BY <2>1, <3>1, <3>2
  <2> QED BY <2>1, <2>2, <2>3, <2>4
<1>7. TypeInv
  <2>1. headers \in [Producers -> Seq(Header)] /\ entries \in [Producers -> Seq(Entry)]
    BY <1>6 DEF Init
  <2>2. 0 \in 0 .. B
    BY <1>1
  <2> QED BY <1>3, <2>1, <2>2, BlocksAssumption DEF Init, NoneTaken, TypeInv
<1>8. FromInv
  BY DEF Init, NoneTaken, FromInv
<1>9. \A x \in Blocks : ~ InEntry(x)
  BY <1>4, <1>6 DEF InEntry, Live
<1>10. BlocksInv
  <2>1. /\ pool = InitialBlockPool /\ freeList = {} /\ heap = Blocks \ InitialBlockPool
        /\ deq = "idle"
    BY DEF Init
  <2>2. \A q \in Producers : \A n \in DOMAIN entries[q] : ~ Live(entries[q][n])
    BY <1>4, <1>6
  <2> QED BY <1>9, <2>1, <2>2, BlocksAssumption DEF BlocksInv, Unused
<1>11. ASSUME NEW p \in Producers PROVE ProducerInv(p)
  <2>1. Bare(p)
    BY <1>4, <1>6 DEF Bare
  <2>2. Ends(p, 0, 0)
    <3>1. 0 % B = 0
      BY <1>1
    <3>2. /\ Ahead(p) /\ filled(p) = B /\ taken(p) = 0 /\ claimed(p) = 0
          /\ enq[p] \notin Opening
      BY <1>6, <3>1 DEF Ahead, filled, taken, claimed, Opening
    <3>3. Key(0) = 0
      <4>1. 0 % nb = 0 /\ 0 * B = 0
        BY <1>1
      <4> QED BY <4>1 DEF Key
    <3>4. At(0, 0) = 0 /\ At(0 - 1, B) = 0
      <4>1. 0 \in 0 .. B /\ B \in 0 .. B /\ 0 - 1 \in Int /\ 0 - 1 + 1 = 0
        BY <1>1
      <4>2. At(0, 0) = Key(0)
        BY <4>1, AtWord
      <4>3. At(0 - 1, B) = Key(0 - 1 + 1)
        BY <4>1, AtWord
      <4> QED BY <3>3, <4>1, <4>2, <4>3
    <3>5. Near(p, 0, 0)
      BY <1>1 DEF Near
    <3> QED BY <1>6, <3>2, <3>4, <3>5 DEF Ends
  <2>3. Looking(p, 0)
    BY <1>6 DEF Looking
  <2>4. CASE headers[p] = << >>
    BY <2>1, <2>2, <2>3, <2>4 DEF ProducerInv, InOrder, Headers, Ring, Holding
  <2>5. CASE headers[p] = <<FirstHeader>>
    <3>1. /\ Len(headers[p]) = 1 /\ DOMAIN headers[p] = {1} /\ headers[p][1] = FirstHeader
          /\ blockIndex(p) = FirstHeader /\ capacity(p) = I /\ headers[p] # << >>
      BY <1>5, <2>5 DEF blockIndex, capacity
    <3>2. Headers(p)
      <4>1. ASSUME NEW n \in DOMAIN entries[p]
            PROVE  \E s \in RingSlots(blockIndex(p)) : blockIndex(p).index[s] = n
        <5>1. n - 1 \in 0 .. I - 1 /\ n - 1 + 1 = n
          BY <1>1, <1>6
        <5>2. FirstHeader.index[n - 1] = n
          BY <1>5, <5>1
        <5> QED BY <1>5, <3>1, <5>1, <5>2
      <4> QED BY <1>5, <1>6, <3>1, <4>1 DEF Headers
    <3>3. ~ Pending(p) /\ enq[p] \notin Keyed /\ Ahead(p)
      <4>1. 0 % B = 0
        BY <1>1
      <4> QED BY <1>6, <4>1 DEF Pending, Keyed, Ahead
    <3>4. ASSUME NEW s \in RingSlots(blockIndex(p))
          PROVE  /\ Age(p, s) \in Nat
                 /\ ~ Live(EntryAt(p, s)) /\ Free(EntryAt(p, s))
      <4>1. s \in 0 .. I - 1
        BY <1>5, <3>1
      <4>2. Age(p, s) \in 0 .. I - 1
        BY <1>7, <3>1, <3>2, <4>1, RingFacts
      <4>3. FirstHeader.index[s] \in 1 .. I
        BY <1>1, <1>5, <4>1
      <4> QED BY <1>1, <1>4, <1>6, <3>1, <4>2, <4>3 DEF EntryAt
    <3>5. Ring(p, 0, 0) /\ Holding(p, 0, 0)
      <4>1. \A s \in RingSlots(blockIndex(p)) : ~ (Age(p, s) < 0 - 0)
        BY <3>4
      <4> QED BY <1>1, <3>1, <3>3, <3>4, <4>1 DEF Ring, Holding
    <3> QED BY <2>1, <2>2, <2>3, <3>2, <3>5 DEF ProducerInv, InOrder
  <2> QED BY <1>6, <2>4, <2>5
<1> QED BY <1>7, <1>8, <1>10, <1>11 DEF IInv

LEMMA IInvStep ==
  ASSUME IInv, [Next]_vars
  PROVE  IInv'
<1>1. CASE UNCHANGED vars
  BY <1>1, NoStep
<1>2. ASSUME NEW p \in Producers, Enqueue(p) PROVE IInv'
  <2>1. CASE InTailBlock(p)
    BY <2>1, InTailBlockStep
  <2>2. CASE StartBlock(p)
    BY <2>2, StartBlockStep
  <2>3. CASE Refused(p)
    BY <2>3, NoStep DEF Refused
  <2>4. CASE StoreKey(p)
    BY <2>4, StoreKeyStep
  <2>5. CASE StoreTail(p)
    BY <2>5, StoreTailStep
  <2>6. CASE NewBlockIndex(p)
    BY <2>6, NewBlockIndexStep
  <2>7. CASE NewBlockIndexFails(p)
    BY <2>7, NewBlockIndexFailsStep
  <2>8. CASE RequisitionBlock(p)
    BY <2>8, RequisitionBlockStep
  <2>9. CASE NoneFree(p)
    BY <2>9, NoneFreeStep
  <2>10. CASE Allocate(p)
    BY <2>10, AllocateStep
  <2>11. CASE RequisitionFails(p)
    BY <2>11, RequisitionFailsStep
  <2>12. CASE Store(p)
    BY <2>12, StoreStep
  <2> QED BY <1>2, <2>1, <2>2, <2>3, <2>4, <2>5, <2>6, <2>7, <2>8, <2>9, <2>10,
             <2>11, <2>12 DEF Enqueue
<1>3. ASSUME NEW p \in Producers, Claim(p) PROVE IInv'
  BY <1>3, ClaimStep
<1>4. CASE LoadBlockIndex
  BY <1>4, LoadBlockIndexStep
<1>5. CASE LoadTail
  BY <1>5, LoadTailStep
<1>6. CASE FindEntry
  BY <1>6, FindEntryStep
<1>7. CASE TakeElement
  BY <1>7, TakeElementStep
<1>8. CASE ClearEntry
  BY <1>8, ClearEntryStep
<1>9. CASE AddToFreeList
  BY <1>9, AddToFreeListStep
<1> QED BY <1>1, <1>2, <1>3, <1>4, <1>5, <1>6, <1>7, <1>8, <1>9 DEF Next, Dequeue

LEMMA IInvHolds == Spec => []IInv
<1>1. Init => IInv
  BY InitInv
<1>2. IInv /\ [Next]_vars => IInv'
  BY IInvStep
<1> QED BY <1>1, <1>2, PTL DEF Spec

-----------------------------------------------------------------------------
(* The properties.                                                         *)

\* A ring without an entry twice has as many entries as its capacity says.
LEMMA RingCardinality ==
  ASSUME NEW h, NEW n \in Nat, HeaderOK(h, n), h.capacity \in Nat \ {0}
  PROVE  IsHeader(h, n)
<1> DEFINE c == h.capacity
           x == h.index
           S == 0 .. c - 1
           T == {x[i] : i \in 0 .. c - 1}
<1>1. /\ c \in Nat \ {0} /\ h.tail \in 0 .. c - 1 /\ x \in [0 .. c - 1 -> 1 .. n]
      /\ \A s, r \in 0 .. c - 1 : x[s] = x[r] => s = r
  BY DEF HeaderOK, RingSlots
<1> HIDE DEF c, x
<1>2. IsFiniteSet(S) /\ Cardinality(S) = c
  BY <1>1, FS_Interval
<1>3. x \in [S -> T] /\ \A t \in T : \E s \in S : x[s] = t
  BY <1>1
<1> HIDE DEF S, T
<1>4. x \in Surjection(S, T)
  BY <1>3 DEF Surjection
<1>5. x \in Injection(S, T)
  <2>1. \A s, r \in S : x[s] = x[r] => s = r
    BY <1>1 DEF S
  <2> QED BY <1>3, <2>1, Fun_IsInj
<1>6. Cardinality(T) = c
  BY <1>2, <1>4, <1>5, FS_Surjection
<1>7. Cardinality({h.index[i] : i \in 0 .. h.capacity - 1}) = h.capacity
  BY <1>6 DEF T, c, x
<1>8. h.tail \in 0 .. h.capacity - 1 /\ h.index \in [0 .. h.capacity - 1 -> 1 .. n]
  BY <1>1 DEF c, x
<1> QED BY <1>7, <1>8 DEF IsHeader

(* Every variable has its type, and every ring has as many different       *)
(* entries as its capacity says, although new rings are made of old ones.  *)
THEOREM TypeCorrect == Spec => []TypeOK
<1>1. ASSUME IInv PROVE TypeOK
  <2>1. TypeInv
    BY <1>1 DEF IInv
  <2>2. ASSUME NEW p \in Producers, NEW i \in DOMAIN headers[p]
        PROVE  IsHeader(headers[p][i], Len(entries[p]))
    <3> DEFINE h == headers[p][i]
    <3>1. h \in Header /\ Len(entries[p]) \in Nat
      BY <2>1, SeqTypes
    <3>2. HeaderOK(h, Len(entries[p]))
      BY <1>1 DEF IInv, ProducerInv, Headers
    <3> HIDE DEF h
    <3>3. h.capacity \in Nat \ {0}
      BY <3>1, HeaderType
    <3>4. IsHeader(h, Len(entries[p]))
      BY <3>1, <3>2, <3>3, RingCardinality
    <3> QED BY <3>4 DEF h
  <2>3. ASSUME NEW p \in Producers, NEW i \in DOMAIN entries[p]
        PROVE  /\ entries[p][i].key \in Words
               /\ entries[p][i].value \in Blocks \cup {NoBlock, Garbage}
    <3>1. entries[p][i] \in Entry
      BY <2>1, SeqTypes
    <3> QED BY <3>1, EntryType
  <2> QED BY <2>1, <2>2, <2>3 DEF TypeInv, TypeOK
<1> QED BY <1>1, IInvHolds, PTL

(* The assertion at concurrentqueue.h:2945 never fails: the entry the      *)
(* consumer has found is that of the block its index is in, and has it.    *)
THEOREM EntryAlwaysFound == Spec => []EntryFound
<1>1. ASSUME IInv PROVE EntryFound
  <2> SUFFICES ASSUME deq = "element"
               PROVE  /\ entries[from][entry].key = Base(index)
                      /\ entries[from][entry].value \in Blocks
    BY DEF EntryFound
  <2>1. PICK p \in Producers : from = p
    BY <1>1 DEF IInv, FromInv
  <2>2. PICK f \in Int, e \in Int : InOrder(p, f, e)
    BY <1>1 DEF IInv, ProducerInv
  <2>3. /\ entries[p][entry].key = Key(f) /\ Live(entries[p][entry])
        /\ index = At(f, taken(p))
    BY <2>1, <2>2 DEF InOrder, Looking, Ends
  <2>4. taken(p) \in 0 .. BLOCK_SIZE - 1
    BY <1>1, <2>1, Ranges DEF IInv
  <2>5. taken(p) \in 0 .. BLOCK_SIZE /\ taken(p) # BLOCK_SIZE
    BY <2>4, Sizes
  <2>6. Base(index) = Key(f)
    BY <2>3, <2>5, AtWord
  <2> QED BY <2>1, <2>3, <2>6 DEF Live
<1> QED BY <1>1, IInvHolds, PTL

(* No block is lost and none is in two places, whichever allocations fail  *)
(* and whoever takes the blocks that were given back.                      *)
THEOREM BlocksKept == Spec => []BlocksAccounted
<1>1. ASSUME IInv PROVE BlocksAccounted
  <2> SUFFICES ASSUME NEW b \in Blocks
               PROVE  Cardinality(InIndex(b))
                      + (IF b \in pool THEN 1 ELSE 0) + (IF b \in freeList THEN 1 ELSE 0)
                      + (IF b \in heap THEN 1 ELSE 0)
                      + (IF deq = "add" /\ b = block THEN 1 ELSE 0) = 1
    BY DEF BlocksAccounted
  <2>1. BlocksInv
    BY <1>1 DEF IInv
  <2>2. CASE InEntry(b)
    <3>1. PICK p \in Producers : \E n \in DOMAIN entries[p] : entries[p][n].value = b
      BY <2>2 DEF InEntry
    <3>2. PICK n \in DOMAIN entries[p] : entries[p][n].value = b
      BY <3>1
    <3>3. \A q \in Producers : \A m \in DOMAIN entries[q] :
            entries[q][m].value = b => q = p /\ m = n
      BY <2>1, <3>2 DEF BlocksInv, Live
    <3>4. InIndex(b) = {<<p, n>>}
      BY <3>2, <3>3 DEF InIndex
    <3>5. Cardinality(InIndex(b)) = 1
      BY <3>4, FS_Singleton
    <3>6. b \notin Unused /\ ~ (deq = "add" /\ b = block)
      BY <2>1, <2>2 DEF BlocksInv
    <3> QED BY <3>5, <3>6 DEF Unused
  <2>3. CASE ~ InEntry(b)
    <3>1. InIndex(b) = {}
      BY <2>3 DEF InIndex, InEntry
    <3>2. Cardinality(InIndex(b)) = 0
      BY <3>1, FS_EmptySet
    <3>3. b \in Unused \/ (deq = "add" /\ b = block)
      BY <2>1, <2>3 DEF BlocksInv
    <3>4. deq = "add" /\ b = block => b \notin Unused
      BY <2>1 DEF BlocksInv
    <3>5. ~ (b \in pool /\ b \in freeList) /\ ~ (b \in pool /\ b \in heap)
          /\ ~ (b \in heap /\ b \in freeList)
      BY <2>1 DEF BlocksInv
    <3> QED BY <3>2, <3>3, <3>4, <3>5 DEF Unused
  <2> QED BY <2>2, <2>3
<1> QED BY <1>1, IInvHolds, PTL

-----------------------------------------------------------------------------
(* A sub-queue is a queue.                                                 *)

\* The first message of p that is not taken.
First(p) == IF from = p /\ deq \notin {"clear", "add"} THEN index ELSE headIndex[p]

\* n messages of p, from index a on.
Run(p, a, n) == [i \in 1 .. n |-> <<p, Plus(a, i - 1)>>]

LEMMA UntakenIsRun ==
  ASSUME NEW p
  PROVE  Untaken(p) = Run(p, First(p), Minus(tailIndex[p], First(p)))
BY DEF Untaken, Run, First

LEMMA RunIsSeq ==
  ASSUME NEW p, NEW a \in Words, NEW n \in 0 .. IndexRange - 1
  PROVE  /\ Run(p, a, n) \in Seq({p} \X Words) /\ Len(Run(p, a, n)) = n
         /\ \A i \in 1 .. n : Run(p, a, n)[i] = <<p, Plus(a, i - 1)>>
<1>1. ASSUME NEW i \in 1 .. n PROVE Plus(a, i - 1) \in Words
  <2>1. i - 1 \in Words
    BY Sizes DEF Words
  <2> QED BY <2>1, WordArithmetic
<1>2. Run(p, a, n) \in [1 .. n -> {p} \X Words] /\ n \in Nat
  BY <1>1, Sizes DEF Run
<1>3. Run(p, a, n) \in Seq({p} \X Words) /\ Len(Run(p, a, n)) = n
  BY <1>2
<1> QED BY <1>3 DEF Run

LEMMA RunAppend ==
  ASSUME NEW p, NEW a \in Words, NEW n \in 0 .. IndexRange - 1,
         NEW k \in 0 .. IndexRange - 1, k = n + 1
  PROVE  Run(p, a, k) = Append(Run(p, a, n), <<p, Plus(a, n)>>)
<1> DEFINE s == Run(p, a, n)
           t == Run(p, a, k)
           m == <<p, Plus(a, n)>>
<1>1. /\ s \in Seq({p} \X Words) /\ Len(s) = n
      /\ \A i \in 1 .. n : s[i] = <<p, Plus(a, i - 1)>>
  BY RunIsSeq
<1>2. /\ t \in Seq({p} \X Words) /\ Len(t) = k
      /\ \A i \in 1 .. k : t[i] = <<p, Plus(a, i - 1)>>
  BY RunIsSeq
<1>3. m \in {p} \X Words
  <2>1. n \in Words
    BY DEF Words
  <2> QED BY <2>1, WordArithmetic
<1>4. t[k] = m
  <2>1. k \in 1 .. k /\ k - 1 = n
    BY Sizes
  <2> QED BY <1>2, <2>1
<1> HIDE DEF s, t, m
<1>5. /\ Append(s, m) \in Seq({p} \X Words) /\ Len(Append(s, m)) = k
      /\ \A i \in 1 .. n : Append(s, m)[i] = s[i]
      /\ Append(s, m)[k] = m
  BY <1>1, <1>3, AppendProperties
<1>6. ASSUME NEW i \in 1 .. k PROVE t[i] = Append(s, m)[i]
  <2>1. CASE i = k
    BY <1>4, <1>5, <2>1
  <2>2. CASE i # k
    <3>1. i \in 1 .. n
      BY <2>2, Sizes
    <3> QED BY <1>1, <1>2, <1>5, <3>1
  <2> QED BY <2>1, <2>2
<1>7. t = Append(s, m)
  BY <1>2, <1>5, <1>6, SeqEqual
<1> QED BY <1>7 DEF s, t, m

LEMMA RunTail ==
  ASSUME NEW p, NEW a \in Words, NEW n \in 0 .. IndexRange - 1,
         NEW k \in 0 .. IndexRange - 1, n = k + 1
  PROVE  /\ Run(p, a, n) # << >> /\ Head(Run(p, a, n)) = <<p, a>>
         /\ Tail(Run(p, a, n)) = Run(p, Plus(a, 1), k)
<1> DEFINE s == Run(p, a, n)
           t == Run(p, Plus(a, 1), k)
<1>1. IndexRange \in Nat /\ IndexRange > 1 /\ 1 \in Words /\ Plus(a, 1) \in Words
  <2>1. IndexRange \in Nat /\ IndexRange > 1 /\ 1 \in Words
    BY Sizes, SizesAssumption DEF Words
  <2> QED BY <2>1, WordArithmetic
<1>2. /\ s \in Seq({p} \X Words) /\ Len(s) = n
      /\ \A i \in 1 .. n : s[i] = <<p, Plus(a, i - 1)>>
  BY RunIsSeq
<1>3. /\ t \in Seq({p} \X Words) /\ Len(t) = k
      /\ \A i \in 1 .. k : t[i] = <<p, Plus(Plus(a, 1), i - 1)>>
  BY <1>1, RunIsSeq
<1>4. ASSUME NEW i \in 1 .. k PROVE Plus(Plus(a, 1), i - 1) = Plus(a, i)
  <2>1. i \in Words /\ i - 1 \in Words /\ a \in 0 .. IndexRange - 1
    BY <1>1 DEF Words
  <2>2. /\ Plus(a, 1) = IF a + 1 < IndexRange THEN a + 1 ELSE a + 1 - IndexRange
        /\ Plus(a, i) = IF a + i < IndexRange THEN a + i ELSE a + i - IndexRange
        /\ Plus(Plus(a, 1), i - 1) = IF Plus(a, 1) + (i - 1) < IndexRange
                                     THEN Plus(a, 1) + (i - 1)
                                     ELSE Plus(a, 1) + (i - 1) - IndexRange
    BY <1>1, <2>1, WordArithmetic
  <2> QED BY <1>1, <2>1, <2>2
<1> HIDE DEF s, t
<1>5. s # << >>
  BY <1>2, EmptySeq
<1>6. /\ Tail(s) \in Seq({p} \X Words) /\ Len(Tail(s)) = k
      /\ \A i \in 1 .. k : Tail(s)[i] = s[i + 1]
  BY <1>2, <1>5, HeadTailProperties
<1>7. ASSUME NEW i \in 1 .. k PROVE Tail(s)[i] = t[i]
  <2>1. i + 1 \in 1 .. n /\ i + 1 - 1 = i
    BY <1>1
  <2>2. s[i + 1] = <<p, Plus(a, i)>>
    BY <1>2, <2>1
  <2> QED BY <1>3, <1>4, <1>6, <2>2
<1>8. Tail(s) = t
  BY <1>3, <1>6, <1>7, SeqEqual
<1>9. Head(s) = <<p, a>>
  <2>1. a \in 0 .. IndexRange - 1 /\ 0 \in Words
    BY <1>1 DEF Words
  <2>2. Plus(a, 0) = a
    BY <1>1, <2>1, WordArithmetic
  <2>3. 1 \in 1 .. n /\ 1 - 1 = 0
    BY <1>1
  <2>4. s[1] = <<p, a>>
    BY <1>2, <2>2, <2>3
  <2> QED BY <1>2, <1>5, <2>4
<1> QED BY <1>5, <1>8, <1>9 DEF s, t

\* One index further at either end.
LEMMA Further ==
  ASSUME NEW a \in Words, NEW z \in Words
  PROVE  /\ Minus(z, a) \in 0 .. IndexRange - 1 /\ Plus(a, Minus(z, a)) = z
         /\ Plus(z, 1) \in Words /\ Plus(a, 1) \in Words
         /\ Plus(z, 1) # a => Minus(Plus(z, 1), a) = Minus(z, a) + 1
         /\ a # z => Minus(z, a) = Minus(z, Plus(a, 1)) + 1
<1> DEFINE b == Plus(a, 1)
           y == Plus(z, 1)
           n == Minus(z, a)
<1>1. /\ 1 \in Words /\ IndexRange \in Nat /\ IndexRange > 1
      /\ a \in 0 .. IndexRange - 1 /\ z \in 0 .. IndexRange - 1
  BY Sizes, SizesAssumption DEF Words
<1>2. /\ n = IF z >= a THEN z - a ELSE z - a + IndexRange
      /\ b = IF a + 1 < IndexRange THEN a + 1 ELSE a + 1 - IndexRange
      /\ y = IF z + 1 < IndexRange THEN z + 1 ELSE z + 1 - IndexRange
      /\ n \in Words /\ b \in Words /\ y \in Words
  BY <1>1, WordArithmetic
<1> HIDE DEF b, y, n
<1>3. /\ Plus(a, n) = IF a + n < IndexRange THEN a + n ELSE a + n - IndexRange
      /\ Minus(y, a) = IF y >= a THEN y - a ELSE y - a + IndexRange
      /\ Minus(z, b) = IF z >= b THEN z - b ELSE z - b + IndexRange
  BY <1>2, WordArithmetic
<1>4. Plus(a, n) = z /\ n \in 0 .. IndexRange - 1
  BY <1>1, <1>2, <1>3
<1>5. y # a => Minus(y, a) = n + 1
  BY <1>1, <1>2, <1>3
<1>6. a # z => n = Minus(z, b) + 1
  BY <1>1, <1>2, <1>3
<1> QED BY <1>2, <1>4, <1>5, <1>6 DEF b, y, n

\* Two places in the blocks from f to e - 1 have different indices.
LEMMA Apart ==
  ASSUME NEW f \in Int, NEW e \in Int, f < e, e - f <= Half,
         NEW g \in 0 .. BLOCK_SIZE, NEW r \in 0 .. BLOCK_SIZE,
         f = e - 1 => g < r, g < BLOCK_SIZE \/ r > 0
  PROVE  At(f, g) # At(e - 1, r)
<1> DEFINE B == BLOCK_SIZE
           x == f * B + g
           y == (e - 1) * B + r
           m == (e - 1 - f) * B
<1>1. /\ B \in Nat /\ B > 1 /\ Half \in Nat /\ Half >= 2 /\ IndexRange \in Nat
      /\ IndexRange = (2 * Half) * B
  BY Sizes
<1>2. At(f, g) = x % IndexRange /\ At(e - 1, r) = y % IndexRange
  BY AtMod
<1>3. x \in Int /\ y \in Int /\ m \in Int /\ y - x = m + r - g
  BY <1>1
<1>4. (Half - 1) * B + B = Half * B /\ Half * B < IndexRange /\ Half * B \in Nat
  BY <1>1
<1>5. m <= (Half - 1) * B
  BY <1>1, Scaled
<1>6. m + r - g > 0
  <2>1. CASE f = e - 1
    <3>1. m = 0
      BY <1>1, <2>1
    <3> QED BY <2>1, <3>1
  <2>2. CASE f < e - 1
    <3>1. 1 * B <= m
      BY <1>1, <2>2, Scaled
    <3> QED BY <1>1, <1>3, <3>1
  <2> QED BY <2>1, <2>2
<1> HIDE DEF x, y, m
<1>7. y - x \in 0 .. IndexRange - 1 /\ x # y
  <2>1. (Half - 1) * B \in Int
    BY <1>1
  <2> QED BY <1>1, <1>3, <1>4, <1>5, <1>6, <2>1
<1>8. ((x % IndexRange) - (y % IndexRange)) % IndexRange = IndexRange - (y - x)
  <2>1. IndexRange \in Nat \ {0}
    BY <1>1, <1>7
  <2> QED BY <1>3, <1>7, <2>1, MinusMod
<1>9. ASSUME x % IndexRange = y % IndexRange PROVE FALSE
  <2>1. IndexRange \in Nat \ {0}
    BY <1>1, <1>7
  <2>2. x % IndexRange \in Int
    BY <1>3, <2>1, DivMod
  <2>3. (x % IndexRange) - (y % IndexRange) = 0 /\ 0 % IndexRange = 0
    BY <1>9, <2>1, <2>2
  <2>4. IndexRange - (y - x) = 0
    BY <1>8, <2>3
  <2> QED BY <1>7, <2>1, <2>4
<1> QED BY <1>2, <1>9

LEMMA FirstPlace ==
  ASSUME IInv, NEW p \in Producers, NEW f \in Int, NEW e \in Int, InOrder(p, f, e)
  PROVE  First(p) = At(f, taken(p)) /\ First(p) \in Words /\ tailIndex[p] \in Words
<1>1. Ends(p, f, e) /\ TypeInv /\ FromInv
  BY DEF InOrder, IInv
<1>2. CASE from = p /\ deq # "clear"
  BY <1>1, <1>2, NoMessageAssumption DEF First, FromInv, Ends, TypeInv
<1>3. CASE from # p \/ deq = "clear"
  BY <1>1, <1>3 DEF First, Ends, claimed, TypeInv
<1> QED BY <1>2, <1>3

\* Steps that neither publish nor take a message.
LEMMA SameQueues ==
  ASSUME tailIndex' = tailIndex, element' = element,
         \A q \in Producers : First(q)' = First(q)
  PROVE  UNCHANGED MQ!qvars
<1>1. \A q \in Producers : Untaken(q)' = Untaken(q)
  BY DEF Untaken, First
<1> QED BY <1>1 DEF MQ!qvars

LEMMA StoreRefines ==
  ASSUME IInv, NEW p \in Producers, Store(p)
  PROVE  MQ!Enqueue(p, <<p, tailIndex[p]>>)
<1> DEFINE B == BLOCK_SIZE
           queue == [q \in Producers |-> Untaken(q)]
<1>1. /\ tailIndex' = [tailIndex EXCEPT ![p] = Plus(@, 1)]
      /\ UNCHANGED <<headIndex, deq, from, index, element>>
  BY DEF Store, consumer, locals
<1>2. PICK f \in Int, e \in Int : InOrder(p, f, e)
  BY DEF IInv, ProducerInv
<1>3. TypeInv /\ Ends(p, f, e)
  BY <1>2 DEF IInv, InOrder
<1>4. PICK a \in Words, z \in Words : a = First(p) /\ z = tailIndex[p]
  BY <1>2, FirstPlace
<1>5. /\ tailIndex'[p] = Plus(z, 1)
      /\ \A q \in Producers \ {p} : tailIndex'[q] = tailIndex[q]
      /\ \A q \in Producers : First(q)' = First(q)
  BY <1>1, <1>3, <1>4 DEF TypeInv, First
<1>6. Plus(z, 1) # a
  <2>1. /\ f < e /\ filled(p) \in 0 .. B - 1
        /\ tailIndex'[p] = At(e - 1, filled(p) + 1)
    BY <1>2, AtStore
  <2>2. a = At(f, taken(p))
    BY <1>2, <1>4, FirstPlace
  <2>3. taken(p) \in 0 .. B /\ claimed(p) \in 0 .. B /\ taken(p) <= claimed(p)
    BY <1>3, Ranges, Sizes DEF claimed
  <2>4. e - f <= Half /\ (f = e - 1 => claimed(p) <= filled(p))
    BY <1>3, Sizes DEF Ends, Near
  <2>5. PICK r \in 0 .. B : r = filled(p) + 1
    BY <2>1, Sizes
  <2>6. r > 0 /\ (f = e - 1 => taken(p) < r)
    BY <2>1, <2>3, <2>4, <2>5, Sizes
  <2>7. At(f, taken(p)) # At(e - 1, r)
    BY <2>1, <2>3, <2>4, <2>6, Apart
  <2> QED BY <1>5, <2>1, <2>2, <2>5, <2>7
<1>7. Untaken(p)' = Append(Untaken(p), <<p, z>>)
  <2>1. PICK n \in 0 .. IndexRange - 1, k \in 0 .. IndexRange - 1 :
          n = Minus(z, a) /\ k = Minus(Plus(z, 1), a)
    BY Further
  <2>2. k = n + 1 /\ Plus(a, n) = z
    BY <1>6, <2>1, Further
  <2>3. Run(p, a, k) = Append(Run(p, a, n), <<p, z>>)
    BY <2>2, RunAppend
  <2>4. Untaken(p) = Run(p, a, n)
    BY <1>4, <2>1, UntakenIsRun
  <2>5. Untaken(p)' = Run(p, a, k)
    <3>1. tailIndex'[p] = Plus(z, 1) /\ First(p)' = a
      BY <1>4, <1>5
    <3>2. Untaken(p)' = Run(p, First(p)', Minus(tailIndex'[p], First(p)'))
      BY DEF Untaken, Run, First
    <3> QED BY <2>1, <3>1, <3>2
  <2> QED BY <2>3, <2>4, <2>5
<1>8. \A q \in Producers \ {p} : Untaken(q)' = Untaken(q)
  BY <1>5 DEF Untaken, First
<1>9. queue' = [queue EXCEPT ![p] = Append(@, <<p, z>>)]
  <2> DEFINE m == <<p, z>>
  <2> HIDE DEF m
  <2>1. /\ \A q \in Producers \ {p} : Untaken(q)' = Untaken(q)
        /\ Untaken(p)' = Append(Untaken(p), m)
    BY <1>7, <1>8 DEF m
  <2>2. queue' = [queue EXCEPT ![p] = Append(@, m)]
    BY <2>1
  <2> QED BY <2>2 DEF m
<1> QED BY <1>1, <1>4, <1>9 DEF MQ!Enqueue

\* The message the consumer takes is the first of those that are left.
LEMMA Oldest ==
  ASSUME IInv, deq = "element", NEW p \in Producers, from = p,
         NEW f \in Int, NEW e \in Int, InOrder(p, f, e)
  PROVE  /\ contents[entries[from][entry].value][index % BLOCK_SIZE] = <<p, index>>
         /\ index # tailIndex[p] /\ headIndex[p] = Plus(index, 1)
<1> DEFINE B == BLOCK_SIZE
           g == taken(p)
<1>1. TypeInv /\ Ends(p, f, e)
  BY DEF IInv, InOrder
<1>2. /\ B \in Nat /\ g \in 0 .. B - 1 /\ claimed(p) = g + 1 /\ filled(p) \in 0 .. B
      /\ g = index % B
  BY <1>1, Ranges, Sizes DEF taken
<1>3. /\ f < e /\ index = At(f, g) /\ tailIndex[p] = At(e - 1, filled(p))
      /\ headIndex[p] = At(f, g + 1) /\ (f = e - 1 => g + 1 <= filled(p))
  BY <1>1, <1>2 DEF Ends
<1>4. Holds(p, f, e, f, entries[p][entry].value)
  BY OldestEntry
<1>5. e - f <= Half
  BY <1>1, Sizes DEF Ends, Near
<1>6. contents[entries[p][entry].value][g] = <<p, Key(f) + g>>
  <2>1. f = e - 1 => g < filled(p)
    BY <1>2, <1>3
  <2>2. g \in Slots /\ g >= taken(p)
    BY <1>2 DEF Slots
  <2> QED BY <1>4, <2>1, <2>2 DEF Holds
<1> HIDE DEF g
<1>7. index = Key(f) + g /\ headIndex[p] = Plus(index, 1)
  <2>1. g # B
    BY <1>2
  <2> QED BY <1>2, <1>3, <2>1, AtNext DEF At
<1>8. index # tailIndex[p]
  <2>1. g \in 0 .. B /\ g < B /\ (f = e - 1 => g < filled(p))
    BY <1>2, <1>3
  <2> QED BY <1>2, <1>3, <1>5, <2>1, Apart
<1> QED BY <1>2, <1>6, <1>7, <1>8

LEMMA TakeRefines ==
  ASSUME IInv, TakeElement
  PROVE  \E p \in Producers : MQ!Dequeue(p)
<1> DEFINE queue == [q \in Producers |-> Untaken(q)]
<1>1. /\ deq = "element" /\ UNCHANGED <<tailIndex, headIndex>>
      /\ element' = contents[entries[from][entry].value][index % BLOCK_SIZE]
      /\ \/ deq' = "clear"
         \/ deq' = "idle" /\ from' = NoMessage
  BY DEF TakeElement, producerSide
<1>2. PICK p \in Producers : from = p
  BY <1>1 DEF IInv, FromInv
<1>3. PICK f \in Int, e \in Int : InOrder(p, f, e)
  BY DEF IInv, ProducerInv
<1>4. /\ element' = <<p, index>> /\ index # tailIndex[p] /\ headIndex[p] = Plus(index, 1)
  BY <1>1, <1>2, <1>3, Oldest
<1>5. from' = p \/ from' = NoMessage
  BY <1>1, <1>2 DEF TakeElement
<1>6. PICK a \in Words, z \in Words : a = index /\ z = tailIndex[p]
  BY <1>2 DEF IInv, TypeInv
<1>7. /\ First(p) = a /\ First(p)' = Plus(a, 1)
      /\ \A q \in Producers \ {p} : First(q)' = First(q)
  BY <1>1, <1>2, <1>4, <1>5, <1>6, NoMessageAssumption DEF First
<1>8. /\ Untaken(p) # << >> /\ Head(Untaken(p)) = <<p, a>>
      /\ Untaken(p)' = Tail(Untaken(p))
  <2>1. Plus(a, 1) \in Words /\ Minus(z, a) \in 0 .. IndexRange - 1
    BY Further
  <2>2. PICK n \in 0 .. IndexRange - 1, k \in 0 .. IndexRange - 1 :
          n = Minus(z, a) /\ k = Minus(z, Plus(a, 1))
    BY <2>1, Further
  <2>3. n = k + 1
    BY <1>4, <1>6, <2>2, Further
  <2>4. /\ Run(p, a, n) # << >> /\ Head(Run(p, a, n)) = <<p, a>>
        /\ Tail(Run(p, a, n)) = Run(p, Plus(a, 1), k)
    BY <2>3, RunTail
  <2>5. Untaken(p) = Run(p, a, n)
    BY <1>6, <1>7, <2>2, UntakenIsRun
  <2>6. Untaken(p)' = Run(p, Plus(a, 1), k)
    <3>1. tailIndex'[p] = z /\ First(p)' = Plus(a, 1)
      BY <1>1, <1>6, <1>7
    <3>2. Untaken(p)' = Run(p, First(p)', Minus(tailIndex'[p], First(p)'))
      BY DEF Untaken, Run, First
    <3> QED BY <2>2, <3>1, <3>2
  <2> QED BY <2>4, <2>5, <2>6
<1>9. \A q \in Producers \ {p} : Untaken(q)' = Untaken(q)
  BY <1>1, <1>7 DEF Untaken, First
<1>10. queue' = [queue EXCEPT ![p] = Tail(@)]
  BY <1>8, <1>9
<1>11. MQ!Dequeue(p)
  BY <1>4, <1>6, <1>8, <1>10 DEF MQ!Dequeue
<1> QED BY <1>11

LEMMA StepRefines ==
  ASSUME IInv, [Next]_vars
  PROVE  [\E p \in Producers :
            MQ!Dequeue(p) \/ MQ!Enqueue(p, <<p, tailIndex[p]>>)]_(MQ!qvars)
<1>1. ASSUME UNCHANGED <<tailIndex, headIndex, deq, from, index, element>>
      PROVE  UNCHANGED MQ!qvars
  BY <1>1, SameQueues DEF First
<1>2. ASSUME NEW p \in Producers, Enqueue(p), ~ Store(p) PROVE UNCHANGED MQ!qvars
  <2>1. UNCHANGED <<tailIndex, headIndex, deq, from, index, element>>
    BY <1>2 DEF Enqueue, InTailBlock, StartBlock, Refused, StoreKey, StoreTail,
         NewBlockIndex, NewBlockIndexFails, RequisitionBlock, NoneFree, Allocate,
         RequisitionFails, vars, indices, consumer, locals
  <2> QED BY <1>1, <2>1
<1>3. ASSUME NEW p \in Producers, Claim(p) PROVE UNCHANGED MQ!qvars
  <2>1. /\ deq = "idle" /\ deq' = "index" /\ from' = p /\ index' = headIndex[p]
        /\ headIndex' = [headIndex EXCEPT ![p] = Plus(@, 1)]
        /\ tailIndex' = tailIndex /\ element' = element
    BY <1>3 DEF Claim, producerSide
  <2>2. from = NoMessage /\ headIndex \in [Producers -> Words]
    BY <2>1 DEF IInv, FromInv, TypeInv
  <2>3. ASSUME NEW q \in Producers PROVE First(q)' = First(q)
    BY <2>1, <2>2, NoMessageAssumption DEF First
  <2> QED BY <2>1, <2>3, SameQueues
<1>4. CASE LoadBlockIndex \/ LoadTail \/ FindEntry
  <2>1. /\ UNCHANGED <<tailIndex, headIndex, from, index, element>>
        /\ deq \notin {"clear", "add"} /\ deq' \notin {"clear", "add"}
    BY <1>4 DEF LoadBlockIndex, LoadTail, FindEntry, producerSide
  <2>2. \A q \in Producers : First(q)' = First(q)
    BY <2>1 DEF First
  <2> QED BY <2>1, <2>2, SameQueues
<1>5. CASE ClearEntry \/ AddToFreeList
  <2>1. /\ UNCHANGED <<tailIndex, headIndex, element>>
        /\ deq \in {"clear", "add"}
        /\ deq' = "add" \/ (deq' = "idle" /\ deq = "add" /\ from' = from)
    BY <1>5 DEF ClearEntry, AddToFreeList, producerSide
  <2>2. ASSUME NEW q \in Producers PROVE First(q)' = First(q)
    BY <2>1, NoMessageAssumption DEF First, IInv, FromInv
  <2> QED BY <2>1, <2>2, SameQueues
<1>6. CASE UNCHANGED vars
  BY <1>1, <1>6 DEF vars, indices, consumer, locals
<1>7. ASSUME NEW p \in Producers, Store(p)
      PROVE  MQ!Enqueue(p, <<p, tailIndex[p]>>)
  BY <1>7, StoreRefines
<1>8. CASE TakeElement
  BY <1>8, TakeRefines
<1> QED BY <1>2, <1>3, <1>4, <1>5, <1>6, <1>7, <1>8 DEF Next, Dequeue

(* What the consumer takes out of the block it finds is the oldest message *)
(* of its producer, whatever the producer does to its ring meanwhile and   *)
(* however often the indices have wrapped around.                          *)
THEOREM QueueRefinement == Spec => ImplementsQueue
<1>1. Init => MQ!Init
  <2> SUFFICES ASSUME Init PROVE MQ!Init
    OBVIOUS
  <2>1. ASSUME NEW p \in Producers PROVE Untaken(p) = << >>
    <3>1. tailIndex[p] = 0 /\ First(p) = 0
      BY DEF Init, NoneTaken, First
    <3>2. Minus(0, 0) = 0
      BY Sizes DEF Minus
    <3> QED BY <3>1, <3>2 DEF Untaken, First
  <2> QED BY <2>1 DEF Init, MQ!Init
<1>2. IInv /\ [Next]_vars =>
        [\E p \in Producers :
           MQ!Dequeue(p) \/ MQ!Enqueue(p, <<p, tailIndex[p]>>)]_(MQ!qvars)
  BY StepRefines
<1> QED BY <1>1, <1>2, IInvHolds, PTL DEF Spec, ImplementsQueue

=============================================================================
