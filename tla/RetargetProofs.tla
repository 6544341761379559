---------------------------- MODULE RetargetProofs ----------------------------
(***************************************************************************)
(* What Retarget says of difficulties, for the widths of the program and   *)
(* not only for the small ones that TLC tries: any even size of a byte,    *)
(* any number of exponents, any interval and any clock.  It ends with the  *)
(* comparison of targets as the bytes of a hash (FastIsHarder).            *)
(***************************************************************************)
EXTENDS Retarget, TLAPS

-----------------------------------------------------------------------------
(* Arithmetic.                                                             *)

\* A quotient times its divisor.
LEMMA Quotient ==
    ASSUME NEW a \in Nat, NEW b \in Nat \ {0}
    PROVE  a \div b \in Nat /\ b * (a \div b) <= a
OBVIOUS

\* A quotient is at least what fits into the dividend.
LEMMA QuotientAtLeast ==
    ASSUME NEW a \in Nat, NEW b \in Nat \ {0}, NEW q \in Nat, b * q <= a
    PROVE  q <= a \div b
OBVIOUS

\* A quotient with its remainder given.
LEMMA QuotientIs ==
    ASSUME NEW q \in Nat, NEW b \in Nat \ {0}, NEW r \in 0..(b - 1)
    PROVE  (q * b + r) \div b = q
OBVIOUS

\* A product grows with its factors.
LEMMA ProductGrows ==
    ASSUME NEW a \in Nat, NEW b \in Nat, NEW c \in Nat, NEW d \in Nat, a <= b, c <= d
    PROVE  a * c \in Nat /\ a * c <= b * d
<1>1. a * c <= b * c
  OBVIOUS
<1>2. b * c <= b * d
  OBVIOUS
<1> QED
  BY <1>1, <1>2

\* A multiple of the divisor.
LEMMA Multiple ==
    ASSUME NEW a \in Nat, NEW b \in Nat \ {0}, a % b = 0
    PROVE  \E k \in Nat : a = k * b
<1>1. a \div b \in Nat
  OBVIOUS
<1>2. a = (a \div b) * b
  OBVIOUS
<1> QED
  BY <1>1, <1>2

\* A remainder is below its divisor.
LEMMA Remainder ==
    ASSUME NEW a \in Int, NEW b \in Nat \ {0}
    PROVE  a % b \in 0..(b - 1)
OBVIOUS

-----------------------------------------------------------------------------
(* The compact word and the window.                                        *)

\* A word is a number of exponents, each with two halves of mantissas of which
\* the lower one is in use.
LEMMA Units ==
    /\ MANTISSA_UNIT \in Nat \ {0} /\ MANTISSA_MAX \in Nat
    /\ MANTISSA_UNIT = 2 * (MANTISSA_MAX + 1)
    /\ \E k \in Nat : WORD = k * MANTISSA_UNIT
<1>1. BYTE * BYTE \in Nat \ {0} /\ BYTE % 2 = 0
  BY DifficultyConstants
<1>2. MANTISSA_UNIT \in Nat \ {0}
  BY <1>1, DifficultyConstants DEF MANTISSA_UNIT
<1>3. PICK h \in Nat : BYTE = h * 2
  <2>1. BYTE \in Nat /\ BYTE % 2 = 0
    BY DifficultyConstants
  <2>2. BYTE \div 2 \in Nat /\ BYTE = (BYTE \div 2) * 2
    BY <2>1
  <2> QED
    BY <2>2
<1>4. MANTISSA_UNIT = 2 * (BYTE * BYTE * h)
  <2>1. \A x \in Nat : x * (h * 2) = 2 * (x * h)
    BY <1>3
  <2> QED
    BY <1>1, <1>3, <2>1 DEF MANTISSA_UNIT
<1> DEFINE m == BYTE * BYTE * h
<1>5. m \in Nat
  BY <1>1, <1>3
<1> HIDE DEF m
<1>6. m > 0 /\ MANTISSA_UNIT = 2 * m
  BY <1>2, <1>4, <1>5 DEF m
<1>7. MANTISSA_MAX = m - 1
  BY <1>5, <1>6 DEF MANTISSA_MAX
<1>8. \E k \in Nat : WORD = k * MANTISSA_UNIT
  BY <1>2, DifficultyConstants, Multiple DEF MANTISSA_UNIT
<1> QED
  BY <1>2, <1>5, <1>6, <1>7, <1>8

\* The exponent of a word that fits leaves room for any mantissa.
LEMMA WordParts ==
    ASSUME NEW b \in 0..(WORD - 1)
    PROVE  /\ Exponent(b) \in Nat
           /\ Exponent(b) * MANTISSA_UNIT \in Nat
           /\ Exponent(b) * MANTISSA_UNIT <= b
           /\ Exponent(b) * MANTISSA_UNIT + MANTISSA_UNIT <= WORD
<1> DEFINE u == MANTISSA_UNIT
           e == Exponent(b)
<1>1. PICK k \in Nat : WORD = k * u
  BY Units
<1>2. u \in Nat \ {0} /\ WORD \in Nat /\ b \in Nat /\ b < WORD
  BY Units, DifficultyConstants
<1>3. e \in Nat /\ u * e <= b
  BY <1>2, Quotient DEF Exponent
<1> HIDE DEF e, u
<1>4. e < k
  <2> SUFFICES ASSUME k <= e PROVE FALSE
    BY <1>1, <1>3
  <2>1. k * u <= e * u
    BY <1>2, <1>3, ProductGrows
  <2>2. e * u = u * e
    BY <1>2, <1>3
  <2>3. e * u \in Nat
    BY <1>2, <1>3
  <2> QED
    BY <1>1, <1>2, <1>3, <2>1, <2>2, <2>3
<1>5. (e + 1) * u <= k * u
  BY <1>2, <1>3, <1>4, ProductGrows
<1>6. (e + 1) * u = e * u + u /\ e * u = u * e /\ e * u \in Nat
  BY <1>2, <1>3
<1> QED
  BY <1>1, <1>2, <1>3, <1>5, <1>6 DEF e, u

\* A window has a length that a quarter divides.
LEMMA Window ==
    /\ WindowTime = TargetTime(DIFFICULTY_INTERVAL)
    /\ WindowTime \in Nat \ {0}
    /\ WindowTime \div 4 \in Nat \ {0} /\ WindowTime = 4 * (WindowTime \div 4)
<1> DEFINE n == DIFFICULTY_INTERVAL - 1
           t == BLOCK_TIME_TARGET
<1>1. n \in Nat \ {0} /\ t \in Nat \ {0} /\ t % 4 = 0
  BY RetargetConstants, DifficultyConstants
<1>2. PICK q \in Nat : t = q * 4
  BY <1>1, Multiple
<1> HIDE DEF n, t
<1>3. t * n = 4 * (q * n) /\ q > 0
  BY <1>1, <1>2
<1> DEFINE w == t * n
           p == q * n
<1>4. p \in Nat \ {0}
  BY <1>1, <1>2, <1>3
<1> HIDE DEF p, w
<1>5. w = 4 * p
  BY <1>3 DEF p, w
<1>6. w \in Nat \ {0} /\ w \div 4 = p
  BY <1>4, <1>5
<1> QED
  BY <1>4, <1>5, <1>6 DEF WindowTime, TargetTime, n, t, w

\* getNextDifficulty keeps the exponent and takes a mantissa that fits.
LEMMA NextKeepsExponent ==
    ASSUME NEW b \in 0..(WORD - 1), NEW f \in Nat, NEW l \in Nat
    PROVE  LET next == GetNextDifficulty(b, l, f, DIFFICULTY_INTERVAL)
           IN  /\ f >= l => next = b
               /\ f < l => \E m \in 0..MANTISSA_MAX : next = Exponent(b) * MANTISSA_UNIT + m
               /\ next \in 0..(WORD - 1)
               /\ f < l => Exponent(next) = Exponent(b)
<1> DEFINE next == GetNextDifficulty(b, l, f, DIFFICULTY_INTERVAL)
           time == TargetTime(DIFFICULTY_INTERVAL)
           elapsed == AtMost(time * 4, AtLeast(time \div 4, l - f))
           product == (b * elapsed) \div time
<1>1. f >= l => next = b
  BY DEF GetNextDifficulty
<1>2. time \in Nat \ {0} /\ time \div 4 \in Nat
  BY Window
<1> HIDE DEF time
<1>3. elapsed \in Nat
  BY <1>2 DEF AtMost, AtLeast
<1> HIDE DEF elapsed
<1>4. b * elapsed \in Nat
  BY <1>3
<1>5. product \in Nat
  BY <1>2, <1>4, Quotient
<1> HIDE DEF product
<1>6. DIFFICULTY_INTERVAL # 0
  BY RetargetConstants
<1>7. f < l => next = Exponent(b) * MANTISSA_UNIT + AtMost(MANTISSA_MAX, product)
  BY <1>6 DEF GetNextDifficulty, product, elapsed, time
<1>8. AtMost(MANTISSA_MAX, product) \in 0..MANTISSA_MAX
  BY <1>5, Units DEF AtMost
<1> HIDE DEF next
<1>9. f < l => \E m \in 0..MANTISSA_MAX : next = Exponent(b) * MANTISSA_UNIT + m
  BY <1>7, <1>8
<1>10. ASSUME NEW m \in 0..MANTISSA_MAX, next = Exponent(b) * MANTISSA_UNIT + m
       PROVE  next \in 0..(WORD - 1) /\ Exponent(next) = Exponent(b)
  <2>1. m \in 0..(MANTISSA_UNIT - 1) /\ MANTISSA_UNIT \in Nat \ {0} /\ Exponent(b) \in Nat
    BY Units, WordParts
  <2>2. next \in 0..(WORD - 1)
    <3> DEFINE e == Exponent(b) * MANTISSA_UNIT
    <3>1. e \in Nat /\ e + MANTISSA_UNIT <= WORD /\ next = e + m
      BY <1>10, WordParts
    <3> HIDE DEF e
    <3> QED
      BY <2>1, <3>1, DifficultyConstants
  <2>3. next \div MANTISSA_UNIT = Exponent(b)
    BY <1>10, <2>1, QuotientIs
  <2> QED
    BY <2>2, <2>3 DEF Exponent
<1> QED
  BY <1>1, <1>9, <1>10 DEF next

\* A difference of times that is not negative does not wrap; one that is becomes
\* longer than eight windows.
LEMMA Elapsed ==
    ASSUME NEW f \in Clock \cup {GenesisTime}, NEW l \in Clock \cup {GenesisTime}
    PROVE  /\ f \in Nat /\ l \in Nat
           /\ f <= l => (l - f) % LONG = l - f
           /\ l < f => (l - f) % LONG \in Nat /\ (l - f) % LONG > 8 * WindowTime
<1>1. f \in Nat /\ l \in Nat /\ LONG \in Nat \ {0} /\ WindowTime \in Nat
  BY RetargetConstants, DifficultyConstants, Window
<1>2. f + 8 * WindowTime < LONG /\ l + 8 * WindowTime < LONG
  BY TimesFit, Window
<1>3. f <= l => (l - f) % LONG = l - f
  <2>1. f <= l => l - f \in 0..(LONG - 1)
    BY <1>1, <1>2
  <2>2. \A d \in 0..(LONG - 1) : d % LONG = d
    BY <1>1
  <2> QED
    BY <2>1, <2>2
<1>4. l < f => (l - f) % LONG = LONG - (f - l)
  <2>1. \A d \in 1..(LONG - 1) : (-d) % LONG = LONG - d
    BY <1>1
  <2>2. l < f => f - l \in 1..(LONG - 1) /\ l - f = -(f - l)
    BY <1>1, <1>2
  <2> QED
    BY <2>1, <2>2
<1>5. l < f => LONG - (f - l) \in Nat /\ LONG - (f - l) > 8 * WindowTime
  BY <1>1, <1>2
<1> QED
  BY <1>1, <1>3, <1>4, <1>5

\* Multiplied or halved, a target stays in its word.
LEMMA AdaptiveFits ==
    ASSUME NEW b \in 0..(WORD - 1), NEW f \in Nat, NEW l \in Nat, NEW h \in Nat
    PROVE  GetAdaptiveNextDifficulty(b, l, f, DIFFICULTY_INTERVAL, h) \in 0..(WORD - 1)
<1> DEFINE time == TargetTime(DIFFICULTY_INTERVAL)
           elapsed == (l - f) % LONG
           next == GetNextDifficulty(b, l, f, DIFFICULTY_INTERVAL)
<1>1. next \in 0..(WORD - 1)
  BY NextKeepsExponent
<1>2. WORD \in Nat \ {0} /\ EARLY_PHASE \in Nat
  BY DifficultyConstants
<1> HIDE DEF next, time, elapsed
<1>3. \A x \in 0..(WORD - 1) : /\ x \div 4 \in 0..(WORD - 1) /\ x \div 2 \in 0..(WORD - 1)
                               /\ (x * 4) % WORD \in 0..(WORD - 1)
                               /\ (x * 2) % WORD \in 0..(WORD - 1)
  BY <1>2
<1>4. \A x \in 0..(WORD - 1) : Emergency(x, elapsed, time) \in 0..(WORD - 1)
  BY <1>3 DEF Emergency, AtLeast
<1>5. \A x \in 0..(WORD - 1) : EarlyGrowth(x, elapsed, time, h) \in 0..(WORD - 1)
  BY <1>3 DEF EarlyGrowth
<1>6. EarlyGrowth(Emergency(next, elapsed, time), elapsed, time, h) \in 0..(WORD - 1)
  BY <1>1, <1>4, <1>5
<1> QED
  BY <1>6 DEF GetAdaptiveNextDifficulty, next, time, elapsed

-----------------------------------------------------------------------------
(* The chain of windows.                                                   *)

\* A window starts at a multiple of the interval, its timestamps are from the
\* clock.
WindowInv ==
    /\ bits \in 0..(WORD - 1)
    /\ height \in Nat
    /\ \E k \in Nat : height = k * DIFFICULTY_INTERVAL
    /\ first \in Clock \cup {GenesisTime}
    /\ last \in Clock \cup {GenesisTime}

\* At genesis.
LEMMA InitWindow == Init => WindowInv
<1> SUFFICES ASSUME Init PROVE WindowInv
  OBVIOUS
<1>1. height = 0 * DIFFICULTY_INTERVAL
  BY RetargetConstants DEF Init
<1> QED
  BY <1>1 DEF Init, WindowInv

\* From window to window.
LEMMA StepWindow == WindowInv /\ [NextWindow]_vars => WindowInv'
<1> SUFFICES ASSUME WindowInv, [NextWindow]_vars PROVE WindowInv'
  OBVIOUS
<1>1. CASE NextWindow
  <2>1. /\ first' \in Clock \cup {GenesisTime} /\ last' \in Clock \cup {GenesisTime}
        /\ height' = height + DIFFICULTY_INTERVAL
        /\ bits' = GetAdaptiveNextDifficulty(bits, last', first', DIFFICULTY_INTERVAL, height')
    BY <1>1 DEF NextWindow
  <2>2. first' \in Nat /\ last' \in Nat
    BY <2>1, Elapsed
  <2>3. PICK k \in Nat : height = k * DIFFICULTY_INTERVAL
    BY DEF WindowInv
  <2>4. height' \in Nat /\ height' = (k + 1) * DIFFICULTY_INTERVAL
    BY <2>1, <2>3, RetargetConstants
  <2>5. bits' \in 0..(WORD - 1)
    BY <2>1, <2>2, <2>4, AdaptiveFits DEF WindowInv
  <2> QED
    BY <2>1, <2>4, <2>5 DEF WindowInv
<1>2. CASE UNCHANGED vars
  BY <1>2 DEF vars, WindowInv
<1> QED
  BY <1>1, <1>2

\* TypeOK: the difficulty never leaves its 32 bits, whatever times the windows
\* took, although it is multiplied by up to eight.
THEOREM TargetsFit == Spec => []TypeOK
<1>1. WindowInv => TypeOK
  <2> SUFFICES ASSUME WindowInv PROVE TypeOK
    OBVIOUS
  <2>1. first \in Nat /\ last \in Nat
    BY Elapsed DEF WindowInv
  <2>2. PICK k \in Nat : height = k * DIFFICULTY_INTERVAL
    BY DEF WindowInv
  <2>3. height % DIFFICULTY_INTERVAL = 0
    <3> DEFINE i == DIFFICULTY_INTERVAL
    <3>1. i \in Nat \ {0} /\ height = k * i
      BY <2>2, RetargetConstants
    <3> HIDE DEF i
    <3>2. (k * i) % i = 0
      BY <3>1
    <3> QED
      BY <3>1, <3>2 DEF i
  <2> QED
    BY <2>1, <2>3 DEF WindowInv, TypeOK
<1> QED
  BY <1>1, InitWindow, StepWindow, PTL DEF Spec

\* MantissaIgnoresTime: for exponents from two on, the time that a window took
\* has no influence on the mantissa, which becomes the largest one.
THEOREM MantissaSaturates == Spec => []MantissaIgnoresTime
<1>1. ASSUME NEW b \in 0..(WORD - 1), Exponent(b) >= 2,
             NEW f \in Clock, NEW l \in Clock, f < l
      PROVE  GetNextDifficulty(b, l, f, DIFFICULTY_INTERVAL)
                = Exponent(b) * MANTISSA_UNIT + MANTISSA_MAX
  <2> DEFINE time == TargetTime(DIFFICULTY_INTERVAL)
             quarter == time \div 4
             elapsed == AtMost(time * 4, AtLeast(quarter, l - f))
             u == MANTISSA_UNIT
  <2>1. time \in Nat \ {0} /\ quarter \in Nat \ {0} /\ time = 4 * quarter
    BY Window
  <2>2. f \in Nat /\ l \in Nat
    BY <1>1, RetargetConstants
  <2>3. u \in Nat \ {0} /\ u = 2 * (MANTISSA_MAX + 1) /\ MANTISSA_MAX \in Nat
    BY Units
  <2>4. Exponent(b) \in Nat /\ Exponent(b) * u <= b
    BY WordParts
  <2> HIDE DEF time, quarter, u
  <2>5. elapsed \in Nat /\ quarter <= elapsed
    BY <2>1, <2>2 DEF AtMost, AtLeast
  <2> HIDE DEF elapsed
  <2>6. 2 * u <= b
    <3>1. 2 * u <= Exponent(b) * u
      BY <1>1, <2>3, <2>4, ProductGrows
    <3>2. Exponent(b) * u \in Nat
      BY <2>3, <2>4
    <3> QED
      BY <2>3, <2>4, <3>1, <3>2
  <2>7. b * elapsed \in Nat /\ (2 * u) * quarter <= b * elapsed
    BY <2>1, <2>3, <2>5, <2>6, ProductGrows
  <2>8. (2 * u) * quarter = time * (MANTISSA_MAX + 1)
    BY <2>1, <2>3
  <2> DEFINE product == (b * elapsed) \div time
  <2>9. product \in Nat /\ MANTISSA_MAX + 1 <= product
    BY <2>1, <2>3, <2>7, <2>8, Quotient, QuotientAtLeast
  <2> HIDE DEF product
  <2>10. AtMost(MANTISSA_MAX, product) = MANTISSA_MAX
    BY <2>3, <2>9 DEF AtMost
  <2>11. GetNextDifficulty(b, l, f, DIFFICULTY_INTERVAL)
            = Exponent(b) * u + AtMost(MANTISSA_MAX, product)
    <3>1. DIFFICULTY_INTERVAL # 0 /\ ~(f >= l)
      BY <1>1, <2>2, RetargetConstants
    <3> QED
      BY <3>1 DEF GetNextDifficulty, product, elapsed, quarter, time, u
  <2> QED
    BY <2>10, <2>11 DEF u
<1>2. WindowInv => MantissaIgnoresTime
  BY <1>1 DEF WindowInv, MantissaIgnoresTime
<1> QED
  BY <1>2, InitWindow, StepWindow, PTL DEF Spec

\* OnTimeKeepsExponent: after a window between half and twice its time the next
\* one has the exponent of the last.
THEOREM OnTimeWindows == Spec => OnTimeKeepsExponent
<1>1. ASSUME WindowInv, NextWindow, OnTime PROVE Exponent(bits') = Exponent(bits)
  <2> DEFINE time == TargetTime(DIFFICULTY_INTERVAL)
             elapsed == (last' - first') % LONG
             next == GetNextDifficulty(bits, last', first', DIFFICULTY_INTERVAL)
  <2>1. /\ first' \in Clock \cup {GenesisTime} /\ last' \in Clock \cup {GenesisTime}
        /\ bits \in 0..(WORD - 1)
        /\ bits' = EarlyGrowth(Emergency(next, elapsed, time), elapsed, time, height')
    BY <1>1 DEF NextWindow, WindowInv, GetAdaptiveNextDifficulty
  <2>2. first' < last' /\ last' - first' \in (time \div 2)..(time * 2)
    BY <1>1, Window DEF OnTime
  <2>3. first' \in Nat /\ last' \in Nat /\ elapsed = last' - first'
    BY <2>1, <2>2, Elapsed
  <2>4. time \in Nat \ {0}
    BY Window
  <2>5. Exponent(next) = Exponent(bits)
    BY <2>1, <2>2, <2>3, NextKeepsExponent
  <2> HIDE DEF time, elapsed, next
  <2>6. /\ elapsed \in Nat
        /\ ~(elapsed < time \div 2) /\ ~(elapsed > time * 2)
        /\ ~(elapsed < time \div 8) /\ ~(elapsed > time * 8)
    <3>1. elapsed \in (time \div 2)..(time * 2) /\ elapsed \in Nat
      <4>1. \A x, y \in Nat : x < y => y - x \in Nat
        OBVIOUS
      <4>2. last' - first' \in Nat
        BY <2>2, <2>3, <4>1
      <4> QED
        BY <2>2, <2>3, <4>2
    <3>2. /\ time \div 2 \in Nat /\ time \div 8 \in Nat /\ time \div 8 <= time \div 2
          /\ time * 2 <= time * 8
      BY <2>4
    <3> QED
      BY <2>4, <3>1, <3>2
  <2>7. Emergency(next, elapsed, time) = next
    BY <2>6 DEF Emergency
  <2>8. bits' = next
    BY <2>1, <2>6, <2>7 DEF EarlyGrowth
  <2> QED
    BY <2>5, <2>8
<1>2. WindowInv /\ [NextWindow]_vars => [OnTime => Exponent(bits') = Exponent(bits)]_vars
  BY <1>1
<1> QED
  BY <1>2, InitWindow, StepWindow, PTL DEF Spec, OnTimeKeepsExponent

\* BackwardsIsSlowest: a window that ends before it began divides the compact
\* word by four, and in the early phase by eight.
THEOREM BackwardsWindows == Spec => BackwardsIsSlowest
<1>1. ASSUME WindowInv, NextWindow, last' < first'
      PROVE  bits' = bits \div (IF height' < EARLY_PHASE THEN 8 ELSE 4)
  <2> DEFINE time == TargetTime(DIFFICULTY_INTERVAL)
             elapsed == (last' - first') % LONG
             next == GetNextDifficulty(bits, last', first', DIFFICULTY_INTERVAL)
  <2>1. /\ first' \in Clock \cup {GenesisTime} /\ last' \in Clock \cup {GenesisTime}
        /\ bits \in 0..(WORD - 1) /\ height' \in Nat
        /\ bits' = EarlyGrowth(Emergency(next, elapsed, time), elapsed, time, height')
    BY <1>1, RetargetConstants DEF NextWindow, WindowInv, GetAdaptiveNextDifficulty
  <2>2. first' \in Nat /\ last' \in Nat /\ elapsed \in Nat /\ elapsed > 8 * time
    BY <1>1, <2>1, Elapsed, Window
  <2>3. time \in Nat \ {0}
    BY Window
  <2>4. next = bits
    BY <1>1, <2>1, <2>2, NextKeepsExponent
  <2> HIDE DEF time, elapsed, next
  <2>5. /\ ~(elapsed < time \div 2) /\ elapsed > time * 2
        /\ ~(elapsed < time \div 8) /\ elapsed > time * 8
    BY <2>2, <2>3
  <2>6. Emergency(next, elapsed, time) = bits \div 4
    BY <2>4, <2>5 DEF Emergency
  <2>7. bits' = IF height' >= EARLY_PHASE THEN bits \div 4 ELSE (bits \div 4) \div 2
    BY <2>1, <2>5, <2>6 DEF EarlyGrowth
  <2>8. (bits \div 4) \div 2 = bits \div 8
    BY <2>1, DifficultyConstants
  <2> QED
    BY <2>1, <2>7, <2>8, DifficultyConstants
<1>2. WindowInv /\ [NextWindow]_vars =>
         [last' < first' => bits' = bits \div (IF height' < EARLY_PHASE THEN 8 ELSE 4)]_vars
  BY <1>1
<1> QED
  BY <1>2, InitWindow, StepWindow, PTL DEF Spec, BackwardsIsSlowest

-----------------------------------------------------------------------------
(* Targets as bytes.                                                       *)

\* From an exponent of three on, a target has three bytes, and none of them lies
\* above the byte that the exponent points at.
LEMMA TargetBytes ==
    ASSUME NEW b \in 0..(WORD - 1), Exponent(b) >= 3
    PROVE  LET low == HASH_BYTES + 2 - Exponent(b)
           IN  /\ DOMAIN DecodeTarget(b) = 0..(HASH_BYTES - 1)
               /\ \A i \in 0..(HASH_BYTES - 1) : DecodeTarget(b)[i] \in Nat
               /\ \A i \in 0..(HASH_BYTES - 1) : i \notin (low - 2)..low => DecodeTarget(b)[i] = 0
<1> DEFINE size == Exponent(b)
           low == HASH_BYTES + 2 - size
           word == IF size <= 3 THEN Mantissa(b) \div Shift(3 - size) ELSE Mantissa(b)
           top == IF size <= 3 THEN HASH_BYTES - 1 ELSE HASH_BYTES - (size - 3) - 1
           byte(i) == ByteOf(word, top - i)
<1>1. size \in Nat /\ size >= 3 /\ HASH_BYTES \in Nat
  BY WordParts, DifficultyConstants
<1>2. DecodeTarget(b) = [i \in 0..(HASH_BYTES - 1) |->
                            IF i \in (top - 2)..top THEN byte(i) ELSE 0]
  BY DEF DecodeTarget
<1>3. BYTE \in Nat \ {0}
  BY DifficultyConstants
<1>4. Mantissa(b) \in Nat
  <2> DEFINE m == MANTISSA_MAX + 1
  <2>1. m \in Nat \ {0} /\ b \in Int
    BY Units, DifficultyConstants
  <2> HIDE DEF m
  <2>2. b % m \in 0..(m - 1)
    BY <2>1, Remainder
  <2>3. b % m \in Nat
    BY <2>1, <2>2
  <2> QED
    BY <2>3 DEF Mantissa, m
<1>5. word \in Nat
  <2>1. size <= 3 => Shift(3 - size) = 1
    BY <1>1 DEF Shift
  <2> QED
    BY <1>4, <2>1
<1>6. top = low
  BY <1>1
<1> HIDE DEF word, size
<1>7. ASSUME NEW i \in 0..(HASH_BYTES - 1), i \in (top - 2)..top PROVE byte(i) \in Nat
  <2> DEFINE n == top - i
             u == Shift(n)
  <2>1. n \in 0..2
    BY <1>1, <1>7
  <2>2. BYTE * BYTE \in Nat \ {0}
    BY <1>3
  <2>3. u \in Nat \ {0}
    BY <1>3, <2>1, <2>2 DEF Shift
  <2> HIDE DEF u
  <2>4. word \div u \in Nat
    BY <1>5, <2>3, Quotient
  <2>5. (word \div u) % BYTE \in Nat
    <3> DEFINE q == word \div u
    <3>1. q \in Int
      BY <2>4
    <3> HIDE DEF q
    <3>2. q % BYTE \in 0..(BYTE - 1)
      BY <1>3, <3>1, Remainder
    <3>3. q % BYTE \in Nat
      BY <1>3, <3>2
    <3> QED
      BY <3>3 DEF q
  <2> QED
    BY <2>5 DEF ByteOf, u
<1> HIDE DEF byte
<1> QED
  BY <1>1, <1>2, <1>6, <1>7 DEF size

\* Bytes at higher indices count for more: a target is below another one whose
\* bytes all lie higher and are not all zero.
LEMMA LowerBytes ==
    ASSUME NEW a \in 0..(WORD - 1), NEW b \in 0..(WORD - 1), Exponent(b) >= 3,
           Exponent(a) >= Exponent(b) + 3,
           \E i \in 0..(HASH_BYTES - 1) : DecodeTarget(b)[i] # 0
    PROVE  TargetLeq(DecodeTarget(a), DecodeTarget(b))
<1> DEFINE I == 0..(HASH_BYTES - 1)
           low == HASH_BYTES + 2 - Exponent(b)
           x == DecodeTarget(a)
           y == DecodeTarget(b)
<1>1. /\ Exponent(a) \in Nat /\ Exponent(b) \in Nat /\ HASH_BYTES \in Nat /\ low \in Int
      /\ Exponent(a) >= 3
  BY WordParts, DifficultyConstants
<1>2. DOMAIN x = I /\ \A i \in I : i >= low - 2 => x[i] = 0
  BY <1>1, TargetBytes
<1>3. /\ \A i \in I : y[i] \in Nat
      /\ \A i \in I : i \notin (low - 2)..low => y[i] = 0
  BY TargetBytes
<1> HIDE DEF x, y
<1>4. PICK i \in I : y[i] # 0 /\ \A j \in I : j > i => y[j] = 0
  <2>1. PICK k \in I : y[k] # 0
    BY DEF y
  <2>2. k \in (low - 2)..low /\ \A j \in I : j > low => y[j] = 0
    BY <1>1, <1>3, <2>1
  <2>3. CASE low \in I /\ y[low] # 0
    BY <1>1, <2>2, <2>3
  <2>4. CASE low - 1 \in I /\ y[low - 1] # 0 /\ ~(low \in I /\ y[low] # 0)
    <3>1. \A j \in I : j > low - 1 => j = low \/ j > low
      BY <1>1
    <3> QED
      BY <2>2, <2>4, <3>1
  <2>5. CASE ~(low \in I /\ y[low] # 0) /\ ~(low - 1 \in I /\ y[low - 1] # 0)
    <3>1. k = low - 2
      BY <1>1, <2>1, <2>2, <2>5
    <3>2. \A j \in I : j > low - 2 => j = low - 1 \/ j = low \/ j > low
      BY <1>1
    <3> QED
      BY <2>1, <2>2, <2>5, <3>1, <3>2
  <2> QED
    BY <2>3, <2>4, <2>5
<1>5. i >= low - 2
  BY <1>1, <1>3, <1>4
<1>6. x[i] < y[i] /\ \A j \in I : j > i => x[j] = y[j]
  BY <1>1, <1>2, <1>3, <1>4, <1>5
<1>7. TargetLeq(x, y)
  BY <1>2, <1>6 DEF TargetLeq
<1> QED
  BY <1>7 DEF x, y

\* FastIsHarder: what a fast window multiplies is the compact word, and the
\* exponent grows by so much that every byte of the new target lies below
\* those of the old one.
THEOREM FastWindows == Spec => FastIsHarder
<1> DEFINE Fast == /\ first' <= last' /\ last' - first' < WindowTime \div 2
                   /\ height' < EARLY_PHASE
                   /\ Exponent(bits) \in 3..(WORD \div (8 * MANTISSA_UNIT) - 1)
           Harder == TargetLeq(DecodeTarget(bits'), DecodeTarget(bits))
<1>1. ASSUME WindowInv, NextWindow, Fast PROVE Harder
  <2> DEFINE time == TargetTime(DIFFICULTY_INTERVAL)
             elapsed == (last' - first') % LONG
             next == GetNextDifficulty(bits, last', first', DIFFICULTY_INTERVAL)
             u == MANTISSA_UNIT
             e == Exponent(bits)
  <2>1. /\ first' \in Clock \cup {GenesisTime} /\ last' \in Clock \cup {GenesisTime}
        /\ bits \in 0..(WORD - 1) /\ height' \in Nat
        /\ bits' = EarlyGrowth(Emergency(next, elapsed, time), elapsed, time, height')
    BY <1>1, RetargetConstants DEF NextWindow, WindowInv, GetAdaptiveNextDifficulty
  <2>2. first' \in Nat /\ last' \in Nat /\ elapsed = last' - first' /\ elapsed \in Nat
    <3>1. first' \in Nat /\ last' \in Nat /\ elapsed = last' - first'
      BY <1>1, <2>1, Elapsed
    <3>2. \A x, y \in Nat : x <= y => y - x \in Nat
      OBVIOUS
    <3> HIDE DEF elapsed
    <3> QED
      BY <1>1, <3>1, <3>2
  <2>3. time \in Nat \ {0} /\ elapsed < time \div 2
    BY <1>1, <2>2, Window
  <2>4. u \in Nat \ {0} /\ WORD \in Nat /\ e \in Nat /\ e >= 3
    BY <1>1, <2>1, Units, WordParts, DifficultyConstants
  <2>5. next \in Nat /\ e * u <= next /\ next < e * u + u
    <3>1. e * u \in Nat /\ e * u <= bits /\ bits < e * u + u
      <4> HIDE DEF u
      <4> DEFINE q == bits \div u
                 rest == bits % u
      <4>1. bits = u * q + rest /\ rest \in 0..(u - 1) /\ q \in Int
        <5>1. bits \in Nat
          BY <2>1, DifficultyConstants
        <5> QED
          BY <2>4, <5>1
      <4>2. e = q
        BY DEF Exponent, u
      <4> HIDE DEF q, rest, e
      <4>3. bits = e * u + rest /\ e * u \in Nat
        BY <2>4, <4>1, <4>2
      <4> QED
        BY <2>4, <4>1, <4>3
    <3>2. MANTISSA_MAX \in Nat /\ MANTISSA_MAX < u
      BY Units
    <3>3. next = bits \/ \E m \in 0..MANTISSA_MAX : next = e * u + m
      BY <2>1, <2>2, NextKeepsExponent
    <3> HIDE DEF next, e, u
    <3> QED
      BY <2>1, <2>4, <3>1, <3>2, <3>3
  <2>6. 8 * (e * u + u) <= WORD
    <3> DEFINE q == WORD \div (8 * u)
    <3>1. q \in Nat /\ (8 * u) * q <= WORD
      <4>1. 8 * u \in Nat \ {0}
        BY <2>4
      <4> QED
        BY <2>4, <4>1, Quotient
    <3>2. e + 1 <= q
      BY <1>1, <2>4, <3>1
    <3> HIDE DEF q, e, u
    <3>3. (8 * u) * (e + 1) <= (8 * u) * q
      <4>1. 8 * u \in Nat /\ e + 1 \in Nat
        BY <2>4
      <4> QED
        BY <3>1, <3>2, <4>1, ProductGrows
    <3>4. (8 * u) * (e + 1) = 8 * (e * u + u)
      BY <2>4
    <3> QED
      BY <3>1, <3>3, <3>4, <2>4
  <2>7. bits' = next * 2 \/ bits' = next * 8
    <3> HIDE DEF next, time, elapsed, e, u
    <3>1. \A k \in 0..8 : next * k \in Nat /\ (next * k < WORD => (next * k) % WORD = next * k)
      BY <2>4, <2>5
    <3>2. next * 8 < WORD
      <4>1. e * u \in Nat
        BY <2>4
      <4> QED
        BY <2>4, <2>5, <2>6, <4>1
    <3>3. next * 4 < WORD /\ next * 2 < WORD
      BY <2>4, <2>5, <3>2
    <3>4. Emergency(next, elapsed, time) \in {next, next * 4}
      <4>1. (next * 4) % WORD = next * 4 /\ next <= next * 4
        BY <2>5, <3>1, <3>3
      <4>2. ~(elapsed > time * 8)
        <5>1. \A t \in Nat \ {0}, x \in Nat : x < t \div 2 => ~(x > t * 8)
          OBVIOUS
        <5> QED
          BY <2>2, <2>3, <5>1
      <4> QED
        BY <4>1, <4>2 DEF Emergency, AtLeast
    <3>5. bits' = (Emergency(next, elapsed, time) * 2) % WORD
      BY <1>1, <2>1, <2>3, DifficultyConstants DEF EarlyGrowth
    <3>6. (next * 2) % WORD = next * 2 /\ ((next * 4) * 2) % WORD = next * 8
      <4>1. (next * 4) * 2 = next * 8
        BY <2>5
      <4> QED
        BY <3>1, <3>2, <3>3, <4>1
    <3> QED
      BY <3>4, <3>5, <3>6
  <2>8. bits' \in 0..(WORD - 1) /\ bits' >= 2 * (e * u)
    <3> HIDE DEF next, e, u
    <3>1. e * u \in Nat
      BY <2>4
    <3> QED
      BY <2>4, <2>5, <2>6, <2>7, <3>1
  <2>9. Exponent(bits') >= e + 3
    <3>1. u * (2 * e) <= bits'
      <4>1. u * (2 * e) = 2 * (e * u)
        BY <2>4
      <4> QED
        BY <2>8, <4>1
    <3>2. 2 * e <= bits' \div u
      <4>1. bits' \in Nat /\ 2 * e \in Nat
        BY <2>4, <2>8
      <4> HIDE DEF e, u
      <4> QED
        BY <2>4, <3>1, <4>1, QuotientAtLeast
    <3>3. Exponent(bits') = bits' \div u /\ Exponent(bits') \in Nat
      BY <2>8, WordParts DEF Exponent
    <3> HIDE DEF e, u
    <3> QED
      BY <2>4, <3>2, <3>3
  <2> QED
    BY <1>1, <2>1, <2>4, <2>8, <2>9, LowerBytes DEF NextWindow, Minable
<1>2. WindowInv /\ [NextWindow]_vars => [Fast => Harder]_vars
  BY <1>1
<1> QED
  BY <1>2, InitWindow, StepWindow, PTL DEF Spec, FastIsHarder

=============================================================================
