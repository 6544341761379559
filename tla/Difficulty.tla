----------------------------- MODULE Difficulty -----------------------------
(***************************************************************************)
(* The difficulty arithmetic of mining/difficulty.cpp and the compact      *)
(* target of consensus.cpp's checkProofOfWork.  A compact value is         *)
(* exponent * MANTISSA_UNIT + mantissa in a word of WORD values.  The      *)
(* widths are parameters so that they can be scaled to TLC's integers      *)
(* while every shift, mask, saturation and wrap keeps its place:           *)
(* the program has BYTE = 2^8, WORD = 2^32 and LONG = 2^64.                *)
(***************************************************************************)
EXTENDS Integers, Sequences

CONSTANTS
    BYTE,                       \* values of a byte
    WORD,                       \* values of a uint32_t
    LONG,                       \* values of a uint64_t
    HASH_BYTES,                 \* bytes of a hash: 32
    BLOCK_TIME_TARGET,          \* seconds per block: 600
    EARLY_PHASE                 \* height below which adjustment is doubled: 10000

ASSUME DifficultyConstants ==
    /\ BYTE \in Nat \ {0} /\ WORD \in Nat \ {0} /\ LONG \in Nat \ {0}
    /\ BYTE % 2 = 0 /\ WORD % (BYTE * BYTE * BYTE) = 0
    /\ HASH_BYTES \in Nat /\ HASH_BYTES >= 3
    /\ BLOCK_TIME_TARGET \in Nat \ {0}
    /\ EARLY_PHASE \in Nat

MANTISSA_UNIT == BYTE * BYTE * BYTE             \* 1 << 24
MANTISSA_MAX == MANTISSA_UNIT \div 2 - 1        \* 0x007fffff

Exponent(bits) == bits \div MANTISSA_UNIT
Mantissa(bits) == bits % (MANTISSA_MAX + 1)

AtMost(bound, n) == IF n > bound THEN bound ELSE n
AtLeast(bound, n) == IF n < bound THEN bound ELSE n

TargetTime(numBlocks) == BLOCK_TIME_TARGET * (numBlocks - 1)

\* MUTANTS of GetNextDifficulty: it saturates at 24 bits instead of 23; or it
\* does not saturate.
GetNextDifficultyLooseCap(current, last, first, numBlocks) ==
    LET time    == TargetTime(numBlocks)
        elapsed == AtMost(time * 4, AtLeast(time \div 4, last - first))
    IN  IF numBlocks = 0 \/ first >= last THEN current
        ELSE Exponent(current) * MANTISSA_UNIT
             + AtMost(MANTISSA_UNIT - 1, (current * elapsed) \div time)

GetNextDifficultyNoCap(current, last, first, numBlocks) ==
    LET time    == TargetTime(numBlocks)
        elapsed == AtMost(time * 4, AtLeast(time \div 4, last - first))
    IN  IF numBlocks = 0 \/ first >= last THEN current
        ELSE (Exponent(current) * MANTISSA_UNIT + (current * elapsed) \div time) % WORD

\* The product saturates at the largest mantissa before the old exponent is
\* put back.
GetNextDifficulty(current, last, first, numBlocks) ==
    LET time    == TargetTime(numBlocks)
        elapsed == AtMost(time * 4, AtLeast(time \div 4, last - first))
    IN  IF numBlocks = 0 \/ first >= last THEN current
        ELSE Exponent(current) * MANTISSA_UNIT
             + AtMost(MANTISSA_MAX, (current * elapsed) \div time)

\* newTarget * 4 or / 4, taken only if it really went that way.
Emergency(target, elapsed, time) ==
    IF elapsed < time \div 8 THEN AtLeast(target, (target * 4) % WORD)
    ELSE IF elapsed > time * 8 THEN target \div 4
    ELSE target

\* MUTANTS of EarlyGrowth: doubling in 64 bits; fast and slow exchanged.
EarlyGrowthUnwrapped(target, elapsed, time, height) ==
    IF height >= EARLY_PHASE THEN target
    ELSE IF elapsed < time \div 2 THEN target * 2
    ELSE IF elapsed > time * 2 THEN target \div 2
    ELSE target

EarlyGrowthSwapped(target, elapsed, time, height) ==
    IF height >= EARLY_PHASE THEN target
    ELSE IF elapsed < time \div 2 THEN target \div 2
    ELSE IF elapsed > time * 2 THEN (target * 2) % WORD
    ELSE target

EarlyGrowth(target, elapsed, time, height) ==
    IF height >= EARLY_PHASE THEN target
    ELSE IF elapsed < time \div 2 THEN (target * 2) % WORD
    ELSE IF elapsed > time * 2 THEN target \div 2
    ELSE target

\* MUTANT of GetAdaptiveNextDifficulty: elapsed does not wrap but stops at 0.
GetAdaptiveNextDifficultyFloored(current, last, first, numBlocks, height) ==
    LET time    == TargetTime(numBlocks)
        elapsed == AtLeast(0, last - first)
        next    == GetNextDifficulty(current, last, first, numBlocks)
    IN  EarlyGrowth(Emergency(next, elapsed, time), elapsed, time, height)

\* The arithmetic is on the whole compact word, exponent and mantissa alike,
\* and elapsed wraps when the last block is stamped before the first.
GetAdaptiveNextDifficulty(current, last, first, numBlocks, height) ==
    LET time    == TargetTime(numBlocks)
        elapsed == (last - first) % LONG
        next    == GetNextDifficulty(current, last, first, numBlocks)
    IN  EarlyGrowth(Emergency(next, elapsed, time), elapsed, time, height)

-----------------------------------------------------------------------------
(* The target a compact value stands for: checkProofOfWork and mineBlock   *)
(* fill the array target[0..31] and compare it with the hash from byte 31  *)
(* down, so that target[31] is the most significant byte.                  *)

\* 1 << (8 * n), for the shifts that occur
Shift(n) == <<1, BYTE, BYTE * BYTE, BYTE * BYTE * BYTE>>[n + 1]

ByteOf(word, n) == (word \div Shift(n)) % BYTE

DecodeTarget(bits) ==
    LET size    == Exponent(bits)
        word    == IF size <= 3 THEN Mantissa(bits) \div Shift(3 - size)
                   ELSE Mantissa(bits)
        low     == IF size <= 3 THEN HASH_BYTES - 1
                   ELSE HASH_BYTES - (size - 3) - 1      \* bytePos
    IN  [i \in 0..(HASH_BYTES - 1) |->
            IF i \in (low - 2)..low THEN ByteOf(word, low - i) ELSE 0]

\* a <= b for byte arrays read from the last index down.
TargetLeq(a, b) ==
    \/ a = b
    \/ \E i \in DOMAIN a :
          /\ a[i] < b[i]
          /\ \A j \in DOMAIN a : j > i => a[j] = b[j]

=============================================================================
