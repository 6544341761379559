------------------------------- MODULE Retarget -------------------------------
(***************************************************************************)
(* How the target of a chain moves from one difficulty window to the next: *)
(* consensus.cpp's checkDifficulty over the arithmetic of Difficulty.      *)
(*                                                                         *)
(* A step is a window of DIFFICULTY_INTERVAL blocks that all carry the same*)
(* bits, and the bits checkDifficulty demands of the block after them.     *)
(* Nothing orders the timestamps of a chain (validateBlockStructure only   *)
(* bounds them from above), so a window may even end before it began.      *)
(***************************************************************************)
EXTENDS Difficulty

CONSTANTS
    DIFFICULTY_INTERVAL,
    EASY_MINE_DIFFICULTY,       \* 0x0400ffff
    MAX_EXPONENT,               \* 50 in isValidDifficulty
    GenesisTime,
    Clock,                      \* timestamps of blocks
    MaxHeight                   \* windows are mined up to here

ASSUME RetargetConstants ==
    /\ DIFFICULTY_INTERVAL \in Nat \ {0, 1}
    /\ BLOCK_TIME_TARGET % 4 = 0
    /\ GenesisTime \in Nat /\ Clock \subseteq Nat
    /\ EASY_MINE_DIFFICULTY \in Nat /\ MAX_EXPONENT \in Nat /\ MaxHeight \in Nat

\* Times of day are far from the end of a uint64_t (a block from the future is
\* refused by validateBlockStructure): no timestamp and no sum of one and eight
\* windows wraps, only a difference may.
ASSUME TimesFit ==
    \A time \in Clock \cup {GenesisTime} :
        time + 8 * TargetTime(DIFFICULTY_INTERVAL) < LONG

VARIABLES
    bits,                       \* difficulty_target of the blocks of this window
    height,                     \* height of its first block
    first, last                 \* timestamps of the ends of the window before

vars == <<bits, height, first, last>>

WindowTime == TargetTime(DIFFICULTY_INTERVAL)

\* What validateBlockStructure demands, together with the fact that nobody
\* finds a hash that is zero: the mantissa is not zero, nor is the target.
Minable(b) ==
    /\ Mantissa(b) # 0
    /\ \E i \in 0..(HASH_BYTES - 1) : DecodeTarget(b)[i] # 0

\* isValidDifficulty, whose mantissa has one bit more.
IsValidDifficulty(b) ==
    /\ Exponent(b) # 0 /\ Exponent(b) <= MAX_EXPONENT
    /\ b % MANTISSA_UNIT # 0
    /\ b >= EASY_MINE_DIFFICULTY

\* The block after genesis may carry any bits: at height 0 checkDifficulty
\* accepts them all.
Init ==
    /\ bits \in {b \in 0..(WORD - 1) : Minable(b)}
    /\ height = 0
    /\ first = GenesisTime /\ last = GenesisTime

NextWindow ==
    /\ Minable(bits)
    /\ height <= MaxHeight
    /\ first' \in IF height = 0 THEN {GenesisTime} ELSE Clock
    /\ last' \in Clock
    /\ height' = height + DIFFICULTY_INTERVAL
    /\ bits' = GetAdaptiveNextDifficulty(bits, last', first', DIFFICULTY_INTERVAL, height')

Spec == Init /\ [][NextWindow]_vars

-----------------------------------------------------------------------------
(* Properties.  Fast and slow are what getAdaptiveNextDifficulty calls so. *)

\* Targets stay in 32 bits although the arithmetic multiplies them by eight;
\* windows begin at multiples of the interval.
TypeOK ==
    /\ bits \in 0..(WORD - 1)
    /\ height \in Nat /\ height % DIFFICULTY_INTERVAL = 0
    /\ first \in Nat /\ last \in Nat

\* getNextDifficulty multiplies the whole word, exponent included, so from an
\* exponent of two on its product always saturates: the quarter-to-four-times
\* clamp of line 13 has no effect, the mantissa becomes the largest one
\* however long the window took.
MantissaIgnoresTime ==
    Exponent(bits) >= 2 =>
        \A f, l \in Clock : f < l =>
            GetNextDifficulty(bits, l, f, DIFFICULTY_INTERVAL)
                = Exponent(bits) * MANTISSA_UNIT + MANTISSA_MAX

\* A window between half and twice the target time leaves the exponent alone:
\* saturation keeps the product from spilling over into it.
OnTime == first' < last' /\ last' - first' \in (WindowTime \div 2)..(WindowTime * 2)

OnTimeKeepsExponent == [][OnTime => Exponent(bits') = Exponent(bits)]_vars

\* A window that ends before it began has, in unsigned arithmetic, lasted
\* nearly for ever: it is rewarded like the slowest one.
BackwardsIsSlowest ==
    [][last' < first' =>
          bits' = bits \div (IF height' < EARLY_PHASE THEN 8 ELSE 4)]_vars

\* A fast window never makes mining easier, although what is multiplied is
\* the compact word and what is compared are the bytes of the target: for
\* exponents that survive being multiplied by eight, a larger exponent puts
\* the mantissa into less significant bytes.
FastIsHarder ==
    [][(/\ first' <= last' /\ last' - first' < WindowTime \div 2
        /\ height' < EARLY_PHASE
        /\ Exponent(bits) \in 3..(WORD \div (8 * MANTISSA_UNIT) - 1))
       => TargetLeq(DecodeTarget(bits'), DecodeTarget(bits))]_vars

\* The claim of difficulty.cpp:54: the next difficulty is within the bounds
\* that isValidDifficulty checks, after a window of the only target that the
\* miner uses.
StaysWithinBounds ==
    [][bits = EASY_MINE_DIFFICULTY => IsValidDifficulty(bits')]_vars

=============================================================================
