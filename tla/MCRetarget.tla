------------------------------ MODULE MCRetarget ------------------------------
(***************************************************************************)
(* Windows of three blocks, bytes of four values, hashes of eight bytes:   *)
(* every compact word of six exponent bits and six mantissa bits is tried  *)
(* as the target of block 1.  The timestamps lie on either side of every   *)
(* threshold of a window of 16 seconds: 2 (an eighth), 4, 8 (half), 16,    *)
(* 32 (twice), 64 and 128 (eight times).                                   *)
(***************************************************************************)
EXTENDS Retarget

MCClock == {0, 1, 2, 3, 8, 10, 16, 18, 33, 60, 129, 140}
MCGenesisTime == 2

\* A window that took its time, and one of more than eight times that.
MCSlowClock == {18, 140}
MCEasy == 4 * MANTISSA_UNIT + 15
=============================================================================
